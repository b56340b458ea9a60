-------------------------------- MODULE Wire --------------------------------
(***************************************************************************)
(* One call over the TCP transport: roundTrip at the caller                *)
(* (transport/tcp_transport.go), Start and handleConnection at the other   *)
(* node (handler/tcp_listener.go), and the framed messages between them    *)
(* (transport/protocol.go).  Every call has a connection of its own, so    *)
(* calls do not meet on the wire.                                          *)
(*                                                                         *)
(* A message is a header and a payload; only their lengths matter here.    *)
(* Each direction of the connection counts the bytes its writer has handed *)
(* to the kernel and the bytes its reader can read.  A reader sees the     *)
(* other side's close after all bytes sent before it, and a cut (a reset,  *)
(* the death of a process or a machine) at once.  The caller has a         *)
(* deadline for the whole exchange, the listener has none.                 *)
(*                                                                         *)
(* A definition introduced as a variant is not part of the model: it is    *)
(* the definition after it with one plausible fault, and stands in for it  *)
(* when a property is tested against that fault (README, "Variants").      *)
(***************************************************************************)
EXTENDS Naturals

CONSTANTS
    HeaderSize,      \* 5: type and length
    MaxPayloadSize,  \* 64 MB
    LengthModulus,   \* 2^32: the length field has 32 bits
    Size,            \* lengths of payloads
    None

ASSUME HeaderSizeAssumption == HeaderSize \in Nat \ {0}
ASSUME MaxPayloadSizeAssumption == MaxPayloadSize \in Nat
ASSUME LengthModulusAssumption ==
    LengthModulus \in Nat /\ MaxPayloadSize < LengthModulus
\* Nobody sends 4 GB: requests are short, a chunk has 1 MB.
ASSUME SizeAssumption == Size \subseteq 0 .. LengthModulus - 1

Answer == [status : {"ok", "error"}, size : Size]
Accepted == {a \in Answer : a.status = "ok"}

ASSUME NoneAssumption == None \notin Answer /\ None \notin Size

VARIABLES
    client,     \* the place in roundTrip
    server,     \* the place in handleConnection
    request,    \* the length of the request's payload
    answer,     \* what the handler returned
    result,     \* what roundTrip returned
    up, down,   \* bytes from the caller to the listener, and back
    cut,        \* the connection was broken
    late        \* history: the deadline passed, or nobody was reached

wireVars == <<client, server, request, answer, result, up, down, cut, late>>

ClientPC == {"idle", "dial", "send", "read", "ok", "failed"}
ServerPC == {"none", "queued", "read", "handle", "write", "closed"}

Stream == [sent : Nat, arrived : Nat]
NoBytes == [sent |-> 0, arrived |-> 0]

-----------------------------------------------------------------------------
(***************************************************************************)
(* WriteMessage and ReadMessage.                                           *)
(***************************************************************************)
MessageLength(size) == HeaderSize + size

\* The length a reader finds in the header.
LengthField(size) == size % LengthModulus

\* Variants: a limit one byte lower, and a reader that takes what one Read
\* returns for the whole message.
TooLargeAtLimit(size) == LengthField(size) >= MaxPayloadSize
TooLarge(size) == LengthField(size) > MaxPayloadSize
ReadOnce(s, size) == s.arrived > HeaderSize \/ s.arrived = MessageLength(size)

\* io.ReadFull has returned the header, and then the payload.
HeaderRead(s) == s.arrived >= HeaderSize
ReadFull(s, size) == s.arrived >= HeaderSize + LengthField(size)

Readable(s, size) == HeaderRead(s) /\ ~TooLarge(size) /\ ReadFull(s, size)

\* The payload that was read.
PayloadOf(s) == s.arrived - HeaderSize

\* The reader of s gives up: the message is too large, the connection is
\* broken, or the writer closed it and no more bytes come.
ReadError(s, size, writerClosed) ==
    \/ HeaderRead(s) /\ TooLarge(size)
    \/ cut
    \/ writerClosed /\ s.arrived = s.sent /\ ~ReadFull(s, size)

\* The kernel takes one more byte of a message.
SendByte(s) == [s EXCEPT !.sent = @ + 1]
Sent(s, size) == s.sent + 1 = MessageLength(size)

\* Variant: roundTrip does not close its connection.
ClientNeverCloses == FALSE
\* The connection is closed when roundTrip returns.
ClientClosed == client \in {"ok", "failed"}
ServerClosed == server = "closed"

-----------------------------------------------------------------------------
WireInit ==
    /\ client = "idle"
    /\ server = "none"
    /\ request = None
    /\ answer = None
    /\ result = None
    /\ up = NoBytes
    /\ down = NoBytes
    /\ cut = FALSE
    /\ late = FALSE

ClientFails ==
    client' = "failed" /\ UNCHANGED <<server, request, answer, result, up, down, cut>>

CallBegin(size) ==
    /\ client = "idle"
    /\ client' = "dial"
    /\ request' = size
    /\ UNCHANGED <<server, answer, result, up, down, cut, late>>

\* The listener's kernel completes the connection before Accept returns it.
Dial ==
    /\ client = "dial"
    /\ client' = "send"
    /\ server' = "queued"
    /\ UNCHANGED <<request, answer, result, up, down, cut, late>>

\* Nobody listens there, or DialTimeout has passed.
DialFails == client = "dial" /\ ClientFails /\ late' = TRUE

ClientWrite ==
    /\ client = "send"
    /\ up' = SendByte(up)
    /\ client' = IF Sent(up, request) THEN "read" ELSE "send"
    /\ UNCHANGED <<server, request, answer, result, down, cut, late>>

ClientWriteFails ==
    /\ client = "send"
    /\ cut \/ ServerClosed
    /\ ClientFails
    /\ UNCHANGED late

\* The answer is complete; one that reports an error is an error of the call.
ClientRead ==
    /\ client = "read"
    /\ answer # None
    /\ Readable(down, answer.size)
    /\ IF answer.status = "ok"
       THEN /\ client' = "ok"
            /\ result' = [answer EXCEPT !.size = PayloadOf(down)]
       ELSE client' = "failed" /\ UNCHANGED result
    /\ UNCHANGED <<server, request, answer, up, down, cut, late>>

AnswerSize == IF answer = None THEN 0 ELSE answer.size

ClientReadFails ==
    /\ client = "read"
    /\ ReadError(down, AnswerSize, ServerClosed)
    /\ ClientFails
    /\ UNCHANGED late

\* Variant: no deadline is set.
NoDeadline == FALSE /\ UNCHANGED wireVars
\* ReadTimeout has passed since the connection was made.
Deadline == client \in {"send", "read"} /\ ClientFails /\ late' = TRUE

Client ==
    \/ Dial \/ DialFails
    \/ ClientWrite \/ ClientWriteFails
    \/ ClientRead \/ ClientReadFails

-----------------------------------------------------------------------------
ServerGoes(pc) ==
    server' = pc /\ UNCHANGED <<client, request, answer, result, up, down, cut, late>>

\* Start takes the connection and starts handleConnection.
Accept == server = "queued" /\ ServerGoes("read")

ServerRead ==
    /\ server = "read"
    /\ Readable(up, request)
    /\ ServerGoes("handle")

ServerReadFails ==
    /\ server = "read"
    /\ ReadError(up, request, ClientClosed)
    /\ ServerGoes("closed")

\* One of the handlers answers, or the message type is unknown.
Handle(a) ==
    /\ server = "handle"
    /\ server' = "write"
    /\ answer' = a
    /\ UNCHANGED <<client, request, result, up, down, cut, late>>

ServerWrite ==
    /\ server = "write"
    /\ down' = SendByte(down)
    /\ server' = IF Sent(down, answer.size) THEN "closed" ELSE "write"
    /\ UNCHANGED <<client, request, answer, result, up, cut, late>>

ServerWriteFails ==
    /\ server = "write"
    /\ cut \/ ClientClosed
    /\ ServerGoes("closed")

Server ==
    \/ Accept
    \/ ServerRead \/ ServerReadFails
    \/ \E a \in Answer : Handle(a)
    \/ ServerWrite \/ ServerWriteFails

-----------------------------------------------------------------------------
InFlight(s) == ~cut /\ s.arrived < s.sent
Arrive(s) == [s EXCEPT !.arrived = @ + 1]

Deliver ==
    /\ \/ InFlight(up) /\ up' = Arrive(up) /\ UNCHANGED down
       \/ InFlight(down) /\ down' = Arrive(down) /\ UNCHANGED up
    /\ UNCHANGED <<client, server, request, answer, result, cut, late>>

Break ==
    /\ server # "none"
    /\ ~cut
    /\ cut' = TRUE
    /\ UNCHANGED <<client, server, request, answer, result, up, down, late>>

WireNext ==
    \/ \E size \in Size : CallBegin(size)
    \/ Client \/ Deadline
    \/ Server
    \/ Deliver \/ Break

WireSpec == WireInit /\ [][WireNext]_wireVars

\* The caller's goroutine runs, and its timers fire.  Nothing is asked of the
\* other node or of the network: they may stall.
ClientFairness == WF_wireVars(Client) /\ WF_wireVars(Deadline)

FairWireSpec == WireSpec /\ ClientFairness

\* The listener's goroutines run, ...
ServerFairness == WF_wireVars(Server)
\* ... and TCP delivers what was sent unless the connection breaks.
NetworkFairness == WF_wireVars(Deliver)
-----------------------------------------------------------------------------
(***************************************************************************)
(* Properties.                                                             *)
(***************************************************************************)
WireTypeOK ==
    /\ client \in ClientPC
    /\ server \in ServerPC
    /\ request \in Size \cup {None}
    /\ answer \in Answer \cup {None}
    /\ result \in Accepted \cup {None}
    /\ up \in Stream /\ down \in Stream
    /\ cut \in BOOLEAN /\ late \in BOOLEAN

\* A call fails only because the connection could not be made or broke, the
\* deadline passed, a payload was over the limit, or the handler reported an
\* error: the close of the other side, which may come right behind the last
\* byte (tcp_listener.go:71), never takes an answer away, and a payload of
\* exactly MaxPayloadSize is accepted (protocol.go:80).
FailedForCause ==
    client = "failed" =>
        \/ late \/ cut
        \/ request > MaxPayloadSize
        \/ answer # None /\ (answer.status = "error" \/ answer.size > MaxPayloadSize)

Call == INSTANCE RemoteCall WITH
    phase   <- CASE client = "idle" -> "idle"
                 [] client \in {"ok", "failed"} -> client
                 [] OTHER -> "open",
    outcome <- answer,
    result  <- result

\* Swarm and Registry treat a call as answered or failed.  The bytes on the
\* wire keep that promise: the handler runs once and only on a whole request,
\* and a caller that gets an answer gets all of it and no other, although the
\* connection may break or the deadline pass at any byte, and the handler may
\* run after the caller gave up (tcp_transport.go:53).
CallImplemented == Call!CallSpec

\* A call ends whatever the other node and the network do, because the
\* deadline covers the whole exchange (tcp_transport.go:53).
CallEnds == (client = "dial") ~> (client \in {"ok", "failed"})

\* The listener reads and writes without a deadline (tcp_listener.go:73).
\* Still, a handler ends when its caller is a roundTrip: that closes the
\* connection at its deadline at the latest.
HandlerEnds ==
    ServerFairness /\ NetworkFairness => ((server = "queued") ~> (server = "closed"))

\* How far a call has come on either side, and the bytes on their way.
ClientStage(pc) ==
    CASE pc = "idle" -> 0
      [] pc = "dial" -> 1
      [] pc = "send" -> 2
      [] pc = "read" -> 3
      [] OTHER       -> 4

ServerStage(pc) ==
    CASE pc = "none"   -> 0
      [] pc = "queued" -> 1
      [] pc = "read"   -> 2
      [] pc = "handle" -> 3
      [] pc = "write"  -> 4
      [] OTHER         -> 5

Progress == <<ClientStage(client), ServerStage(server), up.sent, up.arrived,
              down.sent, down.arrived, IF cut THEN 1 ELSE 0>>

\* A connection comes to rest: nothing on it is retried or goes back, each step
\* brings something forward, and bytes are bounded by their message
\* (BytesInOrder).
CallAdvances ==
    [][/\ \E i \in DOMAIN Progress : Progress[i] < Progress'[i]
       /\ \A i \in DOMAIN Progress : Progress[i] <= Progress'[i]]_wireVars
-----------------------------------------------------------------------------
(***************************************************************************)
(* What the invariants rest on.                                            *)
(***************************************************************************)

\* The bytes of a message: none before it is there, all once it is written,
\* and none arrives that was not sent.
BytesInOrder ==
    /\ up.arrived <= up.sent
    /\ down.arrived <= down.sent
    /\ client \in {"idle", "dial"} => up.sent = 0
    /\ request # None => up.sent <= MessageLength(request)
    /\ answer = None => down.sent = 0
    /\ answer # None => down.sent <= MessageLength(answer.size)

PlacesAgree ==
    /\ (request = None) <=> (client = "idle")
    /\ client \in {"idle", "dial"} => server = "none"
    /\ client = "send" => up.sent < MessageLength(request)
    /\ client = "read" => up.sent = MessageLength(request)
    /\ result # None => client = "ok"
    /\ server = "write" => answer # None /\ down.sent < MessageLength(answer.size)
    /\ server \in {"none", "queued", "read", "handle"} => answer = None

\* Only a whole request of a legal size is handled.
WholeRequestHandled ==
    server = "handle" \/ answer # None =>
        up.arrived = MessageLength(request) /\ request <= MaxPayloadSize

\* A connection that the listener closed first has served its call, unless it
\* had cause.
ClosedForCause ==
    server = "closed" /\ ~ClientClosed =>
        \/ late \/ cut
        \/ request > MaxPayloadSize
        \/ answer # None /\ down.sent = MessageLength(answer.size)

\* The inductive invariant of the proofs in WireProofs.
WireInv ==
    /\ WireTypeOK
    /\ BytesInOrder
    /\ PlacesAgree
    /\ WholeRequestHandled
    /\ ClosedForCause
    /\ FailedForCause
=============================================================================
