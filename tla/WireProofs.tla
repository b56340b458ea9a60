----------------------------- MODULE WireProofs -----------------------------
(***************************************************************************)
(* WireInv is an inductive invariant of Wire, and Wire implements          *)
(* RemoteCall: proofs for messages of any length up to what 32 bits can    *)
(* say, and any limit on payloads.                                         *)
(***************************************************************************)
EXTENDS Wire, TLAPS

\* The length in the header is the length of the payload, which is shorter
\* than 4 GB.
LEMMA LengthIsExact ==
    ASSUME NEW size \in Size
    PROVE  size \in Nat /\ LengthField(size) = size
  BY SizeAssumption, LengthModulusAssumption DEF LengthField

\* So is that of an answer.
LEMMA AnswerLength ==
    ASSUME NEW a \in Answer
    PROVE  a.size \in Size /\ a.size \in Nat /\ LengthField(a.size) = a.size
  BY LengthIsExact DEF Answer

\* Before the call.
LEMMA WireInitInv ==
    ASSUME WireInit
    PROVE  WireInv
<1>1. WireTypeOK
  BY DEF WireInit, WireTypeOK, ClientPC, ServerPC, Stream, NoBytes
<1>2. BytesInOrder
  BY DEF WireInit, BytesInOrder, NoBytes
<1>3. PlacesAgree /\ WholeRequestHandled /\ ClosedForCause /\ FailedForCause
  BY DEF WireInit, PlacesAgree, WholeRequestHandled, ClosedForCause, FailedForCause
<1> QED
  BY <1>1, <1>2, <1>3 DEF WireInv

\* The steps of roundTrip that move no bytes: the request is chosen, the
\* connection is made, or not.
LEMMA CallBeginInv ==
    ASSUME WireInv, \/ \E size \in Size : CallBegin(size)
                    \/ Dial
                    \/ DialFails
                    \/ Deadline
    PROVE  WireInv'
<1>0. request # None => request \in Nat
  BY LengthIsExact DEF WireInv, WireTypeOK
<1>1. CASE \E size \in Size : CallBegin(size)
  BY <1>1, LengthIsExact, HeaderSizeAssumption, NoneAssumption
     DEF CallBegin, WireInv, WireTypeOK, BytesInOrder, PlacesAgree, WholeRequestHandled,
         ClosedForCause, FailedForCause, ClientPC, ClientClosed, ServerClosed, MessageLength
<1>2. CASE Dial
  BY <1>0, <1>2, HeaderSizeAssumption
     DEF Dial, WireInv, WireTypeOK, BytesInOrder, PlacesAgree, WholeRequestHandled,
         ClosedForCause, FailedForCause, ClientPC, ServerPC, MessageLength
<1>3. CASE DialFails
  BY <1>3
     DEF DialFails, ClientFails, WireInv, WireTypeOK, BytesInOrder, PlacesAgree,
         WholeRequestHandled, ClosedForCause, FailedForCause, ClientPC
<1>4. CASE Deadline
  BY <1>4
     DEF Deadline, ClientFails, WireInv, WireTypeOK, BytesInOrder, PlacesAgree,
         WholeRequestHandled, ClosedForCause, FailedForCause, ClientPC
<1> QED
  BY <1>1, <1>2, <1>3, <1>4

\* The caller writes its request, or sees that the other side has gone: that
\* had no cause to close before the whole request was there.
LEMMA ClientWriteInv ==
    ASSUME WireInv, ClientWrite \/ ClientWriteFails
    PROVE  WireInv'
<1>1. /\ request \in Size /\ request \in Nat /\ HeaderSize \in Nat
      /\ up \in Stream /\ up.sent \in Nat /\ up.arrived \in Nat
      /\ up.arrived <= up.sent /\ up.sent < MessageLength(request)
      /\ client = "send" /\ result = None
  <2>1. client = "send"
    BY DEF ClientWrite, ClientWriteFails
  <2>2. request \in Size
    BY <2>1 DEF WireInv, WireTypeOK, PlacesAgree
  <2> QED
    BY <2>1, <2>2, LengthIsExact, HeaderSizeAssumption
       DEF WireInv, WireTypeOK, Stream, BytesInOrder, PlacesAgree
<1>2. answer = None
  BY <1>1 DEF WireInv, WholeRequestHandled
<1>3. CASE ClientWrite
  <2>1. /\ up' \in Stream /\ up'.sent = up.sent + 1 /\ up'.arrived = up.arrived
        /\ client' = IF up.sent + 1 = MessageLength(request) THEN "read" ELSE "send"
        /\ UNCHANGED <<server, request, answer, result, down, cut, late>>
    BY <1>1, <1>3 DEF ClientWrite, SendByte, Sent, Stream
  <2>2. MessageLength(request) \in Nat
    BY <1>1 DEF MessageLength
  <2>3. WireTypeOK'
    BY <2>1 DEF WireInv, WireTypeOK, ClientPC
  <2>4. BytesInOrder' /\ PlacesAgree'
    BY <1>1, <2>1, <2>2 DEF WireInv, BytesInOrder, PlacesAgree
  <2>5. WholeRequestHandled' /\ ClosedForCause' /\ FailedForCause'
    BY <1>1, <2>1 DEF WireInv, WholeRequestHandled, ClosedForCause, FailedForCause, ClientClosed
  <2> QED
    BY <2>3, <2>4, <2>5 DEF WireInv
<1>4. CASE ClientWriteFails
  BY <1>1, <1>2, <1>4
     DEF ClientWriteFails, ClientFails, WireInv, WireTypeOK, BytesInOrder, PlacesAgree,
         WholeRequestHandled, ClosedForCause, FailedForCause, ClientPC, ClientClosed,
         ServerClosed
<1> QED
  BY <1>3, <1>4

\* The bytes of the answer that a complete read returns are the answer.
LEMMA PayloadIsWhole ==
    ASSUME WireInv, answer # None, Readable(down, answer.size)
    PROVE  PayloadOf(down) = answer.size /\ answer.size <= MaxPayloadSize
<1>1. answer \in Answer /\ down \in Stream
  BY DEF WireInv, WireTypeOK
<1>2. down.arrived \in Nat /\ down.sent \in Nat
  BY <1>1 DEF Stream
<1>3. down.arrived <= down.sent /\ down.sent <= HeaderSize + answer.size
  BY DEF WireInv, BytesInOrder, MessageLength
<1> QED
  BY <1>1, <1>2, <1>3, AnswerLength, HeaderSizeAssumption, MaxPayloadSizeAssumption
     DEF Readable, TooLarge, ReadFull, PayloadOf

\* The caller reads the answer, or fails to: when the other side has closed,
\* all of the answer has been sent.
LEMMA ClientReadInv ==
    ASSUME WireInv, ClientRead \/ ClientReadFails
    PROVE  WireInv'
<1>1. /\ client = "read" /\ result = None /\ request \in Size /\ request \in Nat
      /\ up.sent = MessageLength(request)
  <2>1. client = "read"
    BY DEF ClientRead, ClientReadFails
  <2> QED
    BY <2>1, LengthIsExact DEF WireInv, WireTypeOK, PlacesAgree
<1>2. CASE ClientRead
  <2>1. answer \in Answer /\ PayloadOf(down) = answer.size
    BY <1>2, PayloadIsWhole DEF ClientRead, WireInv, WireTypeOK
  <2>2. /\ client' \in {"ok", "failed"}
        /\ client' = "ok" => result' = answer /\ answer \in Accepted
        /\ client' = "failed" => result' = None /\ answer.status = "error"
        /\ UNCHANGED <<server, request, answer, up, down, cut, late>>
    <3>1. [answer EXCEPT !.size = answer.size] = answer
      BY <2>1 DEF Answer
    <3> QED
      BY <1>1, <1>2, <2>1, <3>1 DEF ClientRead, Accepted, Answer
  <2>3. answer # None
    BY <1>2 DEF ClientRead
  <2> QED
    BY <1>1, <2>2, <2>3
       DEF WireInv, WireTypeOK, BytesInOrder, PlacesAgree, WholeRequestHandled,
           ClosedForCause, FailedForCause, ClientPC, ClientClosed
<1>3. CASE ClientReadFails
  <2>1. late \/ cut \/ request > MaxPayloadSize \/ (answer # None /\ answer.size > MaxPayloadSize)
    <3>1. /\ down.arrived \in Nat /\ down.sent \in Nat /\ down.arrived <= down.sent
          /\ answer \in Answer \cup {None}
      BY DEF WireInv, WireTypeOK, Stream, BytesInOrder
    <3>2. CASE answer = None
      <4>1. ~TooLarge(AnswerSize)
        BY <3>2, LengthModulusAssumption, MaxPayloadSizeAssumption
           DEF TooLarge, AnswerSize, LengthField
      <4>2. cut \/ ServerClosed
        BY <1>3, <4>1 DEF ClientReadFails, ReadError
      <4> QED
        BY <1>1, <3>2, <4>2 DEF WireInv, ClosedForCause, ServerClosed, ClientClosed
    <3>3. CASE answer # None
      <4>1. /\ AnswerSize = answer.size /\ answer \in Answer
            /\ LengthField(answer.size) = answer.size /\ answer.size \in Nat
        BY <3>1, <3>3, AnswerLength DEF AnswerSize
      <4>2. CASE HeaderRead(down) /\ TooLarge(answer.size)
        BY <3>3, <4>1, <4>2 DEF TooLarge
      <4>3. CASE cut
        BY <4>3
      <4>4. CASE ServerClosed /\ down.arrived = down.sent /\ ~ReadFull(down, answer.size)
        <5>1. down.sent # MessageLength(answer.size)
          BY <3>1, <4>1, <4>4, HeaderSizeAssumption DEF ReadFull, MessageLength
        <5> QED
          BY <1>1, <4>4, <5>1 DEF WireInv, ClosedForCause, ServerClosed, ClientClosed
      <4> QED
        BY <1>3, <4>1, <4>2, <4>3, <4>4 DEF ClientReadFails, ReadError
    <3> QED
      BY <3>2, <3>3
  <2> QED
    BY <1>1, <1>3, <2>1
       DEF ClientReadFails, ClientFails, WireInv, WireTypeOK, BytesInOrder, PlacesAgree,
           WholeRequestHandled, ClosedForCause, FailedForCause, ClientPC, ClientClosed
<1> QED
  BY <1>2, <1>3

\* The listener takes the connection and reads the request, or gives it up for
\* cause.
LEMMA ServerReadInv ==
    ASSUME WireInv, Accept \/ ServerRead \/ ServerReadFails
    PROVE  WireInv'
<1>1. /\ server \in {"queued", "read"} /\ request \in Size /\ request \in Nat
      /\ LengthField(request) = request /\ answer = None
      /\ up.arrived \in Nat /\ up.sent \in Nat /\ HeaderSize \in Nat
      /\ up.arrived <= up.sent /\ up.sent <= MessageLength(request)
  <2>1. server \in {"queued", "read"}
    BY DEF Accept, ServerRead, ServerReadFails
  <2>2. request \in Size
    BY <2>1 DEF WireInv, WireTypeOK, PlacesAgree
  <2> QED
    BY <2>1, <2>2, LengthIsExact, HeaderSizeAssumption, NoneAssumption
       DEF WireInv, WireTypeOK, Stream, BytesInOrder, PlacesAgree
<1>2. CASE Accept
  BY <1>1, <1>2
     DEF Accept, ServerGoes, WireInv, WireTypeOK, BytesInOrder, PlacesAgree,
         WholeRequestHandled, ClosedForCause, FailedForCause, ServerPC, ClientClosed
<1>3. CASE ServerRead
  <2>1. up.arrived = MessageLength(request) /\ request <= MaxPayloadSize
    BY <1>1, <1>3, MaxPayloadSizeAssumption
       DEF ServerRead, Readable, ReadFull, TooLarge, MessageLength
  <2> QED
    BY <1>1, <1>3, <2>1
       DEF ServerRead, ServerGoes, WireInv, WireTypeOK, BytesInOrder, PlacesAgree,
           WholeRequestHandled, ClosedForCause, FailedForCause, ServerPC, ClientClosed
<1>4. CASE ServerReadFails
  <2>1. request > MaxPayloadSize \/ cut \/ ClientClosed
    BY <1>1, <1>4 DEF ServerReadFails, ReadError, TooLarge
  <2> QED
    BY <1>1, <1>4, <2>1
       DEF ServerReadFails, ServerGoes, WireInv, WireTypeOK, BytesInOrder, PlacesAgree,
           WholeRequestHandled, ClosedForCause, FailedForCause, ServerPC, ClientClosed
<1> QED
  BY <1>2, <1>3, <1>4

\* The handler answers, and the answer is written as far as the caller waits
\* for it.
LEMMA ServerWriteInv ==
    ASSUME WireInv, (\E a \in Answer : Handle(a)) \/ ServerWrite \/ ServerWriteFails
    PROVE  WireInv'
<1>1. server \in {"handle", "write"} /\ request \in Size
  BY DEF Handle, ServerWrite, ServerWriteFails, WireInv, WireTypeOK, PlacesAgree
<1>2. ASSUME NEW a \in Answer, Handle(a)
      PROVE  WireInv'
  <2>1. /\ a # None /\ a.size \in Nat /\ answer = None /\ down.sent = 0
        /\ answer' = a /\ server = "handle" /\ server' = "write"
        /\ UNCHANGED <<client, request, result, up, down, cut, late>>
    BY <1>2, NoneAssumption, AnswerLength DEF Handle, WireInv, PlacesAgree, BytesInOrder
  <2>2. 0 < MessageLength(a.size)
    BY <2>1, HeaderSizeAssumption DEF MessageLength
  <2>3. WireTypeOK'
    BY <2>1 DEF WireInv, WireTypeOK, ServerPC
  <2>4. BytesInOrder' /\ PlacesAgree'
    BY <1>1, <2>1, <2>2, HeaderSizeAssumption DEF WireInv, BytesInOrder, PlacesAgree, MessageLength
  <2>5. WholeRequestHandled' /\ ClosedForCause' /\ FailedForCause'
    BY <2>1 DEF WireInv, WholeRequestHandled, ClosedForCause, FailedForCause
  <2> QED
    BY <2>3, <2>4, <2>5 DEF WireInv
<1>3. CASE ServerWrite
  <2>1. /\ answer \in Answer /\ answer # None /\ answer.size \in Nat
        /\ down \in Stream /\ down.sent \in Nat /\ down.arrived \in Nat
        /\ down.arrived <= down.sent /\ down.sent < MessageLength(answer.size)
    BY <1>3, AnswerLength
       DEF ServerWrite, WireInv, WireTypeOK, Stream, BytesInOrder, PlacesAgree
  <2>2. /\ down' \in Stream /\ down'.sent = down.sent + 1 /\ down'.arrived = down.arrived
        /\ server' = IF down.sent + 1 = MessageLength(answer.size) THEN "closed" ELSE "write"
        /\ UNCHANGED <<client, request, answer, result, up, cut, late>>
    BY <1>3, <2>1 DEF ServerWrite, SendByte, Sent, Stream
  <2>3. MessageLength(answer.size) \in Nat
    BY <2>1, HeaderSizeAssumption DEF MessageLength
  <2>4. WireTypeOK'
    BY <2>2 DEF WireInv, WireTypeOK, ServerPC
  <2>5. BytesInOrder' /\ PlacesAgree'
    BY <1>1, <1>3, <2>1, <2>2, <2>3
       DEF ServerWrite, WireInv, BytesInOrder, PlacesAgree
  <2>6. WholeRequestHandled' /\ ClosedForCause' /\ FailedForCause'
    BY <1>3, <2>1, <2>2
       DEF ServerWrite, WireInv, WholeRequestHandled, ClosedForCause, FailedForCause
  <2> QED
    BY <2>4, <2>5, <2>6 DEF WireInv
<1>4. CASE ServerWriteFails
  BY <1>1, <1>4
     DEF ServerWriteFails, ServerGoes, WireInv, WireTypeOK, BytesInOrder, PlacesAgree,
         WholeRequestHandled, ClosedForCause, FailedForCause, ServerPC, ClientClosed
<1> QED
  BY <1>2, <1>3, <1>4

\* The network delivers a byte or breaks the connection.
LEMMA NetworkInv ==
    ASSUME WireInv, Deliver \/ Break
    PROVE  WireInv'
<1>1. CASE Break
  BY <1>1
     DEF Break, WireInv, WireTypeOK, BytesInOrder, PlacesAgree, WholeRequestHandled,
         ClosedForCause, FailedForCause, ClientClosed
<1>2. ASSUME NEW s \in Stream, InFlight(s)
      PROVE  /\ Arrive(s) \in Stream /\ Arrive(s).sent = s.sent
             /\ Arrive(s).arrived <= s.sent /\ s.arrived < s.sent
  BY <1>2 DEF Stream, InFlight, Arrive
<1>3. CASE Deliver
  <2>1. up \in Stream /\ down \in Stream /\ UNCHANGED <<client, server, request, answer, result, cut, late>>
    BY <1>3 DEF WireInv, WireTypeOK, Deliver
  <2>2. CASE InFlight(up) /\ up' = Arrive(up) /\ UNCHANGED down
    <3>1. /\ up' \in Stream /\ up'.sent = up.sent /\ up'.arrived <= up.sent
          /\ up.arrived < up.sent
      BY <1>2, <2>1, <2>2
    \* A request that has been handled has arrived whole.
    <3>2. ~(server = "handle" \/ answer # None)
      <4>1. ASSUME server = "handle" \/ answer # None
            PROVE  request \in Size /\ up.sent <= MessageLength(request)
        BY <4>1 DEF WireInv, WireTypeOK, PlacesAgree, WholeRequestHandled, BytesInOrder
      <4> QED
        BY <2>1, <3>1, <4>1, LengthIsExact, HeaderSizeAssumption
           DEF WireInv, WholeRequestHandled, Stream, MessageLength
    <3> QED
      BY <2>1, <2>2, <3>1, <3>2
         DEF WireInv, WireTypeOK, BytesInOrder, PlacesAgree, WholeRequestHandled,
             ClosedForCause, FailedForCause, ClientClosed
  <2>3. CASE InFlight(down) /\ down' = Arrive(down) /\ UNCHANGED up
    <3>1. down' \in Stream /\ down'.sent = down.sent /\ down'.arrived <= down.sent
      BY <1>2, <2>1, <2>3
    <3> QED
      BY <2>1, <2>3, <3>1
         DEF WireInv, WireTypeOK, BytesInOrder, PlacesAgree, WholeRequestHandled,
             ClosedForCause, FailedForCause, ClientClosed
  <2> QED
    BY <1>3, <2>2, <2>3 DEF Deliver
<1> QED
  BY <1>1, <1>3

-----------------------------------------------------------------------------
\* Every step of the two ends and of the network preserves WireInv.
LEMMA WireNextInv ==
    ASSUME WireInv, [WireNext]_wireVars
    PROVE  WireInv'
<1>1. CASE WireNext
  BY <1>1, CallBeginInv, ClientWriteInv, ClientReadInv, ServerReadInv, ServerWriteInv,
     NetworkInv DEF WireNext, Client, Server
<1>2. CASE UNCHANGED wireVars
  BY <1>2
     DEF wireVars, WireInv, WireTypeOK, BytesInOrder, PlacesAgree, WholeRequestHandled,
         ClosedForCause, FailedForCause, ClientClosed
<1> QED
  BY <1>1, <1>2

\* WireInv holds at every byte of a call, wherever it breaks.
THEOREM WireInvHolds == WireSpec => []WireInv
  BY WireInitInv, WireNextInv, PTL DEF WireSpec

\* A call fails only for the deadline, a broken connection, a payload over the
\* limit or an error of the handler.
THEOREM CallsFailForCause == WireSpec => []FailedForCause
<1>1. WireInv => FailedForCause
  BY DEF WireInv
<1> QED
  BY <1>1, WireInvHolds, PTL

-----------------------------------------------------------------------------
(***************************************************************************)
(* The bytes on the wire implement RemoteCall.                             *)
(***************************************************************************)
\* What Wire substitutes for phase.
Phase == CASE client = "idle" -> "idle"
           [] client \in {"ok", "failed"} -> client
           [] OTHER -> "open"

\* Every step on the wire is a step of the call, or none: the request begins
\* it, the handler executes it, and the caller's last step ends it.
LEMMA WireStepSimulates ==
    ASSUME WireInv, WireInv', [WireNext]_wireVars
    PROVE  [Call!CallNext]_(Call!callVars)
<1> USE DEF Phase
<1> DEFINE Stutter == Phase' = Phase /\ answer' = answer /\ result' = result
<1>1. Stutter => UNCHANGED Call!callVars
  BY DEF Call!callVars
<1>2. CASE UNCHANGED wireVars
  <2>1. Stutter
    BY <1>2 DEF wireVars
  <2> QED
    BY <1>1, <2>1
<1>3. ASSUME NEW size \in Size, CallBegin(size)
      PROVE  Call!Begin
  BY <1>3 DEF CallBegin, Call!Begin
<1>4. CASE \/ Dial \/ ClientWrite \/ Accept \/ ServerRead \/ ServerReadFails \/ ServerWrite
           \/ ServerWriteFails \/ Deliver \/ Break
  <2>1. Stutter
    BY <1>4 DEF Dial, ClientWrite, Accept, ServerRead, ServerReadFails, ServerWrite,
                ServerWriteFails, ServerGoes, Deliver, Break
  <2> QED
    BY <1>1, <2>1
<1>5. CASE DialFails \/ ClientWriteFails \/ ClientReadFails \/ Deadline
  <2>1. Call!GiveUp
    BY <1>5 DEF DialFails, ClientWriteFails, ClientReadFails, Deadline, ClientFails,
                Call!GiveUp
  <2> QED
    BY <2>1 DEF Call!CallNext
<1>6. CASE ClientRead
  <2>1. client = "read" /\ answer \in Answer /\ UNCHANGED answer /\ result = None
    BY <1>6 DEF ClientRead, WireInv, WireTypeOK, PlacesAgree
  <2>2. CASE answer.status = "ok"
    <3>1. PayloadOf(down) = answer.size
      BY <1>6, PayloadIsWhole DEF ClientRead
    <3>2. client' = "ok" /\ result' = answer
      BY <1>6, <2>1, <2>2, <3>1 DEF ClientRead, Answer
    <3>3. Call!Return
      BY <2>1, <2>2, <3>2 DEF Call!Return, Accepted
    <3> QED
      BY <3>3 DEF Call!CallNext
  <2>3. CASE answer.status # "ok"
    <3>1. Call!GiveUp
      BY <1>6, <2>1, <2>3 DEF ClientRead, Call!GiveUp
    <3> QED
      BY <3>1 DEF Call!CallNext
  <2> QED
    BY <2>2, <2>3
<1>7. ASSUME NEW a \in Answer, Handle(a)
      PROVE  Call!Execute
  <2>1. answer = None /\ client # "idle"
    BY <1>7 DEF Handle, WireInv, PlacesAgree
  <2>2. client \in ClientPC
    BY DEF WireInv, WireTypeOK
  <2>3. answer' \in Answer /\ UNCHANGED <<client, result>>
    BY <1>7 DEF Handle
  <2> QED
    BY <2>1, <2>2, <2>3 DEF Call!Execute, ClientPC
<1> QED
  BY <1>2, <1>3, <1>4, <1>5, <1>6, <1>7 DEF WireNext, Client, Server, Call!CallNext

\* The transport keeps the promise of RemoteCall at every byte: the handler runs
\* at most once, a success returns its whole answer, everything else fails.
THEOREM WireImplementsCall == WireSpec => CallImplemented
<1>1. WireInit => Call!CallInit
  BY DEF WireInit, Call!CallInit
<1>2. WireInv /\ WireInv' /\ [WireNext]_wireVars => [Call!CallNext]_(Call!callVars)
  BY WireStepSimulates
<1> QED
  BY <1>1, <1>2, WireInvHolds, PTL DEF WireSpec, CallImplemented, Call!CallSpec

-----------------------------------------------------------------------------
(***************************************************************************)
(* A connection comes to rest.                                             *)
(***************************************************************************)

\* The two sides move forward only, and one of them does unless the step is the
\* network's or hands over a byte.
LEMMA StagesAdvance ==
    ASSUME WireInv, WireNext
    PROVE  /\ ClientStage(client) \in Nat /\ ClientStage(client') \in Nat
           /\ ServerStage(server) \in Nat /\ ServerStage(server') \in Nat
           /\ ClientStage(client) <= ClientStage(client')
           /\ ServerStage(server) <= ServerStage(server')
           /\ \/ ClientStage(client) < ClientStage(client')
              \/ ServerStage(server) < ServerStage(server')
              \/ ClientWrite \/ ServerWrite \/ Deliver \/ Break
<1>1. /\ client = "idle" => server = "none"
      /\ client = "dial" => server = "none"
  BY DEF WireInv, PlacesAgree
<1>2. CASE (\E size \in Size : CallBegin(size)) \/ Client \/ Deadline
  <2>1. \/ client = "idle" /\ client' = "dial" /\ server' = server
        \/ client = "dial" /\ client' = "send" /\ server' = "queued"
        \/ client \in {"dial", "send", "read"} /\ client' \in {"ok", "failed"}
                /\ server' = server
        \/ ClientWrite /\ client = "send" /\ client' \in {"send", "read"}
                /\ server' = server
    BY <1>2 DEF CallBegin, Client, Dial, DialFails, ClientWrite, ClientWriteFails,
                ClientRead, ClientReadFails, ClientFails, Deadline
  <2> QED
    BY <1>1, <2>1 DEF ClientStage, ServerStage
<1>3. CASE Server
  <2>1. /\ client' = client
        /\ \/ server = "queued" /\ server' = "read"
           \/ server = "read" /\ server' \in {"handle", "closed"}
           \/ server = "handle" /\ server' = "write"
           \/ server = "write" /\ server' = "closed"
           \/ ServerWrite /\ server = "write" /\ server' = "write"
    BY <1>3 DEF Server, Accept, ServerRead, ServerReadFails, Handle, ServerWrite,
                ServerWriteFails, ServerGoes
  <2> QED
    BY <2>1 DEF ClientStage, ServerStage
<1>4. CASE Deliver \/ Break
  <2>1. client' = client /\ server' = server
    BY <1>4 DEF Deliver, Break
  <2> QED
    BY <1>4, <2>1 DEF ClientStage, ServerStage
<1> QED
  BY <1>2, <1>3, <1>4 DEF WireNext

\* No byte is taken back, and no connection mended.
LEMMA BytesAdvance ==
    ASSUME WireInv, WireNext
    PROVE  /\ up \in Stream /\ up' \in Stream /\ down \in Stream /\ down' \in Stream
           /\ up.sent <= up'.sent /\ up.arrived <= up'.arrived
           /\ down.sent <= down'.sent /\ down.arrived <= down'.arrived
           /\ cut => cut'
           /\ ClientWrite => up.sent < up'.sent
           /\ ServerWrite => down.sent < down'.sent
           /\ Deliver => up.arrived < up'.arrived \/ down.arrived < down'.arrived
           /\ Break => ~cut /\ cut'
<1>1. /\ up \in Stream /\ down \in Stream
      /\ up' \in Stream /\ down' \in Stream
  BY WireNextInv DEF WireInv, WireTypeOK
<1>2. \A s \in Stream : /\ s.sent < SendByte(s).sent
                        /\ s.arrived = SendByte(s).arrived
                        /\ s.sent = Arrive(s).sent
                        /\ s.arrived < Arrive(s).arrived
  BY DEF Stream, SendByte, Arrive
<1>3. /\ ClientWrite => up' = SendByte(up)
      /\ ServerWrite => down' = SendByte(down)
      /\ Deliver => \/ up' = Arrive(up) /\ down' = down
                    \/ down' = Arrive(down) /\ up' = up
      /\ Break => ~cut /\ cut'
  BY DEF ClientWrite, ServerWrite, Deliver, Break
<1>4. /\ up' = up \/ ClientWrite \/ Deliver
      /\ down' = down \/ ServerWrite \/ Deliver
      /\ cut' = cut \/ Break
  BY DEF WireNext, CallBegin, Client, Dial, DialFails, ClientWrite, ClientWriteFails,
         ClientRead, ClientReadFails, ClientFails, Deadline, Server, Accept, ServerRead,
         ServerReadFails, Handle, ServerWrite, ServerWriteFails, ServerGoes, Deliver, Break
<1>5. ASSUME NEW s \in Stream, NEW t \in {s, SendByte(s), Arrive(s)}
      PROVE  s.sent <= t.sent /\ s.arrived <= t.arrived
  BY DEF Stream, SendByte, Arrive
<1>6. /\ up' \in {up, SendByte(up), Arrive(up)}
      /\ down' \in {down, SendByte(down), Arrive(down)}
  BY <1>3, <1>4
<1>7. /\ up.sent <= up'.sent /\ up.arrived <= up'.arrived
      /\ down.sent <= down'.sent /\ down.arrived <= down'.arrived
  BY <1>1, <1>5, <1>6
<1> QED
  BY <1>1, <1>2, <1>3, <1>4, <1>7

\* Nothing on a connection goes back, and each step brings something forward:
\* with the bound on the bytes (BytesInOrder), the measure behind CallEnds and
\* HandlerEnds.
THEOREM CallsAdvance == WireSpec => CallAdvances
<1> DEFINE Forward == /\ \E i \in DOMAIN Progress : Progress[i] < Progress'[i]
                      /\ \A i \in DOMAIN Progress : Progress[i] <= Progress'[i]
<1>1. ASSUME WireInv, WireNext
      PROVE  Forward
  <2>1. DOMAIN Progress = 1..7
    BY DEF Progress
  <2>2. /\ Progress[1] = ClientStage(client) /\ Progress'[1] = ClientStage(client')
        /\ Progress[2] = ServerStage(server) /\ Progress'[2] = ServerStage(server')
        /\ Progress[3] = up.sent /\ Progress'[3] = up'.sent
        /\ Progress[4] = up.arrived /\ Progress'[4] = up'.arrived
        /\ Progress[5] = down.sent /\ Progress'[5] = down'.sent
        /\ Progress[6] = down.arrived /\ Progress'[6] = down'.arrived
        /\ Progress[7] = IF cut THEN 1 ELSE 0
        /\ Progress'[7] = IF cut' THEN 1 ELSE 0
    BY DEF Progress, ClientStage, ServerStage
  <2>3. Progress[7] <= Progress'[7] /\ (Break => Progress[7] < Progress'[7])
    BY <1>1, <2>2, BytesAdvance
  <2>4. \A i \in 1..7 : Progress[i] <= Progress'[i]
    <3>1. /\ Progress[1] <= Progress'[1] /\ Progress[2] <= Progress'[2]
          /\ Progress[3] <= Progress'[3] /\ Progress[4] <= Progress'[4]
          /\ Progress[5] <= Progress'[5] /\ Progress[6] <= Progress'[6]
      BY <1>1, <2>2, BytesAdvance, StagesAdvance
    <3> QED
      BY <2>3, <3>1
  <2>5. \E i \in 1..7 : Progress[i] < Progress'[i]
    <3>1. \/ Progress[1] < Progress'[1] \/ Progress[2] < Progress'[2]
          \/ Progress[3] < Progress'[3] \/ Progress[4] < Progress'[4]
          \/ Progress[5] < Progress'[5] \/ Progress[6] < Progress'[6]
          \/ Progress[7] < Progress'[7]
      BY <1>1, <2>2, <2>3, BytesAdvance, StagesAdvance
    <3> QED
      BY <3>1
  <2> QED
    BY <2>1, <2>4, <2>5
<1>2. WireInv /\ [WireNext]_wireVars => Forward \/ UNCHANGED wireVars
  BY <1>1
<1>3. WireInv /\ [WireNext]_wireVars => [Forward]_wireVars
  BY <1>2
<1> QED
  BY <1>3, WireInvHolds, PTL DEF WireSpec, CallAdvances
=============================================================================
