---------------------------- MODULE FileService -----------------------------
(***************************************************************************)
(* What the swarm promises its users, with no peers, chunks or messages:   *)
(* files are published under names, several versions may be published      *)
(* under one name, and a request for a name is either refused or answered, *)
(* once and for good, with one whole version published before the answer.  *)
(*                                                                         *)
(* The promise lapses (broken) when the data race on the map of shared     *)
(* files strikes; from then on a request may be answered with anything.    *)
(***************************************************************************)
CONSTANTS
    FileName,
    Version,   \* the contents users publish
    Request    \* identifiers of requests

VARIABLES
    versions,  \* the contents published under each name
    request,   \* where each request stands
    broken     \* the promise has lapsed

serviceVars == <<versions, request, broken>>

Idle == [status |-> "idle"]
Pending(n) == [status |-> "pending", name |-> n]
Answered(n, x) == [status |-> "answered", name |-> n, data |-> x]
Refused == [status |-> "refused"]

ServiceInit ==
    /\ versions = [n \in FileName |-> {}]
    /\ request = [r \in Request |-> Idle]
    /\ broken = FALSE

Publish(n, c) ==
    /\ versions' = [versions EXCEPT ![n] = @ \cup {c}]
    /\ UNCHANGED <<request, broken>>

Ask(r, n) ==
    /\ request[r] = Idle
    /\ request' = [request EXCEPT ![r] = Pending(n)]
    /\ UNCHANGED <<versions, broken>>

Answer(r) ==
    \E n \in FileName :
        /\ request[r] = Pending(n)
        /\ request'[r].status = "answered"
        /\ request' = [request EXCEPT ![r] = Answered(n, request'[r].data)]
        /\ broken \/ request'[r].data \in versions[n]
        /\ UNCHANGED <<versions, broken>>

\* A node that stops refuses every request it was working on.
Refuse(S) ==
    /\ \A r \in S : request[r] \in {Pending(n) : n \in FileName}
    /\ request' = [r \in Request |-> IF r \in S THEN Refused ELSE request[r]]
    /\ broken' \in {broken, TRUE}
    /\ UNCHANGED versions

ServiceNext ==
    \/ \E n \in FileName, c \in Version : Publish(n, c)
    \/ \E r \in Request, n \in FileName : Ask(r, n)
    \/ \E r \in Request : Answer(r)
    \/ \E S \in SUBSET Request : Refuse(S)

ServiceSpec == ServiceInit /\ [][ServiceNext]_serviceVars
=============================================================================
