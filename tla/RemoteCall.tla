----------------------------- MODULE RemoteCall -----------------------------
(***************************************************************************)
(* What a transport promises about one call to another node, without       *)
(* connections or bytes: the handler runs at most once, possibly after the *)
(* caller has given up; a call that succeeds returns exactly what the      *)
(* handler answered; and any call may fail.  Wire implements this module.  *)
(***************************************************************************)
CONSTANTS
    Answer,     \* what handlers may answer
    Accepted,   \* the answers that are not errors
    None

VARIABLES
    phase,      \* of the caller
    outcome,    \* what the handler answered
    result      \* what the caller was given

callVars == <<phase, outcome, result>>

CallInit == phase = "idle" /\ outcome = None /\ result = None

Begin == phase = "idle" /\ phase' = "open" /\ UNCHANGED <<outcome, result>>

Execute ==
    /\ phase # "idle"
    /\ outcome = None
    /\ outcome' \in Answer
    /\ UNCHANGED <<phase, result>>

Return ==
    /\ phase = "open"
    /\ outcome \in Accepted
    /\ phase' = "ok"
    /\ result' = outcome
    /\ UNCHANGED outcome

GiveUp == phase = "open" /\ phase' = "failed" /\ UNCHANGED <<outcome, result>>

CallNext == Begin \/ Execute \/ Return \/ GiveUp

CallSpec == CallInit /\ [][CallNext]_callVars
=============================================================================
