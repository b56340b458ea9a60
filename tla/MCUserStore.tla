---------------------------- MODULE MCUserStore -----------------------------
(***************************************************************************)
(* Instances of UserStore for TLC.  Requests are interchangeable, and so   *)
(* are the names; each account makes the document one unit longer.         *)
(***************************************************************************)
EXTENDS UserStore, FiniteSets, TLC

MCDocumentLength ==
    [accounts \in Accounts |-> 1 + Cardinality({u \in User : accounts[u] # None})]

Interchangeable == Permutations(Request) \cup Permutations(User)
=============================================================================
