---------------------------- MODULE AccountBook -----------------------------
(***************************************************************************)
(* What the user store (auth/auth.go) promises those who authenticate      *)
(* against it at one node, without its file, its locks and its saves:      *)
(* while the process lives a name belongs to the request that registered   *)
(* it first, and a restart brings back some of the accounts registered     *)
(* earlier, here or at a node that shares the file, each under its own     *)
(* name.  UserStore implements this module, and Sessions is built on it.   *)
(***************************************************************************)
EXTENDS Naturals

CONSTANTS
    User,       \* user names
    Request,    \* registration requests; an account is the request that made it
    None

VARIABLES
    up,         \* the process runs
    users,      \* the account of each name
    granted     \* history: the name each request was given

bookVars == <<up, users, granted>>

Book == [User -> Request \cup {None}]
EmptyBook == [u \in User |-> None]

BookInit ==
    /\ up = FALSE
    /\ users = EmptyBook
    /\ granted = [r \in Request |-> None]

\* The process starts with what it finds of the accounts granted before.
Open ==
    /\ ~up
    /\ up' = TRUE
    /\ users' \in {book \in Book :
                     \A u \in User : book[u] # None => granted[book[u]] = u}
    /\ UNCHANGED granted

Grant(r, u) ==
    /\ up
    /\ granted[r] = None
    /\ users[u] = None
    /\ users' = [users EXCEPT ![u] = r]
    /\ granted' = [granted EXCEPT ![r] = u]
    /\ UNCHANGED up

\* Another node registers a name, which this one may find when it starts.
GrantElsewhere(r, u) ==
    /\ granted[r] = None
    /\ granted' = [granted EXCEPT ![r] = u]
    /\ UNCHANGED <<up, users>>

Close ==
    /\ up
    /\ up' = FALSE
    /\ users' = EmptyBook
    /\ UNCHANGED granted

BookNext ==
    \/ Open \/ Close
    \/ \E r \in Request, u \in User : Grant(r, u) \/ GrantElsewhere(r, u)

BookSpec == BookInit /\ [][BookNext]_bookVars
=============================================================================
