\* Two accounts for one name, two logins in one browser, two requests open
\* at a time, restarts that may lose an account.
CONSTANTS
    None = None
    User = {u1}
    Request = {r1, r2}
    Token = {t1, t2}
    Browser = {b1}
    Visit = {v1, v2}
    Duration = 1
    MaxTime = 2
SPECIFICATION FairSessionSpec
INVARIANTS
    SessionInv
    AcceptedWasLive
    RefusedForCause
    StatusNamesOwner
    LoggedOutIsNotShown
PROPERTIES
    ExpiredIsReaped
\* Time may have run out, with every session gone.
CHECK_DEADLOCK FALSE
