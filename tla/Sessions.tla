------------------------------ MODULE Sessions ------------------------------
(***************************************************************************)
(* The sessions of one node: the table of tokens with its reaper           *)
(* (auth/session.go), the middleware that asks it (auth/middleware.go),    *)
(* the handlers that log users in and out and report who is logged in      *)
(* (handler/auth_handler.go), and the name a node shows to other nodes,    *)
(* Peer.ActiveUser.  It is built on AccountBook, which the user store      *)
(* implements.                                                             *)
(*                                                                         *)
(* Each request runs in a goroutine of its own and gives up every lock     *)
(* before it takes the next; a visit is a request in one of the slots that *)
(* may be open at a time.  A browser sends the cookie it holds when the    *)
(* visit begins, and does what the answer says about it when the answer    *)
(* arrives; answers may overtake each other.                               *)
(*                                                                         *)
(* A definition introduced as a variant is not part of the model: it is    *)
(* the definition after it with one plausible fault, and stands in for it  *)
(* when a property is tested against that fault (README, "Variants").      *)
(***************************************************************************)
EXTENDS AccountBook

CONSTANTS
    Token,
    Browser,
    Visit,      \* requests that may be open at the same time
    Duration,   \* how long a session lasts
    MaxTime     \* bound of the clock

ASSUME DurationAssumption == Duration \in Nat
ASSUME MaxTimeAssumption == MaxTime \in Nat

VARIABLES
    now,         \* time.Now()
    sessions,    \* SessionManager.sessions
    activeUser,  \* Peer.ActiveUser: the account whose display name it is
    cookie,      \* session_token of each browser
    visit,       \* the progress of each visit
    issued,      \* history: whose login a token was made for, and its expiry
    ended,       \* history: tokens logged out, or left behind by a process
    shown        \* history: the login that set activeUser

sessionVars ==
    <<up, users, granted, now, sessions, activeUser, cookie, visit, issued, ended, shown>>

Session == [user : User, expires : Nat]
Issue == [account : Request, expires : Nat]

\* None stands for an absent token, session, account or browser.
ASSUME SessionNoneAssumption ==
    /\ None \notin Token /\ None \notin User /\ None \notin Request
    /\ None \notin Session /\ None \notin Issue

IdleVisit == [kind |-> "none", pc |-> "idle", browser |-> None, token |-> None,
              session |-> None, account |-> None, live |-> FALSE]
VisitPC == {"idle",
            "create", "show", "welcome",            \* login
            "lookup", "check", "drop", "accepted",  \* behind RequireAuth
            "refused", "user", "named",             \* status
            "destroy", "hide", "bye"}               \* logout

\* time.Now().After(session.ExpiresAt).  Variant: the last instant is cut off.
ExpiredEarly(s) == now >= s.expires
Expired(s) == now > s.expires

Live(t) == t # None /\ sessions[t] # None /\ ~Expired(sessions[t])

Goes(v, pc) == visit' = [visit EXCEPT ![v].pc = pc]

-----------------------------------------------------------------------------
SessionInit ==
    /\ BookInit
    /\ now = 0
    /\ sessions = [t \in Token |-> None]
    /\ activeUser = None
    /\ cookie = [b \in Browser |-> None]
    /\ visit = [v \in Visit |-> IdleVisit]
    /\ issued = [t \in Token |-> None]
    /\ ended = {}
    /\ shown = None

BookVarsKept == UNCHANGED <<up, users, granted>>

\* A user sends the name u and the password of account r, and AuthenticateUser
\* finds that they belong together.  (Otherwise nothing changes.)
LoginBegin(v, b, u, r) ==
    /\ up
    /\ visit[v].pc = "idle"
    /\ users[u] = r
    /\ visit' = [visit EXCEPT ![v] =
                   [IdleVisit EXCEPT !.kind = "login", !.pc = "create", !.browser = b,
                      !.session = [user |-> u, expires |-> 0], !.account = r]]
    /\ BookVarsKept
    /\ UNCHANGED <<now, sessions, activeUser, cookie, issued, ended, shown>>

\* CreateSession: a token nobody has had before.
CreateSession(v, t) ==
    /\ visit[v].pc = "create"
    /\ issued[t] = None
    /\ sessions' = [sessions EXCEPT ![t] =
                      [user |-> visit[v].session.user, expires |-> now + Duration]]
    /\ issued' = [issued EXCEPT ![t] =
                      [account |-> visit[v].account, expires |-> now + Duration]]
    /\ visit' = [visit EXCEPT ![v].pc = "show", ![v].token = t, ![v].session = None]
    /\ BookVarsKept
    /\ UNCHANGED <<now, activeUser, cookie, ended, shown>>

\* The rest of AuthLoginHandler: the name is set under Peer.Mu, and the answer
\* with the cookie is sent.
ShowUser(v) ==
    /\ visit[v].pc = "show"
    /\ activeUser' = visit[v].account
    /\ shown' = visit[v].token
    /\ Goes(v, "welcome")
    /\ BookVarsKept
    /\ UNCHANGED <<now, sessions, cookie, issued, ended>>

\* A visit to a page behind RequireAuth, or to AuthStatusHandler.  Without a
\* cookie it is refused at once.
PageBegin(v, b, kind) ==
    /\ up
    /\ visit[v].pc = "idle"
    /\ visit' = [visit EXCEPT ![v] =
                   [IdleVisit EXCEPT !.kind = kind, !.browser = b, !.token = cookie[b],
                      !.pc = IF cookie[b] = None THEN "refused" ELSE "lookup",
                      !.live = Live(cookie[b])]]
    /\ BookVarsKept
    /\ UNCHANGED <<now, sessions, activeUser, cookie, issued, ended, shown>>

\* ValidateSession, first part: the look-up under the read lock.
Lookup(v) ==
    /\ visit[v].pc = "lookup"
    /\ LET s == sessions[visit[v].token] IN
       visit' = [visit EXCEPT ![v].pc = IF s = None THEN "refused" ELSE "check",
                              ![v].session = s]
    /\ BookVarsKept
    /\ UNCHANGED <<now, sessions, activeUser, cookie, issued, ended, shown>>

\* Where a visit goes once its session was found in time.
Served(v) == IF visit[v].kind = "status" THEN "user" ELSE "accepted"

\* Variant: a session that is still in the table is valid.
CheckNothing(v) ==
    /\ visit[v].pc = "check"
    /\ Goes(v, Served(v))
    /\ BookVarsKept
    /\ UNCHANGED <<now, sessions, activeUser, cookie, issued, ended, shown>>

\* Second part, without a lock: the expiry.
CheckExpiry(v) ==
    /\ visit[v].pc = "check"
    /\ Goes(v, IF Expired(visit[v].session) THEN "drop" ELSE Served(v))
    /\ BookVarsKept
    /\ UNCHANGED <<now, sessions, activeUser, cookie, issued, ended, shown>>

Delete(t) == sessions' = [sessions EXCEPT ![t] = None]

\* ... and DestroySession of the one that expired.
DropExpired(v) ==
    /\ visit[v].pc = "drop"
    /\ Delete(visit[v].token)
    /\ Goes(v, "refused")
    /\ BookVarsKept
    /\ UNCHANGED <<now, activeUser, cookie, issued, ended, shown>>

\* AuthStatusHandler: GetUser of the session's name.
GetUser(v) ==
    /\ visit[v].pc = "user"
    /\ visit' = [visit EXCEPT ![v].pc = "named",
                              ![v].account = users[visit[v].session.user]]
    /\ BookVarsKept
    /\ UNCHANGED <<now, sessions, activeUser, cookie, issued, ended, shown>>

\* AuthLogoutHandler.  Without a cookie it only answers.
LogoutBegin(v, b) ==
    /\ up
    /\ visit[v].pc = "idle"
    /\ visit' = [visit EXCEPT ![v] =
                   [IdleVisit EXCEPT !.kind = "logout", !.browser = b, !.token = cookie[b],
                      !.pc = IF cookie[b] = None THEN "bye" ELSE "destroy"]]
    /\ BookVarsKept
    /\ UNCHANGED <<now, sessions, activeUser, cookie, issued, ended, shown>>

\* Variant: the session goes and the name stays.
DestroySessionOnly(v) ==
    /\ visit[v].pc = "destroy"
    /\ Delete(visit[v].token)
    /\ ended' = ended \cup {visit[v].token}
    /\ Goes(v, "bye")
    /\ BookVarsKept
    /\ UNCHANGED <<now, activeUser, cookie, issued, shown>>

\* DestroySession, under the write lock ...
DestroySession(v) ==
    /\ visit[v].pc = "destroy"
    /\ Delete(visit[v].token)
    /\ ended' = ended \cup {visit[v].token}
    /\ Goes(v, "hide")
    /\ BookVarsKept
    /\ UNCHANGED <<now, activeUser, cookie, issued, shown>>

\* ... and then the name, whoever's it is, under Peer.Mu.
HideUser(v) ==
    /\ visit[v].pc = "hide"
    /\ activeUser' = None
    /\ shown' = None
    /\ Goes(v, "bye")
    /\ BookVarsKept
    /\ UNCHANGED <<now, sessions, cookie, issued, ended>>

\* What the Set-Cookie header of an answer makes of the cookie c.
SetCookie(w, c) ==
    CASE w.pc = "welcome" -> w.token
      [] w.pc = "bye" -> None
      [] w.pc = "refused" /\ w.kind = "page" /\ w.token # None -> None
      [] OTHER -> c

\* The answer reaches the browser.
Arrive(v) ==
    /\ visit[v].pc \in {"welcome", "bye", "refused", "accepted", "named"}
    /\ cookie' = [cookie EXCEPT ![visit[v].browser] = SetCookie(visit[v], @)]
    /\ visit' = [visit EXCEPT ![v] = IdleVisit]
    /\ BookVarsKept
    /\ UNCHANGED <<now, sessions, activeUser, issued, ended, shown>>

\* Variant: the comparison of the reaper is the wrong way round.
NotOverdue(t) == sessions[t] # None /\ ~Expired(sessions[t])
Overdue(t) == sessions[t] # None /\ Expired(sessions[t])

\* One tick of reapExpiredSessions, under the write lock.
Reap ==
    /\ up
    /\ \E t \in Token : Overdue(t)
    /\ sessions' = [t \in Token |-> IF Overdue(t) THEN None ELSE sessions[t]]
    /\ BookVarsKept
    /\ UNCHANGED <<now, activeUser, cookie, visit, issued, ended, shown>>

Tick ==
    /\ now < MaxTime
    /\ now' = now + 1
    /\ BookVarsKept
    /\ UNCHANGED <<sessions, activeUser, cookie, visit, issued, ended, shown>>

\* Answers that were sent may still arrive; the other requests are cut off.
Cut(w) == IF w.pc \in {"welcome", "bye", "refused", "accepted", "named"}
          THEN w ELSE IdleVisit

IssuedTokens == {t \in Token : issued[t] # None}

\* Variant: sessions survive in a file, as accounts do.
SessionsKept(table) == table

\* Sessions live in memory only.
SessionsLost(table) == [t \in Token |-> None]

\* The end of the process.
EndProcess ==
    /\ Close
    /\ sessions' = SessionsLost(sessions)
    /\ activeUser' = None
    /\ visit' = [v \in Visit |-> Cut(visit[v])]
    /\ ended' = ended \cup IssuedTokens
    /\ shown' = None
    /\ UNCHANGED <<now, cookie, issued>>

VisitStep(v) ==
    \/ \E t \in Token : CreateSession(v, t)
    \/ ShowUser(v)
    \/ Lookup(v) \/ CheckExpiry(v) \/ DropExpired(v) \/ GetUser(v)
    \/ DestroySession(v) \/ HideUser(v)
    \/ Arrive(v)

BookStep ==
    /\ \/ Open
       \/ \E r \in Request, u \in User : Grant(r, u) \/ GrantElsewhere(r, u)
    /\ UNCHANGED <<now, sessions, activeUser, cookie, visit, issued, ended, shown>>

SessionNext ==
    \/ BookStep \/ EndProcess \/ Tick \/ Reap
    \/ \E v \in Visit, b \in Browser :
          \/ \E u \in User, r \in Request : LoginBegin(v, b, u, r)
          \/ \E kind \in {"page", "status"} : PageBegin(v, b, kind)
          \/ LogoutBegin(v, b)
    \/ \E v \in Visit : VisitStep(v)

SessionSpec == SessionInit /\ [][SessionNext]_sessionVars

\* The reaper's ticker fires as long as the process lives.
FairSessionSpec == SessionSpec /\ WF_sessionVars(Reap)
-----------------------------------------------------------------------------
(***************************************************************************)
(* Properties.                                                             *)
(***************************************************************************)
SessionTypeOK ==
    /\ up \in BOOLEAN
    /\ users \in Book
    /\ granted \in [Request -> User \cup {None}]
    /\ now \in 0 .. MaxTime
    /\ sessions \in [Token -> Session \cup {None}]
    /\ activeUser \in Request \cup {None}
    /\ cookie \in [Browser -> Token \cup {None}]
    /\ visit \in [Visit -> [kind : {"none", "login", "page", "status", "logout"},
                            pc : VisitPC,
                            browser : Browser \cup {None},
                            token : Token \cup {None},
                            session : Session \cup {None},
                            account : Request \cup {None},
                            live : BOOLEAN]]
    /\ issued \in [Token -> Issue \cup {None}]
    /\ ended \in SUBSET Token
    /\ shown \in Token \cup {None}

\* The session is read under the lock and its expiry checked after it, while
\* logouts, the reaper and the end of the process delete sessions
\* (session.go:80).  Still, a visit is served only if its session was valid at
\* some time after the visit began; in particular none is served that began
\* after the session had been logged out, had expired, or had died with its
\* process.
AcceptedWasLive ==
    \A v \in Visit : visit[v].pc \in {"user", "named", "accepted"} => visit[v].live

\* Why a token that was issued is no longer good.
Cause(t) == t \in ended \/ now > issued[t].expires

\* A browser that holds a token is refused only when the session was logged
\* out, outlived its expiry, or ended with its process: neither the reaper nor
\* a visit that finds another session expired takes away one that is valid
\* (session.go:88, session.go:121).
RefusedForCause ==
    \A v \in Visit :
        visit[v].pc = "refused" /\ visit[v].token # None => Cause(visit[v].token)

\* The account a status visit reports is the one whose password obtained the
\* token, although restarts may lose accounts and give their names away
\* (auth_handler.go:191: the session keeps the name, the store is asked for
\* it later).
StatusNamesOwner ==
    \A v \in Visit : visit[v].pc = "named" =>
        visit[v].account = issued[visit[v].token].account

\* Peer.ActiveUser is set before the answer that carries the cookie is sent
\* (auth_handler.go:67), so a logout with that cookie always comes later: once
\* it has been answered, no late step of the login brings the name back.
LoggedOutIsNotShown ==
    shown \in ended =>
        \E v \in Visit : visit[v].pc = "hide" /\ visit[v].token = shown

\* An expired session does not stay in the table, whether or not anybody asks
\* for it again (session.go:111).
ExpiredIsReaped ==
    \A t \in Token : Overdue(t) ~> (sessions[t] = None)

-----------------------------------------------------------------------------
(***************************************************************************)
(* What the invariants rest on.                                            *)
(***************************************************************************)

\* Only tokens that were issued are anywhere.
TokensIssued ==
    /\ \A t \in Token : issued[t] = None =>
          sessions[t] = None /\ t \notin ended /\ t # shown
    /\ \A b \in Browser : cookie[b] # None => issued[cookie[b]] # None
    /\ \A v \in Visit : visit[v].token # None => issued[visit[v].token] # None

\* The session s is the one the token t was issued for, and its name still
\* belongs to the account that logged in.
Owned(s, t) ==
    s.expires = issued[t].expires /\ users[s.user] = issued[t].account

SessionsOwned ==
    \A t \in Token : sessions[t] # None =>
        up /\ t \notin ended /\ Owned(sessions[t], t)

GoneForCause ==
    \A t \in Token : issued[t] # None /\ sessions[t] = None => Cause(t)

\* What a visit knows at each place.
VisitTraced(w) ==
    /\ w.pc \in {"create", "show", "lookup", "check", "drop", "user",
                 "destroy", "hide"} => up
    /\ w.pc \in {"show", "welcome", "lookup", "check", "drop", "user", "named",
                 "accepted", "destroy", "hide"} => w.token # None
    /\ w.pc = "create" =>
          w.session # None /\ w.account # None /\ users[w.session.user] = w.account
    /\ w.pc = "lookup" => (Live(w.token) => w.live)
    /\ w.pc = "check" =>
          /\ w.session # None
          /\ Owned(w.session, w.token)
          /\ Expired(w.session) \/ w.live
    /\ w.pc = "drop" => Cause(w.token)
    /\ w.pc = "user" => w.session # None /\ Owned(w.session, w.token)

VisitsTraced == \A v \in Visit : VisitTraced(visit[v])

\* Nobody else has the token of a login that has not been answered.
FreshTokens ==
    \A v \in Visit : visit[v].pc = "show" =>
        /\ visit[v].token \notin ended
        /\ \A b \in Browser : cookie[b] # visit[v].token
        /\ \A w \in Visit \ {v} : visit[w].token # visit[v].token

\* The inductive invariant of the proofs in SessionsProofs.
SessionInv ==
    /\ SessionTypeOK
    /\ TokensIssued
    /\ SessionsOwned
    /\ GoneForCause
    /\ VisitsTraced
    /\ FreshTokens
    /\ AcceptedWasLive
    /\ RefusedForCause
    /\ StatusNamesOwner
    /\ LoggedOutIsNotShown
=============================================================================
