--------------------------- MODULE SessionsProofs ---------------------------
(***************************************************************************)
(* SessionInv is an inductive invariant of Sessions: proofs for any number *)
(* of users, tokens, browsers and requests under way, any duration of      *)
(* sessions and any time.                                                  *)
(*                                                                         *)
(* VisitSafe says what holds of one request under way, as a predicate of   *)
(* the rest of the state, so that VisitStable can say once when it keeps   *)
(* holding: as long as time goes on, tokens are only issued and ended, and *)
(* sessions and accounts are only added or taken away whole.               *)
(***************************************************************************)
EXTENDS Sessions, TLAPS

VisitRecord ==
    [kind : {"none", "login", "page", "status", "logout"}, pc : VisitPC,
     browser : Browser \cup {None}, token : Token \cup {None},
     session : Session \cup {None}, account : Request \cup {None},
     live : BOOLEAN]

UpPC == {"create", "show", "lookup", "check", "drop", "user", "destroy", "hide"}
TokenPC == {"show", "welcome", "lookup", "check", "drop", "user", "named",
            "accepted", "destroy", "hide"}

\* Owned, Cause and VisitTraced of one visit, with the properties of one visit,
\* as predicates of the process, the accounts, the table of sessions, the
\* clock, and the tokens issued and ended.
OwnedIn(s, t, book, iss) ==
    s.expires = iss[t].expires /\ book[s.user] = iss[t].account

CauseIn(t, time, iss, gone) == t \in gone \/ time > iss[t].expires

VisitSafe(w, on, book, table, time, iss, gone) ==
    /\ w \in VisitRecord
    /\ w.token # None => iss[w.token] # None
    /\ w.pc \in UpPC => on
    /\ w.pc \in TokenPC => w.token # None
    /\ w.pc = "create" =>
          w.session # None /\ w.account # None /\ book[w.session.user] = w.account
    /\ w.pc = "lookup" =>
          (table[w.token] # None /\ ~(time > table[w.token].expires) => w.live)
    /\ w.pc = "check" =>
          /\ w.session # None
          /\ OwnedIn(w.session, w.token, book, iss)
          /\ (time > w.session.expires) \/ w.live
    /\ w.pc = "drop" => CauseIn(w.token, time, iss, gone)
    /\ w.pc = "user" => w.session # None /\ OwnedIn(w.session, w.token, book, iss)
    /\ w.pc \in {"user", "named", "accepted"} => w.live
    /\ w.pc = "refused" /\ w.token # None => CauseIn(w.token, time, iss, gone)
    /\ w.pc = "named" => w.account = iss[w.token].account

VisitsSafe ==
    \A v \in Visit : VisitSafe(visit[v], up, users, sessions, now, issued, ended)

TableTypes ==
    /\ up \in BOOLEAN
    /\ users \in Book
    /\ granted \in [Request -> User \cup {None}]
    /\ now \in 0 .. MaxTime
    /\ sessions \in [Token -> Session \cup {None}]
    /\ activeUser \in Request \cup {None}
    /\ cookie \in [Browser -> Token \cup {None}]
    /\ issued \in [Token -> Issue \cup {None}]
    /\ ended \in SUBSET Token
    /\ shown \in Token \cup {None}

\* What does not mention visits.
TableInv ==
    /\ TableTypes
    /\ \A t \in Token : issued[t] = None =>
          sessions[t] = None /\ t \notin ended /\ t # shown
    /\ \A b \in Browser : cookie[b] # None => issued[cookie[b]] # None
    /\ SessionsOwned
    /\ GoneForCause

Rest == FreshTokens /\ LoggedOutIsNotShown

\* SessionInv, one visit at a time.
LEMMA SessionInvSplit ==
    SessionInv <=> TableInv /\ visit \in [Visit -> VisitRecord] /\ VisitsSafe /\ Rest
<1>1. ASSUME NEW w \in VisitRecord
      PROVE  VisitSafe(w, up, users, sessions, now, issued, ended)
             <=> /\ w.token # None => issued[w.token] # None
                 /\ VisitTraced(w)
                 /\ w.pc \in {"user", "named", "accepted"} => w.live
                 /\ w.pc = "refused" /\ w.token # None => Cause(w.token)
                 /\ w.pc = "named" => w.account = issued[w.token].account
  BY DEF VisitSafe, VisitTraced, UpPC, TokenPC, OwnedIn, Owned, CauseIn, Cause,
         Live, Expired
<1>2. ASSUME visit \in [Visit -> VisitRecord], NEW v \in Visit
      PROVE  VisitSafe(visit[v], up, users, sessions, now, issued, ended)
             <=> /\ visit[v].token # None => issued[visit[v].token] # None
                 /\ VisitTraced(visit[v])
                 /\ visit[v].pc \in {"user", "named", "accepted"} => visit[v].live
                 /\ visit[v].pc = "refused" /\ visit[v].token # None
                       => Cause(visit[v].token)
                 /\ visit[v].pc = "named"
                       => visit[v].account = issued[visit[v].token].account
  <2>1. visit[v] \in VisitRecord
    BY <1>2
  <2> QED
    BY <1>1, <2>1
<1>3. SessionTypeOK <=> TableTypes /\ visit \in [Visit -> VisitRecord]
  BY DEF SessionTypeOK, TableTypes, VisitRecord
<1>4. ASSUME visit \in [Visit -> VisitRecord]
      PROVE  VisitsSafe
             <=> /\ \A v \in Visit : visit[v].token # None => issued[visit[v].token] # None
                 /\ VisitsTraced /\ AcceptedWasLive /\ RefusedForCause
                 /\ StatusNamesOwner
  BY <1>2, <1>4 DEF VisitsSafe, VisitsTraced, AcceptedWasLive, RefusedForCause,
                    StatusNamesOwner
<1> QED
  BY <1>3, <1>4 DEF SessionInv, TableInv, Rest, TokensIssued

\* What holds of a request under way keeps holding while its process lives:
\* accounts and issued tokens stay, and sessions are only removed whole.
LEMMA VisitStable ==
    ASSUME NEW w, NEW on1, NEW on2, NEW book1, NEW book2, NEW table1, NEW table2,
           NEW time1 \in Nat, NEW time2 \in Nat, NEW gone1, NEW gone2,
           NEW iss1 \in [Token -> Issue \cup {None}],
           NEW iss2 \in [Token -> Issue \cup {None}],
           table1 \in [Token -> Session \cup {None}],
           VisitSafe(w, on1, book1, table1, time1, iss1, gone1),
           on1 => on2,
           time1 <= time2,
           gone1 \subseteq gone2,
           \A u \in User : book1[u] \in Request => book2[u] = book1[u],
           \A t \in Token : iss1[t] # None =>
              iss2[t] = iss1[t] /\ table2[t] \in {table1[t], None}
    PROVE  VisitSafe(w, on2, book2, table2, time2, iss2, gone2)
<1>1. w \in VisitRecord /\ (w.token # None => w.token \in Token)
  BY DEF VisitSafe, VisitRecord
<1>2. w.token # None =>
        /\ iss1[w.token] \in Issue /\ iss2[w.token] = iss1[w.token]
        /\ table2[w.token] \in {table1[w.token], None}
        /\ iss1[w.token].expires \in Nat /\ iss1[w.token].account \in Request
        /\ table1[w.token] # None => table1[w.token].expires \in Nat
  BY <1>1 DEF VisitSafe, Issue, Session
<1>3. w.session # None => w.session.user \in User /\ w.session.expires \in Nat
  BY <1>1 DEF VisitRecord, Session
<1>4. w.account # None => w.account \in Request
  BY <1>1 DEF VisitRecord
<1>5. \A t : CauseIn(t, time1, iss1, gone1) /\ t = w.token /\ t # None
             => CauseIn(t, time2, iss2, gone2)
  BY <1>2 DEF CauseIn
<1>6. w.session # None /\ w.token # None /\ OwnedIn(w.session, w.token, book1, iss1)
      => OwnedIn(w.session, w.token, book2, iss2)
  BY <1>2, <1>3 DEF OwnedIn
<1>7. w.pc = "create" => book2[w.session.user] = w.account
  BY <1>3, <1>4 DEF VisitSafe
<1>8. w.pc = "lookup" =>
          (table2[w.token] # None /\ ~(time2 > table2[w.token].expires) => w.live)
  BY <1>2 DEF VisitSafe, TokenPC
<1>9. w.pc = "check" => (time2 > w.session.expires) \/ w.live
  BY <1>3 DEF VisitSafe
<1>10. w.pc = "named" => w.account = iss2[w.token].account
  BY <1>2 DEF VisitSafe, TokenPC
<1> QED
  BY <1>1, <1>2, <1>5, <1>6, <1>7, <1>8, <1>9, <1>10 DEF VisitSafe, TokenPC

Inv == TableInv /\ visit \in [Visit -> VisitRecord] /\ VisitsSafe /\ Rest

\* What every step but the end of the process does to the rest of the state.
Onward ==
    /\ up => up'
    /\ now <= now'
    /\ ended \subseteq ended'
    /\ \A u \in User : users[u] \in Request => users'[u] = users[u]
    /\ \A t \in Token : issued[t] # None =>
          issued'[t] = issued[t] /\ sessions'[t] \in {sessions[t], None}

\* A request that does not move stays safe.
LEMMA OthersSafe ==
    ASSUME Inv, TableTypes', Onward
    PROVE  \A v \in Visit :
              VisitSafe(visit[v], up', users', sessions', now', issued', ended')
<1>1. /\ now \in Nat /\ now' \in Nat
      /\ issued \in [Token -> Issue \cup {None}]
      /\ issued' \in [Token -> Issue \cup {None}]
      /\ sessions \in [Token -> Session \cup {None}]
  BY MaxTimeAssumption DEF Inv, TableInv, TableTypes
<1>2. TAKE v \in Visit
<1>3. VisitSafe(visit[v], up, users, sessions, now, issued, ended)
  BY DEF Inv, VisitsSafe
<1> QED
  BY <1>1, <1>3, VisitStable DEF Onward

\* A step of one visit: what it does to the table and to its own record
\* decides.
LEMMA OneVisitSafe ==
    ASSUME Inv, TableTypes', Onward, NEW v \in Visit,
           visit' = [visit EXCEPT ![v] = visit'[v]],
           VisitSafe(visit'[v], up', users', sessions', now', issued', ended')
    PROVE  visit' \in [Visit -> VisitRecord] /\ VisitsSafe'
<1>1. visit' \in [Visit -> VisitRecord]
  <2>1. visit'[v] \in VisitRecord
    BY DEF VisitSafe
  <2> QED
    BY <2>1 DEF Inv
<1>2. ASSUME NEW x \in Visit
      PROVE  VisitSafe(visit'[x], up', users', sessions', now', issued', ended')
  <2>1. CASE x = v
    BY <2>1
  <2>2. CASE x # v
    <3>1. visit'[x] = visit[x]
      BY <2>2 DEF Inv
    <3> QED
      BY <3>1, OthersSafe
  <2> QED
    BY <2>1, <2>2
<1> QED
  BY <1>1, <1>2 DEF VisitsSafe

\* All variables but visit.
TableVars == <<up, users, granted, now, sessions, activeUser, cookie, issued, ended, shown>>

\* A step that only moves a visit, such as a look-up, leaves the table alone.
LEMMA TableKept ==
    ASSUME Inv, UNCHANGED TableVars
    PROVE  TableInv' /\ TableTypes' /\ Onward
<1>1. TableInv' /\ TableTypes'
  BY DEF Inv, TableInv, TableVars, TableTypes, SessionsOwned, Owned, GoneForCause, Cause
<1>2. now \in Nat
  BY MaxTimeAssumption DEF Inv, TableInv, TableTypes
<1> QED
  BY <1>1, <1>2 DEF Onward, TableVars

\* A visit that only moves: it takes no token but its own or the browser's,
\* and is not in the middle of a login or a logout.
LEMMA VisitMoves ==
    ASSUME Inv, UNCHANGED TableVars, NEW v \in Visit,
           visit' = [visit EXCEPT ![v] = visit'[v]],
           VisitSafe(visit'[v], up, users, sessions, now, issued, ended),
           visit[v].pc # "hide",
           visit'[v].pc # "show",
           visit'[v].token \in {visit[v].token, None} \cup {cookie[b] : b \in Browser}
    PROVE  Inv'
<1>1. TableInv' /\ TableTypes' /\ Onward
  BY TableKept
<1>2. VisitSafe(visit'[v], up', users', sessions', now', issued', ended')
  BY DEF TableVars
<1>3. visit' \in [Visit -> VisitRecord] /\ VisitsSafe'
  BY <1>1, <1>2, OneVisitSafe
<1>4. \A x \in Visit \ {v} : visit'[x] = visit[x]
  BY DEF Inv
<1>5. FreshTokens'
  <2> SUFFICES ASSUME NEW x \in Visit, visit'[x].pc = "show"
               PROVE  /\ visit'[x].token \notin ended'
                      /\ \A b \in Browser : cookie'[b] # visit'[x].token
                      /\ \A y \in Visit \ {x} : visit'[y].token # visit'[x].token
    BY DEF FreshTokens
  <2>1. x # v /\ visit'[x] = visit[x]
    BY <1>4
  <2>2. /\ visit[x].token \notin ended
        /\ \A b \in Browser : cookie[b] # visit[x].token
        /\ \A y \in Visit \ {x} : visit[y].token # visit[x].token
    BY <2>1 DEF Inv, Rest, FreshTokens
  <2>3. visit[x].token # None
    BY <2>1 DEF Inv, VisitsSafe, VisitSafe, TokenPC
  <2> QED
    BY <1>4, <2>1, <2>2, <2>3 DEF TableVars
<1>6. LoggedOutIsNotShown'
  BY <1>4 DEF Inv, Rest, LoggedOutIsNotShown, TableVars
<1> QED
  BY <1>1, <1>3, <1>5, <1>6 DEF Inv, Rest

-----------------------------------------------------------------------------
(***************************************************************************)
(* The steps that only move a visit.                                       *)
(***************************************************************************)

\* What every request starts from.
LEMMA IdleVisitIsRecord == IdleVisit \in VisitRecord
  BY DEF IdleVisit, VisitRecord, VisitPC

\* What has to be known of a request at the place it has reached.
LEMMA SafeAt ==
    ASSUME NEW w \in VisitRecord, NEW on, NEW book, NEW table, NEW time, NEW iss,
           NEW gone, w.token # None => iss[w.token] # None,
           \/ w.pc \in {"idle", "bye"}
           \/ w.pc = "welcome" /\ w.token # None
           \/ w.pc \in {"show", "destroy", "hide"} /\ on /\ w.token # None
           \/ /\ w.pc = "create" /\ on /\ w.session # None /\ w.account # None
              /\ book[w.session.user] = w.account
           \/ /\ w.pc = "lookup" /\ on /\ w.token # None
              /\ table[w.token] # None /\ ~(time > table[w.token].expires) => w.live
           \/ /\ w.pc = "check" /\ on /\ w.token # None /\ w.session # None
              /\ OwnedIn(w.session, w.token, book, iss)
              /\ (time > w.session.expires) \/ w.live
           \/ w.pc = "drop" /\ on /\ w.token # None /\ CauseIn(w.token, time, iss, gone)
           \/ /\ w.pc = "user" /\ on /\ w.token # None /\ w.session # None /\ w.live
              /\ OwnedIn(w.session, w.token, book, iss)
           \/ w.pc = "accepted" /\ w.token # None /\ w.live
           \/ w.pc = "refused" /\ (w.token # None => CauseIn(w.token, time, iss, gone))
           \/ /\ w.pc = "named" /\ w.token # None /\ w.live
              /\ w.account = iss[w.token].account
    PROVE  VisitSafe(w, on, book, table, time, iss, gone)
  BY DEF VisitSafe, UpPC, TokenPC

\* AuthLoginHandler up to AuthenticateUser: the login holds a name and the
\* account it belongs to.
LEMMA LoginBeginInv ==
    ASSUME Inv, NEW v \in Visit, NEW b \in Browser, NEW u \in User,
           NEW r \in Request, LoginBegin(v, b, u, r)
    PROVE  Inv'
<1>1. UNCHANGED TableVars /\ visit \in [Visit -> VisitRecord]
  BY DEF Inv, LoginBegin, BookVarsKept, TableVars
<1>2. /\ visit' = [visit EXCEPT ![v] = visit'[v]]
      /\ visit'[v] = [kind |-> "login", pc |-> "create", browser |-> b, token |-> None,
                      session |-> [user |-> u, expires |-> 0], account |-> r,
                      live |-> FALSE]
  BY <1>1 DEF LoginBegin, IdleVisit
<1>3. visit'[v] \in VisitRecord
  BY <1>2 DEF VisitRecord, VisitPC, Session
<1>4. /\ visit[v].pc = "idle" /\ up /\ users[u] = r
      /\ visit'[v].pc = "create" /\ visit'[v].token = None
      /\ visit'[v].session.user = u /\ visit'[v].account = r
      /\ visit'[v].session \in Session
  <2>1. visit[v].pc = "idle" /\ up /\ users[u] = r
    BY DEF LoginBegin
  <2> QED
    BY <1>2, <2>1 DEF Session
<1>5. VisitSafe(visit'[v], up, users, sessions, now, issued, ended)
  BY <1>3, <1>4, SafeAt, SessionNoneAssumption
<1> QED
  BY <1>1, <1>2, <1>4, <1>5, VisitMoves

\* RequireAuth or AuthStatusHandler takes the cookie: its session is valid at
\* this time or the visit does not claim it.
LEMMA PageBeginInv ==
    ASSUME Inv, NEW v \in Visit, NEW b \in Browser, NEW kind \in {"page", "status"},
           PageBegin(v, b, kind)
    PROVE  Inv'
<1>1. UNCHANGED TableVars /\ visit \in [Visit -> VisitRecord]
  BY DEF Inv, PageBegin, BookVarsKept, TableVars
<1>2. /\ visit' = [visit EXCEPT ![v] = visit'[v]]
      /\ visit'[v] = [kind |-> kind,
                      pc |-> IF cookie[b] = None THEN "refused" ELSE "lookup",
                      browser |-> b, token |-> cookie[b], session |-> None,
                      account |-> None, live |-> Live(cookie[b])]
  BY <1>1 DEF PageBegin, IdleVisit
<1>3. /\ cookie[b] \in Token \cup {None}
      /\ cookie[b] # None => issued[cookie[b]] # None
      /\ Live(cookie[b]) \in BOOLEAN
  BY DEF Inv, TableInv, TableTypes, Live
<1>4. visit'[v] \in VisitRecord
  BY <1>2, <1>3 DEF VisitRecord, VisitPC
<1>5. /\ visit[v].pc = "idle" /\ up
      /\ visit'[v].pc = IF cookie[b] = None THEN "refused" ELSE "lookup"
      /\ visit'[v].token = cookie[b]
      /\ visit'[v].live = Live(cookie[b])
  BY <1>2 DEF PageBegin
<1>6. VisitSafe(visit'[v], up, users, sessions, now, issued, ended)
  BY <1>3, <1>4, <1>5, SafeAt DEF Live, Expired
<1> QED
  BY <1>1, <1>2, <1>5, <1>6, VisitMoves

\* AuthLogoutHandler takes the cookie.
LEMMA LogoutBeginInv ==
    ASSUME Inv, NEW v \in Visit, NEW b \in Browser, LogoutBegin(v, b)
    PROVE  Inv'
<1>1. UNCHANGED TableVars /\ visit \in [Visit -> VisitRecord]
  BY DEF Inv, LogoutBegin, BookVarsKept, TableVars
<1>2. /\ visit' = [visit EXCEPT ![v] = visit'[v]]
      /\ visit'[v] = [kind |-> "logout",
                      pc |-> IF cookie[b] = None THEN "bye" ELSE "destroy",
                      browser |-> b, token |-> cookie[b], session |-> None,
                      account |-> None, live |-> FALSE]
  BY <1>1 DEF LogoutBegin, IdleVisit
<1>3. /\ cookie[b] \in Token \cup {None}
      /\ cookie[b] # None => issued[cookie[b]] # None
  BY DEF Inv, TableInv, TableTypes
<1>4. visit'[v] \in VisitRecord
  BY <1>2, <1>3 DEF VisitRecord, VisitPC
<1>5. /\ visit[v].pc = "idle" /\ up
      /\ visit'[v].pc = IF cookie[b] = None THEN "bye" ELSE "destroy"
      /\ visit'[v].token = cookie[b]
  BY <1>2 DEF LogoutBegin
<1>6. VisitSafe(visit'[v], up, users, sessions, now, issued, ended)
  BY <1>3, <1>4, <1>5, SafeAt
<1> QED
  BY <1>1, <1>2, <1>5, <1>6, VisitMoves

\* ValidateSession's look-up: a session that is not in the table was logged
\* out, left behind or has expired; one that is there is the token's own.
LEMMA LookupInv ==
    ASSUME Inv, NEW v \in Visit, Lookup(v)
    PROVE  Inv'
<1>1. UNCHANGED TableVars /\ visit \in [Visit -> VisitRecord]
  BY DEF Inv, Lookup, BookVarsKept, TableVars
<1> DEFINE t == visit[v].token
           s == sessions[t]
<1>2. /\ visit' = [visit EXCEPT ![v] = visit'[v]]
      /\ visit'[v] = [visit[v] EXCEPT !.pc = IF s = None THEN "refused" ELSE "check",
                                      !.session = s]
  BY <1>1 DEF Lookup
<1>3. VisitSafe(visit[v], up, users, sessions, now, issued, ended)
  BY DEF Inv, VisitsSafe
<1>4. visit[v] \in VisitRecord /\ visit[v].pc = "lookup"
  BY <1>1 DEF Lookup
<1>5. t \in Token /\ t # None /\ issued[t] # None /\ up
  BY <1>3, <1>4 DEF VisitSafe, TokenPC, UpPC, VisitRecord
<1>6. /\ s \in Session \cup {None}
      /\ s = None => CauseIn(t, now, issued, ended)
      /\ s # None => OwnedIn(s, t, users, issued)
  BY <1>5 DEF Inv, TableInv, TableTypes, GoneForCause, Cause, CauseIn, SessionsOwned,
              Owned, OwnedIn
<1>7. visit'[v] \in VisitRecord
  BY <1>2, <1>4, <1>6 DEF VisitRecord, VisitPC
<1>8. /\ visit'[v].pc = IF s = None THEN "refused" ELSE "check"
      /\ visit'[v].session = s
      /\ visit'[v].token = t
      /\ visit'[v].live = visit[v].live
  BY <1>2, <1>4 DEF VisitRecord
<1>9. s # None => (now > s.expires) \/ visit[v].live
  BY <1>3, <1>4 DEF VisitSafe
<1>10. VisitSafe(visit'[v], up, users, sessions, now, issued, ended)
  BY <1>5, <1>6, <1>7, <1>8, <1>9, SafeAt
<1> QED
  BY <1>1, <1>2, <1>4, <1>8, <1>10, VisitMoves

\* The expiry is checked on the session that was found, without the lock.
LEMMA CheckExpiryInv ==
    ASSUME Inv, NEW v \in Visit, CheckExpiry(v)
    PROVE  Inv'
<1>1. UNCHANGED TableVars /\ visit \in [Visit -> VisitRecord]
  BY DEF Inv, CheckExpiry, BookVarsKept, TableVars, Goes
<1> DEFINE w == visit[v]
<1>2. /\ visit' = [visit EXCEPT ![v] = visit'[v]]
      /\ visit'[v] = [w EXCEPT !.pc = IF Expired(w.session) THEN "drop" ELSE Served(v)]
  BY <1>1 DEF CheckExpiry, Goes
<1>3. VisitSafe(w, up, users, sessions, now, issued, ended)
  BY DEF Inv, VisitsSafe
<1>4. w \in VisitRecord /\ w.pc = "check"
  BY <1>1 DEF CheckExpiry
<1>5. /\ w.token \in Token /\ w.token # None /\ issued[w.token] # None /\ up
      /\ w.session # None /\ OwnedIn(w.session, w.token, users, issued)
      /\ (now > w.session.expires) \/ w.live
  BY <1>3, <1>4 DEF VisitSafe, TokenPC, UpPC, VisitRecord
<1>6. visit'[v].pc = (IF Expired(w.session) THEN "drop" ELSE Served(v))
      /\ visit'[v].session = w.session /\ visit'[v].token = w.token
      /\ visit'[v].live = w.live
  BY <1>2, <1>4 DEF VisitRecord
<1>7. visit'[v] \in VisitRecord
  BY <1>2, <1>4 DEF VisitRecord, VisitPC, Served
<1>8. Expired(w.session) => CauseIn(w.token, now, issued, ended)
  BY <1>5 DEF Expired, OwnedIn, CauseIn
<1>9. VisitSafe(visit'[v], up, users, sessions, now, issued, ended)
  BY <1>5, <1>6, <1>7, <1>8, SafeAt DEF Served, Expired
<1>10. visit'[v].pc # "show"
  BY <1>6 DEF Served
<1> QED
  BY <1>1, <1>2, <1>4, <1>6, <1>9, <1>10, VisitMoves

\* AuthStatusHandler's GetUser finds the account that logged in.
LEMMA GetUserInv ==
    ASSUME Inv, NEW v \in Visit, GetUser(v)
    PROVE  Inv'
<1>1. UNCHANGED TableVars /\ visit \in [Visit -> VisitRecord]
  BY DEF Inv, GetUser, BookVarsKept, TableVars
<1> DEFINE w == visit[v]
<1>2. /\ visit' = [visit EXCEPT ![v] = visit'[v]]
      /\ visit'[v] = [w EXCEPT !.pc = "named", !.account = users[w.session.user]]
  BY <1>1 DEF GetUser
<1>3. VisitSafe(w, up, users, sessions, now, issued, ended)
  BY DEF Inv, VisitsSafe
<1>4. w \in VisitRecord /\ w.pc = "user"
  BY <1>1 DEF GetUser
<1>5. /\ w.token \in Token /\ w.token # None /\ issued[w.token] # None /\ w.live
      /\ w.session # None /\ OwnedIn(w.session, w.token, users, issued)
  BY <1>3, <1>4 DEF VisitSafe, TokenPC, UpPC, VisitRecord
<1>6. users[w.session.user] \in Request \cup {None}
  <2>1. w.session \in Session
    BY <1>4, <1>5 DEF VisitRecord
  <2> QED
    BY <2>1 DEF Session, Inv, TableInv, TableTypes, Book
<1>7. visit'[v] \in VisitRecord
  BY <1>2, <1>4, <1>6 DEF VisitRecord, VisitPC
<1>8. /\ visit'[v].pc = "named" /\ visit'[v].token = w.token
      /\ visit'[v].live = w.live /\ visit'[v].account = users[w.session.user]
  BY <1>2, <1>4 DEF VisitRecord
<1>9. VisitSafe(visit'[v], up, users, sessions, now, issued, ended)
  BY <1>5, <1>7, <1>8, SafeAt DEF OwnedIn
<1> QED
  BY <1>1, <1>2, <1>4, <1>8, <1>9, VisitMoves

-----------------------------------------------------------------------------
(***************************************************************************)
(* The steps of a visit that change the table, the cookies or the name     *)
(* that is shown.                                                          *)
(***************************************************************************)

\* A token is made for the name and the account that the login holds; nobody
\* has it yet.
LEMMA CreateSessionInv ==
    ASSUME Inv, NEW v \in Visit, NEW t \in Token, CreateSession(v, t)
    PROVE  Inv'
<1> DEFINE w == visit[v]
           s == [user |-> w.session.user, expires |-> now + Duration]
           i == [account |-> w.account, expires |-> now + Duration]
<1>1. /\ TableInv /\ TableTypes /\ visit \in [Visit -> VisitRecord]
      /\ VisitSafe(w, up, users, sessions, now, issued, ended)
      /\ w \in VisitRecord /\ w.pc = "create"
  BY DEF Inv, VisitsSafe, TableInv, CreateSession
<1>2. /\ up /\ w.session \in Session /\ w.account \in Request
      /\ users[w.session.user] = w.account
  BY <1>1 DEF VisitSafe, UpPC, VisitRecord
<1>3. now + Duration \in Nat /\ now \in Nat
  BY <1>1, DurationAssumption, MaxTimeAssumption DEF TableTypes
<1>4. s \in Session /\ s # None /\ i \in Issue /\ i # None
  BY <1>2, <1>3, SessionNoneAssumption DEF Session, Issue
<1>5. /\ sessions' = [sessions EXCEPT ![t] = s] /\ issued' = [issued EXCEPT ![t] = i]
      /\ UNCHANGED <<up, users, granted, now, activeUser, cookie, ended, shown>>
      /\ issued[t] = None
  BY DEF CreateSession, BookVarsKept
<1>6. t \notin ended /\ sessions[t] = None /\ t # shown
  BY <1>1, <1>5 DEF TableInv
<1>7. TableTypes'
  BY <1>1, <1>4, <1>5 DEF TableTypes
<1>8. Onward
  BY <1>1, <1>3, <1>5 DEF Onward, TableTypes
<1>9. TableInv'
  <2>1. \A x \in Token : issued'[x] = None =>
           sessions'[x] = None /\ x \notin ended' /\ x # shown'
    BY <1>1, <1>4, <1>5 DEF TableInv, TableTypes
  <2>2. \A b \in Browser : cookie'[b] # None => issued'[cookie'[b]] # None
    BY <1>1, <1>4, <1>5 DEF TableInv, TableTypes
  <2>3. SessionsOwned'
    BY <1>1, <1>2, <1>5, <1>6 DEF TableInv, TableTypes, SessionsOwned, Owned
  <2>4. GoneForCause'
    BY <1>1, <1>4, <1>5 DEF TableInv, TableTypes, GoneForCause, Cause
  <2> QED
    BY <1>7, <2>1, <2>2, <2>3, <2>4 DEF TableInv
<1>10. /\ visit' = [visit EXCEPT ![v] = visit'[v]]
       /\ visit'[v] = [w EXCEPT !.pc = "show", !.token = t, !.session = None]
  BY <1>1 DEF CreateSession
<1>11. /\ visit'[v] \in VisitRecord
       /\ visit'[v].pc = "show" /\ visit'[v].token = t
  BY <1>1, <1>10 DEF VisitRecord, VisitPC
<1>12. VisitSafe(visit'[v], up', users', sessions', now', issued', ended')
  <2>1. issued'[t] # None /\ up' /\ t # None
    BY <1>1, <1>2, <1>4, <1>5, SessionNoneAssumption DEF TableTypes
  <2> QED
    BY <1>11, <2>1, SafeAt
<1>13. visit' \in [Visit -> VisitRecord] /\ VisitsSafe'
  BY <1>7, <1>8, <1>10, <1>12, OneVisitSafe
<1>14. \A x \in Visit \ {v} : visit'[x] = visit[x]
  BY <1>1, <1>10
<1>15. /\ \A x \in Visit : visit[x].token # t
       /\ \A b \in Browser : cookie[b] # t
  BY <1>1, <1>5, SessionNoneAssumption DEF Inv, VisitsSafe, VisitSafe, TableInv
<1>16. FreshTokens'
  BY <1>5, <1>6, <1>11, <1>14, <1>15 DEF Inv, Rest, FreshTokens
<1>17. LoggedOutIsNotShown'
  BY <1>1, <1>5, <1>14 DEF Inv, Rest, LoggedOutIsNotShown
<1> QED
  BY <1>9, <1>13, <1>16, <1>17 DEF Inv, Rest

\* The name is set: nobody has logged out of this login, because its cookie
\* has not been sent.
LEMMA ShowUserInv ==
    ASSUME Inv, NEW v \in Visit, ShowUser(v)
    PROVE  Inv'
<1> DEFINE w == visit[v]
<1>1. /\ TableInv /\ TableTypes /\ visit \in [Visit -> VisitRecord]
      /\ VisitSafe(w, up, users, sessions, now, issued, ended)
      /\ w \in VisitRecord /\ w.pc = "show"
  BY DEF Inv, VisitsSafe, TableInv, ShowUser
<1>2. /\ w.token \in Token /\ w.token # None /\ issued[w.token] # None
      /\ w.account \in Request \cup {None}
  BY <1>1 DEF VisitSafe, TokenPC, VisitRecord
<1>3. /\ activeUser' = w.account /\ shown' = w.token
      /\ UNCHANGED <<up, users, granted, now, sessions, cookie, issued, ended>>
  BY DEF ShowUser, BookVarsKept
<1>4. TableTypes'
  BY <1>1, <1>2, <1>3 DEF TableTypes
<1>5. Onward
  BY <1>1, <1>3, MaxTimeAssumption DEF Onward, TableTypes
<1>6. TableInv'
  BY <1>1, <1>2, <1>3, <1>4 DEF TableInv, SessionsOwned, Owned, GoneForCause, Cause
<1>7. /\ visit' = [visit EXCEPT ![v] = visit'[v]]
      /\ visit'[v] = [w EXCEPT !.pc = "welcome"]
  BY <1>1 DEF ShowUser, Goes
<1>8. /\ visit'[v] \in VisitRecord
      /\ visit'[v].pc = "welcome" /\ visit'[v].token = w.token
  BY <1>1, <1>7 DEF VisitRecord, VisitPC
<1>9. VisitSafe(visit'[v], up', users', sessions', now', issued', ended')
  BY <1>2, <1>3, <1>8, SafeAt
<1>10. visit' \in [Visit -> VisitRecord] /\ VisitsSafe'
  BY <1>4, <1>5, <1>7, <1>9, OneVisitSafe
<1>11. \A x \in Visit \ {v} : visit'[x] = visit[x]
  BY <1>1, <1>7
<1>12. FreshTokens'
  BY <1>3, <1>8, <1>11 DEF Inv, Rest, FreshTokens
<1>13. LoggedOutIsNotShown'
  <2>1. w.token \notin ended
    BY <1>1 DEF Inv, Rest, FreshTokens
  <2> QED
    BY <1>3, <2>1 DEF LoggedOutIsNotShown
<1> QED
  BY <1>6, <1>10, <1>12, <1>13 DEF Inv, Rest

\* A visit removes the session it found expired, or that its user ends.
LEMMA DropExpiredInv ==
    ASSUME Inv, NEW v \in Visit, DropExpired(v)
    PROVE  Inv'
<1> DEFINE w == visit[v]
<1>1. /\ TableInv /\ TableTypes /\ visit \in [Visit -> VisitRecord]
      /\ VisitSafe(w, up, users, sessions, now, issued, ended)
      /\ w \in VisitRecord /\ w.pc = "drop"
  BY DEF Inv, VisitsSafe, TableInv, DropExpired
<1>2. /\ w.token \in Token /\ w.token # None /\ issued[w.token] # None
      /\ CauseIn(w.token, now, issued, ended)
  BY <1>1 DEF VisitSafe, TokenPC, VisitRecord
<1>3. /\ sessions' = [sessions EXCEPT ![w.token] = None]
      /\ UNCHANGED <<up, users, granted, now, activeUser, cookie, issued, ended, shown>>
  BY DEF DropExpired, BookVarsKept, Delete
<1>4. TableTypes'
  BY <1>1, <1>2, <1>3 DEF TableTypes
<1>5. Onward
  BY <1>1, <1>3, MaxTimeAssumption DEF Onward, TableTypes
<1>6. TableInv'
  <2>1. \A t \in Token : sessions'[t] \in {sessions[t], None}
    BY <1>1, <1>3 DEF TableTypes
  <2>2. SessionsOwned'
    BY <1>1, <1>3, <2>1 DEF TableInv, SessionsOwned, Owned
  <2>3. GoneForCause'
    BY <1>1, <1>2, <1>3 DEF TableInv, TableTypes, GoneForCause, Cause, CauseIn
  <2> QED
    BY <1>1, <1>3, <1>4, <2>1, <2>2, <2>3 DEF TableInv
<1>7. /\ visit' = [visit EXCEPT ![v] = visit'[v]]
      /\ visit'[v] = [w EXCEPT !.pc = "refused"]
  BY <1>1 DEF DropExpired, Goes
<1>8. /\ visit'[v] \in VisitRecord
      /\ visit'[v].pc = "refused" /\ visit'[v].token = w.token
  BY <1>1, <1>7 DEF VisitRecord, VisitPC
<1>9. VisitSafe(visit'[v], up', users', sessions', now', issued', ended')
  BY <1>2, <1>3, <1>8, SafeAt
<1>10. visit' \in [Visit -> VisitRecord] /\ VisitsSafe'
  BY <1>4, <1>5, <1>7, <1>9, OneVisitSafe
<1>11. \A x \in Visit \ {v} : visit'[x] = visit[x]
  BY <1>1, <1>7
<1>12. FreshTokens'
  BY <1>3, <1>8, <1>11 DEF Inv, Rest, FreshTokens
<1>13. LoggedOutIsNotShown'
  BY <1>1, <1>3, <1>11 DEF Inv, Rest, LoggedOutIsNotShown
<1> QED
  BY <1>6, <1>10, <1>12, <1>13 DEF Inv, Rest

\* The name may still be shown, but the visit is about to hide it.
LEMMA DestroySessionInv ==
    ASSUME Inv, NEW v \in Visit, DestroySession(v)
    PROVE  Inv'
<1> DEFINE w == visit[v]
<1>1. /\ TableInv /\ TableTypes /\ visit \in [Visit -> VisitRecord]
      /\ VisitSafe(w, up, users, sessions, now, issued, ended)
      /\ w \in VisitRecord /\ w.pc = "destroy"
  BY DEF Inv, VisitsSafe, TableInv, DestroySession
<1>2. w.token \in Token /\ w.token # None /\ issued[w.token] # None /\ up
  BY <1>1 DEF VisitSafe, UpPC, TokenPC, VisitRecord
<1>3. /\ sessions' = [sessions EXCEPT ![w.token] = None]
      /\ ended' = ended \cup {w.token}
      /\ UNCHANGED <<up, users, granted, now, activeUser, cookie, issued, shown>>
  BY DEF DestroySession, BookVarsKept, Delete
<1>4. TableTypes'
  BY <1>1, <1>2, <1>3 DEF TableTypes
<1>5. Onward
  BY <1>1, <1>3, MaxTimeAssumption DEF Onward, TableTypes
<1>6. TableInv'
  <2>1. \A t \in Token : IF t = w.token THEN sessions'[t] = None
                         ELSE sessions'[t] = sessions[t]
    BY <1>1, <1>3 DEF TableTypes
  <2>2. SessionsOwned'
    BY <1>1, <1>3, <2>1 DEF TableInv, SessionsOwned, Owned
  <2>3. GoneForCause'
    BY <1>1, <1>3, <2>1 DEF TableInv, GoneForCause, Cause
  <2>4. \A t \in Token : issued'[t] = None =>
           sessions'[t] = None /\ t \notin ended' /\ t # shown'
    BY <1>1, <1>2, <1>3, <2>1 DEF TableInv
  <2> QED
    BY <1>1, <1>3, <1>4, <2>2, <2>3, <2>4 DEF TableInv
<1>7. /\ visit' = [visit EXCEPT ![v] = visit'[v]]
      /\ visit'[v] = [w EXCEPT !.pc = "hide"]
  BY <1>1 DEF DestroySession, Goes
<1>8. /\ visit'[v] \in VisitRecord
      /\ visit'[v].pc = "hide" /\ visit'[v].token = w.token
  BY <1>1, <1>7 DEF VisitRecord, VisitPC
<1>9. VisitSafe(visit'[v], up', users', sessions', now', issued', ended')
  BY <1>2, <1>3, <1>8, SafeAt
<1>10. visit' \in [Visit -> VisitRecord] /\ VisitsSafe'
  BY <1>4, <1>5, <1>7, <1>9, OneVisitSafe
<1>11. \A x \in Visit \ {v} : visit'[x] = visit[x]
  BY <1>1, <1>7
<1>12. FreshTokens'
  BY <1>3, <1>8, <1>11 DEF Inv, Rest, FreshTokens
<1>13. LoggedOutIsNotShown'
  <2>1. CASE shown \in ended
    BY <1>1, <1>3, <1>11, <2>1 DEF Inv, Rest, LoggedOutIsNotShown
  <2>2. CASE shown \notin ended
    BY <1>3, <1>8, <2>2 DEF LoggedOutIsNotShown
  <2> QED
    BY <2>1, <2>2
<1> QED
  BY <1>6, <1>10, <1>12, <1>13 DEF Inv, Rest

\* Nobody's name is shown.
LEMMA HideUserInv ==
    ASSUME Inv, NEW v \in Visit, HideUser(v)
    PROVE  Inv'
<1> DEFINE w == visit[v]
<1>1. /\ TableInv /\ TableTypes /\ visit \in [Visit -> VisitRecord]
      /\ VisitSafe(w, up, users, sessions, now, issued, ended)
      /\ w \in VisitRecord /\ w.pc = "hide"
  BY DEF Inv, VisitsSafe, TableInv, HideUser
<1>2. w.token # None => issued[w.token] # None
  BY <1>1 DEF VisitSafe
<1>3. /\ activeUser' = None /\ shown' = None
      /\ UNCHANGED <<up, users, granted, now, sessions, cookie, issued, ended>>
  BY DEF HideUser, BookVarsKept
<1>4. TableTypes'
  BY <1>1, <1>3 DEF TableTypes
<1>5. Onward
  BY <1>1, <1>3, MaxTimeAssumption DEF Onward, TableTypes
<1>6. TableInv'
  BY <1>1, <1>3, <1>4, SessionNoneAssumption
     DEF TableInv, SessionsOwned, Owned, GoneForCause, Cause
<1>7. /\ visit' = [visit EXCEPT ![v] = visit'[v]]
      /\ visit'[v] = [w EXCEPT !.pc = "bye"]
  BY <1>1 DEF HideUser, Goes
<1>8. /\ visit'[v] \in VisitRecord
      /\ visit'[v].pc = "bye" /\ visit'[v].token = w.token
  BY <1>1, <1>7 DEF VisitRecord, VisitPC
<1>9. VisitSafe(visit'[v], up', users', sessions', now', issued', ended')
  BY <1>2, <1>3, <1>8, SafeAt
<1>10. visit' \in [Visit -> VisitRecord] /\ VisitsSafe'
  BY <1>4, <1>5, <1>7, <1>9, OneVisitSafe
<1>11. \A x \in Visit \ {v} : visit'[x] = visit[x]
  BY <1>1, <1>7
<1>12. FreshTokens'
  BY <1>3, <1>8, <1>11 DEF Inv, Rest, FreshTokens
<1>13. LoggedOutIsNotShown'
  BY <1>1, <1>3, SessionNoneAssumption DEF LoggedOutIsNotShown, TableTypes
<1> QED
  BY <1>6, <1>10, <1>12, <1>13 DEF Inv, Rest

\* The browser keeps the token of its answer, which no login under way has.
LEMMA ArriveInv ==
    ASSUME Inv, NEW v \in Visit, Arrive(v)
    PROVE  Inv'
<1> DEFINE w == visit[v]
<1>1. /\ TableInv /\ TableTypes /\ visit \in [Visit -> VisitRecord]
      /\ VisitSafe(w, up, users, sessions, now, issued, ended)
      /\ w \in VisitRecord
      /\ w.pc \in {"welcome", "bye", "refused", "accepted", "named"}
  BY DEF Inv, VisitsSafe, TableInv, Arrive
<1>2. w.token \in Token \cup {None} /\ (w.token # None => issued[w.token] # None)
  BY <1>1 DEF VisitSafe, VisitRecord
<1>3. /\ cookie' = [cookie EXCEPT ![w.browser] = SetCookie(w, @)]
      /\ visit' = [visit EXCEPT ![v] = IdleVisit]
      /\ UNCHANGED <<up, users, granted, now, sessions, activeUser, issued, ended, shown>>
  BY DEF Arrive, BookVarsKept
<1>4. \A b \in Browser : cookie'[b] \in {cookie[b], w.token, None}
  BY <1>1, <1>3 DEF SetCookie, TableTypes
<1>5. cookie' \in [Browser -> Token \cup {None}]
  <2>1. cookie' = [b \in Browser |-> cookie'[b]]
    BY <1>1, <1>3 DEF TableTypes
  <2> QED
    BY <1>1, <1>2, <1>4, <2>1 DEF TableTypes
<1>6. TableTypes'
  BY <1>1, <1>3, <1>5 DEF TableTypes
<1>7. Onward
  BY <1>1, <1>3, MaxTimeAssumption DEF Onward, TableTypes
<1>8. TableInv'
  <2>1. \A b \in Browser : cookie'[b] # None => issued'[cookie'[b]] # None
    BY <1>1, <1>2, <1>3, <1>4 DEF TableInv
  <2> QED
    BY <1>1, <1>3, <1>6, <2>1 DEF TableInv, SessionsOwned, Owned, GoneForCause, Cause
<1>9. visit'[v] = IdleVisit /\ visit' = [visit EXCEPT ![v] = visit'[v]]
  BY <1>1, <1>3
<1>10. /\ visit'[v] \in VisitRecord
       /\ visit'[v].pc = "idle" /\ visit'[v].token = None
  BY <1>9, IdleVisitIsRecord DEF IdleVisit
<1>11. VisitSafe(visit'[v], up', users', sessions', now', issued', ended')
  BY <1>10, SafeAt
<1>12. visit' \in [Visit -> VisitRecord] /\ VisitsSafe'
  BY <1>6, <1>7, <1>9, <1>11, OneVisitSafe
<1>13. \A x \in Visit \ {v} : visit'[x] = visit[x]
  BY <1>1, <1>9
<1>14. FreshTokens'
  <2> SUFFICES ASSUME NEW x \in Visit, visit'[x].pc = "show"
               PROVE  /\ visit'[x].token \notin ended'
                      /\ \A b \in Browser : cookie'[b] # visit'[x].token
                      /\ \A y \in Visit \ {x} : visit'[y].token # visit'[x].token
    BY DEF FreshTokens
  <2>1. x # v /\ visit'[x] = visit[x]
    BY <1>10, <1>13
  <2>2. /\ visit[x].token \notin ended
        /\ \A b \in Browser : cookie[b] # visit[x].token
        /\ \A y \in Visit \ {x} : visit[y].token # visit[x].token
    BY <2>1 DEF Inv, Rest, FreshTokens
  <2>3. visit[x].token # None
    BY <2>1 DEF Inv, VisitsSafe, VisitSafe, TokenPC
  <2> QED
    BY <1>3, <1>4, <1>10, <1>13, <2>1, <2>2, <2>3
<1>15. LoggedOutIsNotShown'
  BY <1>1, <1>3, <1>13 DEF Inv, Rest, LoggedOutIsNotShown
<1> QED
  BY <1>8, <1>12, <1>14, <1>15 DEF Inv, Rest

-----------------------------------------------------------------------------
(***************************************************************************)
(* The steps of the process, which move no visit: the reaper, the clock,   *)
(* registrations, its start and its end.                                   *)
(***************************************************************************)

\* A step that moves no visit preserves what is said of visits.
LEMMA NoVisitMoves ==
    ASSUME Inv, TableInv', Onward, UNCHANGED <<visit, cookie, ended, shown>>
    PROVE  Inv'
<1>1. TableTypes'
  BY DEF TableInv
<1>2. visit' \in [Visit -> VisitRecord]
  BY DEF Inv
<1>3. VisitsSafe'
  BY <1>1, OthersSafe DEF VisitsSafe
<1>4. Rest'
  BY DEF Inv, Rest, FreshTokens, LoggedOutIsNotShown
<1> QED
  BY <1>2, <1>3, <1>4 DEF Inv

\* reapExpiredSessions takes away expired sessions only.
LEMMA ReapInv ==
    ASSUME Inv, Reap
    PROVE  Inv'
<1>1. TableInv /\ TableTypes
  BY DEF Inv, TableInv
<1>2. /\ sessions' = [t \in Token |-> IF Overdue(t) THEN None ELSE sessions[t]]
      /\ UNCHANGED <<up, users, granted, now, activeUser, cookie, visit, issued, ended, shown>>
  BY DEF Reap, BookVarsKept
<1>3. \A t \in Token : sessions'[t] \in {sessions[t], None}
  BY <1>2
<1>4. TableTypes'
  BY <1>1, <1>2 DEF TableTypes
<1>5. Onward
  BY <1>1, <1>2, <1>3, MaxTimeAssumption DEF Onward, TableTypes
<1>6. GoneForCause'
  <2> SUFFICES ASSUME NEW t \in Token, issued[t] # None, sessions'[t] = None
               PROVE  Cause(t)
    BY <1>2 DEF GoneForCause, Cause
  <2>1. CASE sessions[t] = None
    BY <1>1, <2>1 DEF TableInv, GoneForCause
  <2>2. CASE sessions[t] # None
    <3>1. Overdue(t)
      BY <1>2, <2>2
    <3> QED
      BY <1>1, <2>2, <3>1 DEF TableInv, SessionsOwned, Owned, Overdue, Expired, Cause
  <2> QED
    BY <2>1, <2>2
<1>7. SessionsOwned'
  BY <1>1, <1>2, <1>3 DEF TableInv, SessionsOwned, Owned
<1>8. TableInv'
  BY <1>1, <1>2, <1>3, <1>4, <1>6, <1>7 DEF TableInv
<1> QED
  BY <1>2, <1>5, <1>8, NoVisitMoves

\* Time passes: what has expired stays expired.
LEMMA TickInv ==
    ASSUME Inv, Tick
    PROVE  Inv'
<1>1. TableInv /\ TableTypes
  BY DEF Inv, TableInv
<1>2. /\ now' = now + 1 /\ now < MaxTime
      /\ UNCHANGED <<up, users, granted, sessions, activeUser, cookie, visit, issued, ended, shown>>
  BY DEF Tick, BookVarsKept
<1>3. now \in Nat /\ now' \in 0 .. MaxTime
  BY <1>1, <1>2, MaxTimeAssumption DEF TableTypes
<1>4. TableTypes'
  BY <1>1, <1>2, <1>3 DEF TableTypes
<1>5. Onward
  BY <1>2, <1>3 DEF Onward
<1>6. GoneForCause'
  <2> SUFFICES ASSUME NEW t \in Token, issued[t] # None, sessions[t] = None
               PROVE  t \in ended \/ now + 1 > issued[t].expires
    BY <1>2 DEF GoneForCause, Cause
  <2>1. issued[t].expires \in Nat
    BY <1>1 DEF TableTypes, Issue
  <2>2. t \in ended \/ now > issued[t].expires
    BY <1>1 DEF TableInv, GoneForCause, Cause
  <2> QED
    BY <1>3, <2>1, <2>2
<1>7. TableInv'
  BY <1>1, <1>2, <1>4, <1>6 DEF TableInv, SessionsOwned, Owned
<1> QED
  BY <1>2, <1>5, <1>7, NoVisitMoves

\* Starting the process and registering users, here or elsewhere, give a name to
\* an account at this node only when no session holds that name.
LEMMA BookStepInv ==
    ASSUME Inv, BookStep
    PROVE  Inv'
<1>1. TableInv /\ TableTypes
  BY DEF Inv, TableInv
<1>2. UNCHANGED <<now, sessions, activeUser, cookie, visit, issued, ended, shown>>
  BY DEF BookStep
<1>3. /\ (up => up') /\ up' \in BOOLEAN /\ users' \in Book
      /\ granted' \in [Request -> User \cup {None}]
      /\ \A u \in User : up /\ users[u] \in Request => users'[u] = users[u]
  <2>1. CASE Open
    BY <1>1, <2>1 DEF Open, TableTypes
  <2>2. CASE \E r \in Request, u \in User : Grant(r, u)
    BY <1>1, <2>2, SessionNoneAssumption DEF Grant, TableTypes, Book
  <2>3. CASE \E r \in Request, u \in User : GrantElsewhere(r, u)
    BY <1>1, <2>3 DEF GrantElsewhere, TableTypes
  <2> QED
    BY <2>1, <2>2, <2>3 DEF BookStep
<1>4. TableTypes'
  BY <1>1, <1>2, <1>3 DEF TableTypes
<1>5. SessionsOwned'
  <2> SUFFICES ASSUME NEW t \in Token, sessions[t] # None
               PROVE  up' /\ t \notin ended /\ sessions[t].expires = issued[t].expires
                      /\ users'[sessions[t].user] = issued[t].account
    BY <1>2 DEF SessionsOwned, Owned
  <2>1. /\ up /\ t \notin ended /\ sessions[t].expires = issued[t].expires
        /\ users[sessions[t].user] = issued[t].account
    BY <1>1 DEF TableInv, SessionsOwned, Owned
  <2>2. /\ sessions[t].user \in User
        /\ issued[t] # None
        /\ issued[t].account \in Request
    BY <1>1 DEF TableInv, TableTypes, Session, Issue
  <2> QED
    BY <1>3, <2>1, <2>2
<1>6. TableInv'
  BY <1>1, <1>2, <1>4, <1>5 DEF TableInv, GoneForCause, Cause
<1>7. CASE up
  <2>1. Onward
    BY <1>1, <1>2, <1>3, <1>7, MaxTimeAssumption DEF Onward, TableTypes
  <2> QED
    BY <1>2, <1>6, <2>1, NoVisitMoves
<1>8. CASE ~up
  \* No request is under way in a process that does not run.
  <2>1. ASSUME NEW v \in Visit
        PROVE  VisitSafe(visit'[v], up', users', sessions', now', issued', ended')
    <3>1. VisitSafe(visit[v], up, users, sessions, now, issued, ended)
      BY DEF Inv, VisitsSafe
    <3>2. visit[v].pc \notin UpPC
      BY <1>8, <3>1 DEF VisitSafe
    <3> QED
      BY <1>2, <3>1, <3>2 DEF VisitSafe, UpPC
  <2>2. Rest' /\ visit' \in [Visit -> VisitRecord]
    BY <1>2 DEF Inv, Rest, FreshTokens, LoggedOutIsNotShown
  <2> QED
    BY <1>6, <2>1, <2>2 DEF Inv, VisitsSafe
<1> QED
  BY <1>1, <1>7, <1>8 DEF TableTypes

\* The end of the process ends every session; what was answered still holds.
LEMMA EndProcessInv ==
    ASSUME Inv, EndProcess
    PROVE  Inv'
<1>1. /\ TableInv /\ TableTypes /\ visit \in [Visit -> VisitRecord]
      /\ VisitsSafe
  BY DEF Inv, TableInv
<1>2. /\ up' = FALSE /\ users' = EmptyBook /\ granted' = granted
      /\ sessions' = [t \in Token |-> None]
      /\ activeUser' = None /\ shown' = None
      /\ visit' = [v \in Visit |-> Cut(visit[v])]
      /\ ended' = ended \cup IssuedTokens
      /\ UNCHANGED <<now, cookie, issued>>
  BY DEF EndProcess, Close, SessionsLost
<1>3. TableTypes'
  BY <1>1, <1>2 DEF TableTypes, Book, EmptyBook, IssuedTokens
<1>4. TableInv'
  BY <1>1, <1>2, <1>3, SessionNoneAssumption
     DEF TableInv, SessionsOwned, GoneForCause, Cause, IssuedTokens
<1>5. ASSUME NEW v \in Visit
      PROVE  /\ visit'[v] \in VisitRecord
             /\ visit'[v].pc \notin UpPC
             /\ VisitSafe(visit'[v], up', users', sessions', now', issued', ended')
  <2>1. /\ VisitSafe(visit[v], up, users, sessions, now, issued, ended)
        /\ visit'[v] = Cut(visit[v])
    BY <1>1, <1>2 DEF VisitsSafe
  <2>2. CASE visit[v].pc \in {"welcome", "bye", "refused", "accepted", "named"}
    <3>1. visit'[v] = visit[v]
      BY <2>1, <2>2 DEF Cut
    <3> QED
      BY <1>2, <2>1, <2>2, <3>1 DEF VisitSafe, UpPC, CauseIn
  <2>3. CASE visit[v].pc \notin {"welcome", "bye", "refused", "accepted", "named"}
    <3>1. visit'[v] = IdleVisit
      BY <2>1, <2>3 DEF Cut
    <3>2. IdleVisit.pc = "idle" /\ IdleVisit.token = None
      BY DEF IdleVisit
    <3> QED
      BY <3>1, <3>2, IdleVisitIsRecord, SafeAt DEF UpPC
  <2> QED
    BY <2>2, <2>3
<1>6. visit' \in [Visit -> VisitRecord] /\ VisitsSafe'
  BY <1>2, <1>5 DEF VisitsSafe
<1>7. FreshTokens'
  BY <1>5 DEF FreshTokens, UpPC
<1>8. LoggedOutIsNotShown'
  BY <1>2, <1>3, SessionNoneAssumption DEF LoggedOutIsNotShown, TableTypes
<1> QED
  BY <1>4, <1>6, <1>7, <1>8 DEF Inv, Rest

-----------------------------------------------------------------------------
\* A node starts with no session and no visit.
LEMMA SessionInitInv ==
    ASSUME SessionInit
    PROVE  Inv
<1>1. TableTypes
  <2>1. users \in Book /\ granted \in [Request -> User \cup {None}] /\ up \in BOOLEAN
    BY DEF SessionInit, BookInit, Book, EmptyBook
  <2>2. now \in 0 .. MaxTime
    BY MaxTimeAssumption DEF SessionInit
  <2> QED
    BY <2>1, <2>2 DEF SessionInit, TableTypes
<1>2. TableInv
  BY <1>1, SessionNoneAssumption
     DEF SessionInit, TableInv, SessionsOwned, GoneForCause
<1>3. IdleVisit.pc = "idle" /\ IdleVisit.token = None
  BY DEF IdleVisit
<1>4. \A v \in Visit : visit[v] = IdleVisit
  BY DEF SessionInit
<1>5. visit \in [Visit -> VisitRecord]
  BY IdleVisitIsRecord DEF SessionInit
<1>6. VisitsSafe
  BY <1>3, <1>4, IdleVisitIsRecord, SafeAt DEF VisitsSafe
<1>7. Rest
  BY <1>3, <1>4 DEF SessionInit, Rest, FreshTokens, LoggedOutIsNotShown
<1> QED
  BY <1>2, <1>5, <1>6, <1>7 DEF Inv

\* Every step of a node, of its visits and of its clock preserves Inv.
LEMMA SessionNextInv ==
    ASSUME Inv, [SessionNext]_sessionVars
    PROVE  Inv'
<1>1. CASE UNCHANGED sessionVars
  BY <1>1 DEF sessionVars, Inv, TableInv, TableTypes, SessionsOwned, Owned, GoneForCause,
              Cause, VisitsSafe, Rest, FreshTokens, LoggedOutIsNotShown
<1>2. CASE BookStep
  BY <1>2, BookStepInv
<1>3. CASE EndProcess
  BY <1>3, EndProcessInv
<1>4. CASE Tick
  BY <1>4, TickInv
<1>5. CASE Reap
  BY <1>5, ReapInv
<1>6. ASSUME NEW v \in Visit, NEW b \in Browser,
             NEW u \in User, NEW r \in Request, LoginBegin(v, b, u, r)
      PROVE  Inv'
  BY <1>6, LoginBeginInv
<1>7. ASSUME NEW v \in Visit, NEW b \in Browser,
             NEW kind \in {"page", "status"}, PageBegin(v, b, kind)
      PROVE  Inv'
  BY <1>7, PageBeginInv
<1>8. ASSUME NEW v \in Visit, NEW b \in Browser, LogoutBegin(v, b)
      PROVE  Inv'
  BY <1>8, LogoutBeginInv
<1>9. ASSUME NEW v \in Visit, VisitStep(v)
      PROVE  Inv'
  BY <1>9, CreateSessionInv, ShowUserInv, LookupInv, CheckExpiryInv, DropExpiredInv,
     GetUserInv, DestroySessionInv, HideUserInv, ArriveInv DEF VisitStep
<1> QED
  BY <1>1, <1>2, <1>3, <1>4, <1>5, <1>6, <1>7, <1>8, <1>9 DEF SessionNext

\* SessionInv holds in every state of a node, whatever its users, its clock and
\* its restarts do.
THEOREM SessionInvHolds == SessionSpec => []SessionInv
<1>1. SessionInit => Inv
  BY SessionInitInv
<1>2. Inv /\ [SessionNext]_sessionVars => Inv'
  BY SessionNextInv
<1>3. Inv => SessionInv
  BY SessionInvSplit DEF Inv
<1> QED
  BY <1>1, <1>2, <1>3, PTL DEF SessionSpec

\* A visit that RequireAuth or the status page lets through carried a session
\* that was valid when it came.
THEOREM AcceptedVisitsWereLive == SessionSpec => []AcceptedWasLive
<1>1. SessionInv => AcceptedWasLive
  BY DEF SessionInv
<1> QED
  BY <1>1, SessionInvHolds, PTL

\* A visit is refused only for a token that was logged out, left behind by a
\* process, or has expired.
THEOREM RefusalsHaveCause == SessionSpec => []RefusedForCause
<1>1. SessionInv => RefusedForCause
  BY DEF SessionInv
<1> QED
  BY <1>1, SessionInvHolds, PTL

\* The account that the status page reports is the one that logged in.
THEOREM StatusIsTheOwners == SessionSpec => []StatusNamesOwner
<1>1. SessionInv => StatusNamesOwner
  BY DEF SessionInv
<1> QED
  BY <1>1, SessionInvHolds, PTL

\* No node shows a name past the logout of the login that set it, except while
\* that logout is on its way to take it back.
THEOREM LogoutHidesTheName == SessionSpec => []LoggedOutIsNotShown
<1>1. SessionInv => LoggedOutIsNotShown
  BY DEF SessionInv
<1> QED
  BY <1>1, SessionInvHolds, PTL
=============================================================================
