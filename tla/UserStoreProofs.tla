-------------------------- MODULE UserStoreProofs ---------------------------
(***************************************************************************)
(* StoreInv is an inductive invariant of UserStore, and UserStore          *)
(* implements AccountBook: proofs for any number of nodes that share the   *)
(* file, and of names, registrations and restarts.                         *)
(***************************************************************************)
EXTENDS UserStore, TLAPS

SaverRecord ==
    [pc : SaverPC, name : User \cup {None}, home : Node \cup {None}, data : Accounts]

\* Granted and Registered as predicates of the savers.
GrantedIn(sv, r) == IF sv[r].pc \in {"idle", "taken"} THEN None ELSE sv[r].name
RegisteredIn(sv, accounts) ==
    \A u \in User : accounts[u] # None => GrantedIn(sv, accounts[u]) = u

\* The first part of StoreInv: types, and where accounts come from.
SourceInv == StoreTypeOK /\ AccountsGranted /\ SaversPlaced

\* Requests and nodes are savers, and different ones.
LEMMA SaversDiffer ==
    /\ \A r \in Request : r \in Saver /\ r \notin Node /\ r # None
    /\ \A n \in Node : n \in Saver /\ n \notin Request /\ n # None
    /\ \A s \in Saver : s # None /\ (s \in Node <=> s \notin Request)
  BY StoreNoneAssumption DEF Saver

\* Where a request or the auto-save goroutine is, and what it holds.
LEMMA SaverTypes ==
    ASSUME StoreTypeOK
    PROVE  /\ saver \in [Saver -> SaverRecord]
           /\ \A s \in Saver : /\ saver[s] \in SaverRecord
                               /\ saver[s].pc \in SaverPC
                               /\ saver[s].name \in User \cup {None}
                               /\ saver[s].home \in Node \cup {None}
                               /\ saver[s].data \in Accounts
  BY DEF StoreTypeOK, SaverRecord

\* The record that the end of a save or of a process puts in place of another.
LEMMA IdleFacts ==
    /\ NoAccounts \in Accounts /\ \A sv : RegisteredIn(sv, NoAccounts)
    /\ \A s \in Saver :
          /\ Idle(s) \in SaverRecord
          /\ Idle(s).pc = "idle" /\ Idle(s).name = None /\ Idle(s).data = NoAccounts
          /\ Idle(s).home = IF s \in Node THEN s ELSE None
<1>1. NoAccounts \in Accounts /\ \A sv : RegisteredIn(sv, NoAccounts)
  BY DEF NoAccounts, Accounts, RegisteredIn
<1> QED
  BY <1>1 DEF Idle, SaverRecord, SaverPC

\* The same with the name of the request.
LEMMA IdleNamed ==
    ASSUME StoreTypeOK, NEW s \in Saver, NEW pc \in SaverPC
    PROVE  LET x == [Idle(s) EXCEPT !.pc = pc, !.name = saver[s].name]
           IN  /\ x \in SaverRecord
               /\ x.pc = pc /\ x.name = saver[s].name /\ x.data = NoAccounts
               /\ x.home = IF s \in Node THEN s ELSE None
  BY SaverTypes, IdleFacts DEF Idle, SaverRecord

\* One saver moves.
LEMMA OneMoves ==
    ASSUME StoreTypeOK, NEW s \in Saver, NEW x \in SaverRecord,
           saver' = [saver EXCEPT ![s] = x]
    PROVE  /\ saver' \in [Saver -> SaverRecord]
           /\ saver'[s] = x
           /\ \A q \in Saver \ {s} : saver'[q] = saver[q]
  BY SaverTypes

\* AccountsGranted in these terms.
LEMMA GrantedSplit ==
    AccountsGranted <=> /\ \A n \in Node : RegisteredIn(saver, users[n])
                        /\ \A s \in Saver : RegisteredIn(saver, saver[s].data)
                        /\ file # None => file.head = None \/ RegisteredIn(saver, file.head)
  BY DEF AccountsGranted, Registered, Granted, RegisteredIn, GrantedIn

\* The same after a step.
LEMMA GrantedNext ==
    ASSUME \A n \in Node : RegisteredIn(saver', users'[n]),
           \A s \in Saver : RegisteredIn(saver', saver'[s].data),
           file' # None => file'.head = None \/ RegisteredIn(saver', file'.head)
    PROVE  AccountsGranted'
  BY DEF AccountsGranted, Registered, Granted, RegisteredIn, GrantedIn

\* A name that was given to a request stays with it, so the accounts that rest
\* on it are still registered.
LEMMA RegisteredStable ==
    ASSUME NEW sv1, NEW sv2, NEW accounts \in Accounts, RegisteredIn(sv1, accounts),
           \A r \in Request : GrantedIn(sv1, r) # None => GrantedIn(sv2, r) = GrantedIn(sv1, r)
    PROVE  RegisteredIn(sv2, accounts)
  BY StoreNoneAssumption DEF RegisteredIn, Accounts

\* What a restart finds in the file.
LEMMA LoadedFacts ==
    ASSUME SourceInv
    PROVE  Loaded(file) \in Accounts /\ RegisteredIn(saver, Loaded(file))
<1>1. CASE Parses(file)
  BY <1>1, GrantedSplit DEF SourceInv, StoreTypeOK, File, Loaded, Parses
<1>2. CASE ~Parses(file)
  BY <1>2, IdleFacts DEF Loaded
<1> QED
  BY <1>1, <1>2

\* A write leaves a file, whose beginning is the document or nothing.
LEMMA OverwriteFacts ==
    ASSUME NEW f \in File, NEW accounts \in Accounts
    PROVE  /\ Overwrite(f, accounts) \in File
           /\ Overwrite(f, accounts) # None
           /\ Overwrite(f, accounts).head = accounts
           /\ \A length \in 1 .. DocumentLength[accounts] - 1 :
                 /\ OverwritePart(f, length) \in File
                 /\ OverwritePart(f, length) # None
                 /\ OverwritePart(f, length).head = None
<1>1. f.length \in Nat /\ DocumentLength[accounts] \in Nat \ {0}
  BY DocumentLengthAssumption DEF File
<1>2. AtLeast(f.length, DocumentLength[accounts]) \in Nat
  BY <1>1 DEF AtLeast
<1>3. Overwrite(f, accounts) \in File /\ Overwrite(f, accounts).head = accounts
  BY <1>2 DEF Overwrite, File
<1>4. ASSUME NEW length \in 1 .. DocumentLength[accounts] - 1
      PROVE  OverwritePart(f, length) \in File /\ OverwritePart(f, length).head = None
  <2>1. length \in Nat
    BY <1>1
  <2>2. AtLeast(f.length, length) \in Nat
    BY <1>1, <2>1 DEF AtLeast
  <2> QED
    BY <2>2 DEF OverwritePart, File
<1> QED
  BY <1>3, <1>4, StoreDataAssumption

\* A document written over an empty file is read again.
LEMMA WrittenParses ==
    ASSUME NEW accounts \in Accounts
    PROVE  Parses(Overwrite(Truncated, accounts))
<1>1. Truncated \in File
  BY DEF Truncated, File
<1>2. Overwrite(Truncated, accounts) # None /\ accounts # None
  BY <1>1, OverwriteFacts, StoreDataAssumption
<1>3. DocumentLength[accounts] \in Nat \ {0}
  BY DocumentLengthAssumption
<1>4. AtLeast(0, DocumentLength[accounts]) = DocumentLength[accounts]
  BY <1>3 DEF AtLeast
<1> QED
  BY <1>2, <1>4 DEF Parses, Overwrite, Truncated

\* A step whose accounts come from those that there were.
LEMMA SourceStep ==
    ASSUME SourceInv, StoreTypeOK', SaversPlaced',
           \A r \in Request : GrantedIn(saver, r) # None
                              => GrantedIn(saver', r) = GrantedIn(saver, r),
           \A n \in Node : users'[n] \in {users[n], NoAccounts, Loaded(file)},
           \A s \in Saver : \/ saver'[s].data \in {saver[s].data, NoAccounts}
                            \/ \E n \in Node : saver'[s].data = users[n],
           file' = file \/ file'.head = None \/ \E s \in Saver : file'.head = saver[s].data
    PROVE  SourceInv'
<1>1. /\ \A n \in Node : users[n] \in Accounts /\ RegisteredIn(saver, users[n])
      /\ \A s \in Saver : saver[s].data \in Accounts /\ RegisteredIn(saver, saver[s].data)
      /\ file \in File \cup {None}
      /\ file # None => file.head = None \/ RegisteredIn(saver, file.head)
  BY SaverTypes, GrantedSplit DEF SourceInv, StoreTypeOK
<1>2. \A accounts \in Accounts : RegisteredIn(saver, accounts) => RegisteredIn(saver', accounts)
  BY RegisteredStable
<1>3. \A n \in Node : RegisteredIn(saver', users'[n])
  BY <1>1, <1>2, IdleFacts, LoadedFacts
<1>4. \A s \in Saver : RegisteredIn(saver', saver'[s].data)
  BY <1>1, <1>2, IdleFacts
<1>5. file' # None => file'.head = None \/ RegisteredIn(saver', file'.head)
  <2>1. CASE file' = file
    BY <1>1, <1>2, <2>1 DEF File
  <2>2. CASE \E s \in Saver : file'.head = saver[s].data
    BY <1>1, <1>2, <2>2
  <2> QED
    BY <2>1, <2>2
<1> QED
  BY <1>3, <1>4, <1>5, GrantedNext DEF SourceInv

-----------------------------------------------------------------------------
(***************************************************************************)
(* What each step does to the savers.                                      *)
(***************************************************************************)

\* RegisterUser gives a free name to a request that had none.
LEMMA RegisterFacts ==
    ASSUME SourceInv, NEW r \in Request, NEW n \in Node, NEW u \in User,
           RegisterUser(r, n, u)
    PROVE  /\ saver' \in [Saver -> SaverRecord]
           /\ saver[r].pc = "idle" /\ saver'[r].name = u /\ saver'[r].data = saver[r].data
           /\ \A q \in Saver \ {r} : saver'[q] = saver[q]
           /\ up[n] /\ UNCHANGED <<up, starts, file, stale, alone, exposed>>
           /\ \A m \in Node \ {n} : users'[m] = users[m]
           /\ users' \in [Node -> Accounts] /\ dirty' \in [Node -> BOOLEAN]
           /\ \/ /\ users[n][u] = None /\ saver'[r].pc = "marshal" /\ saver'[r].home = n
                 /\ users'[n] = [users[n] EXCEPT ![u] = r]
              \/ /\ users[n][u] # None /\ saver'[r].pc = "taken" /\ saver'[r].home = None
                 /\ users' = users
<1>1. /\ r \in Saver /\ saver[r] \in SaverRecord /\ saver[r].pc = "idle"
      /\ saver[r].home = None
  BY SaversDiffer, SaverTypes DEF SourceInv, RegisterUser, SaversPlaced, Busy
<1>2. /\ users \in [Node -> Accounts] /\ dirty \in [Node -> BOOLEAN] /\ users[n] \in Accounts
      /\ StoreTypeOK
  BY DEF SourceInv, StoreTypeOK
<1>3. CASE users[n][u] = None
  <2> DEFINE x == [saver[r] EXCEPT !.pc = "marshal", !.name = u, !.home = n]
             accounts == [users[n] EXCEPT ![u] = r]
  <2>1. /\ x \in SaverRecord /\ x.pc = "marshal" /\ x.name = u /\ x.home = n
        /\ x.data = saver[r].data
    BY <1>1 DEF SaverRecord, SaverPC
  <2>2. /\ saver' = [saver EXCEPT ![r] = x] /\ users' = [users EXCEPT ![n] = accounts]
        /\ dirty' = [dirty EXCEPT ![n] = TRUE]
        /\ up[n] /\ UNCHANGED <<up, starts, file, stale, alone, exposed>>
    BY <1>3 DEF RegisterUser
  <2>3. accounts \in Accounts
    BY <1>2 DEF Accounts
  <2> HIDE DEF x, accounts
  <2>4. users' \in [Node -> Accounts] /\ users'[n] = accounts
        /\ \A m \in Node \ {n} : users'[m] = users[m]
    BY <1>2, <2>2, <2>3
  <2> QED
    BY <1>1, <1>2, <1>3, <2>1, <2>2, <2>4, OneMoves DEF accounts
<1>4. CASE users[n][u] # None
  <2> DEFINE x == [saver[r] EXCEPT !.pc = "taken", !.name = u]
  <2>1. /\ x \in SaverRecord /\ x.pc = "taken" /\ x.name = u /\ x.home = None
        /\ x.data = saver[r].data
    BY <1>1 DEF SaverRecord, SaverPC
  <2>2. /\ saver' = [saver EXCEPT ![r] = x] /\ UNCHANGED <<users, dirty>>
        /\ up[n] /\ UNCHANGED <<up, starts, file, stale, alone, exposed>>
    BY <1>4 DEF RegisterUser
  <2> HIDE DEF x
  <2> QED
    BY <1>1, <1>2, <1>4, <2>1, <2>2, OneMoves
<1> QED
  BY <1>3, <1>4

\* A saver that saves has a node, which is up.
LEMMA SaverIsUp ==
    ASSUME SourceInv, NEW s \in Saver, saver[s].pc \in Busy
    PROVE  saver[s].home \in Node /\ up[saver[s].home] /\ (s \in Node => saver[s].home = s)
  BY SaversDiffer DEF SourceInv, SaversPlaced

\* A tick of the auto-save goroutine only begins a save.
LEMMA TickFacts ==
    ASSUME SourceInv, NEW n \in Node, AutoSaveTick(n)
    PROVE  /\ saver' \in [Saver -> SaverRecord]
           /\ saver[n].pc = "idle" /\ saver'[n].pc = "marshal" /\ up[n]
           /\ saver'[n].name = saver[n].name /\ saver'[n].home = n
           /\ saver'[n].data = saver[n].data
           /\ \A q \in Saver \ {n} : saver'[q] = saver[q]
           /\ UNCHANGED <<up, starts, users, dirty, file, stale, alone, exposed>>
<1> DEFINE x == [saver[n] EXCEPT !.pc = "marshal"]
<1>1. /\ n \in Saver /\ saver[n] \in SaverRecord /\ saver[n].home = n
  BY SaversDiffer, SaverTypes DEF SourceInv, SaversPlaced
<1>2. /\ x \in SaverRecord /\ x.pc = "marshal" /\ x.name = saver[n].name
      /\ x.home = n /\ x.data = saver[n].data
  BY <1>1 DEF SaverRecord, SaverPC
<1>3. /\ saver' = [saver EXCEPT ![n] = x] /\ saver[n].pc = "idle" /\ up[n]
      /\ UNCHANGED <<up, starts, users, dirty, file, stale, alone, exposed>>
  BY DEF AutoSaveTick
<1> HIDE DEF x
<1> QED
  BY <1>1, <1>2, <1>3, OneMoves DEF SourceInv

\* A save takes its copy.
LEMMA MarshalFacts ==
    ASSUME SourceInv, NEW s \in Saver, Marshal(s)
    PROVE  /\ saver' \in [Saver -> SaverRecord]
           /\ saver[s].pc = "marshal" /\ saver'[s].pc = "open"
           /\ saver'[s].name = saver[s].name /\ saver'[s].home = saver[s].home
           /\ saver'[s].data = users[saver[s].home]
           /\ \A q \in Saver \ {s} : saver'[q] = saver[q]
           /\ UNCHANGED <<up, starts, users, file, stale>>
           /\ alone' = IF Saving = {} THEN s ELSE None
           /\ exposed' = (exposed \/ Saving # {} \/ stale[saver[s].home])
           /\ dirty' \in [Node -> BOOLEAN] /\ exposed' \in BOOLEAN
<1> DEFINE n == saver[s].home
           x == [saver[s] EXCEPT !.pc = "open", !.data = users[n]]
<1>1. /\ saver[s].pc = "marshal" /\ saver[s] \in SaverRecord /\ n \in Node
      /\ users[n] \in Accounts /\ dirty \in [Node -> BOOLEAN] /\ stale[n] \in BOOLEAN
      /\ exposed \in BOOLEAN
  BY SaverTypes, SaverIsUp DEF SourceInv, Marshal, Busy, StoreTypeOK
<1>2. /\ x \in SaverRecord /\ x.pc = "open" /\ x.name = saver[s].name /\ x.home = n
      /\ x.data = users[n]
  BY <1>1 DEF SaverRecord, SaverPC
<1>3. /\ saver' = [saver EXCEPT ![s] = x]
      /\ UNCHANGED <<up, starts, users, file, stale>>
      /\ alone' = IF Saving = {} THEN s ELSE None
      /\ exposed' = (exposed \/ Saving # {} \/ stale[n])
      /\ dirty' = [dirty EXCEPT ![n] = FALSE]
  BY DEF Marshal
<1> HIDE DEF x
<1> QED
  BY <1>1, <1>2, <1>3, OneMoves DEF SourceInv

\* The file is truncated.
LEMMA OpenFacts ==
    ASSUME SourceInv, NEW s \in Saver, SaveOpen(s)
    PROVE  /\ saver' \in [Saver -> SaverRecord]
           /\ saver[s].pc = "open" /\ saver'[s].pc = "write"
           /\ saver'[s].name = saver[s].name /\ saver'[s].home = saver[s].home
           /\ saver'[s].data = saver[s].data
           /\ \A q \in Saver \ {s} : saver'[q] = saver[q]
           /\ UNCHANGED <<up, starts, users, dirty, alone, exposed>>
           /\ file' = Truncated /\ file' \in File /\ file' # None /\ file'.head = None
           /\ stale' \in [Node -> BOOLEAN]
<1> DEFINE x == [saver[s] EXCEPT !.pc = "write"]
<1>1. saver[s].pc = "open" /\ saver[s] \in SaverRecord
      /\ up \in [Node -> BOOLEAN] /\ stale \in [Node -> BOOLEAN]
  BY SaverTypes DEF SourceInv, SaveOpen, StoreTypeOK
<1>2. /\ x \in SaverRecord /\ x.pc = "write" /\ x.name = saver[s].name
      /\ x.home = saver[s].home /\ x.data = saver[s].data
  BY <1>1 DEF SaverRecord, SaverPC
<1>3. /\ saver' = [saver EXCEPT ![s] = x] /\ file' = Truncated
      /\ UNCHANGED <<up, starts, users, dirty, alone, exposed>>
      /\ stale' = [n \in Node |-> stale[n] \/ (up[n] /\ n # saver[s].home)]
  BY DEF SaveOpen
<1>4. Truncated \in File /\ Truncated.head = None /\ Truncated # None
  BY StoreDataAssumption DEF Truncated, File
<1>5. stale' \in [Node -> BOOLEAN]
  BY <1>1, <1>3
<1> HIDE DEF x
<1> QED
  BY <1>1, <1>2, <1>3, <1>4, <1>5, OneMoves DEF SourceInv

\* What the other nodes have read is out of date.
LEMMA OpenOutdates ==
    ASSUME SourceInv, NEW s \in Saver, SaveOpen(s), NEW m \in Node
    PROVE  (stale[m] => stale'[m]) /\ (up[m] /\ m # saver[s].home => stale'[m])
<1>1. stale' = [n \in Node |-> stale[n] \/ (up[n] /\ n # saver[s].home)]
  BY DEF SaveOpen
<1>2. stale'[m] = (stale[m] \/ (up[m] /\ m # saver[s].home))
  BY <1>1
<1> QED
  BY <1>2

\* A save ends, well or not.
LEMMA EndFacts ==
    ASSUME SourceInv, NEW s \in Saver, SaveWrite(s) \/ SaveFails(s)
    PROVE  /\ saver' \in [Saver -> SaverRecord]
           /\ saver[s].pc \in {"open", "write"}
           /\ saver'[s].pc = IF s \in Node THEN "idle" ELSE "registered"
           /\ s \notin Node => saver'[s].name = saver[s].name
           /\ saver'[s].home = IF s \in Node THEN s ELSE None
           /\ saver'[s].data = NoAccounts
           /\ \A q \in Saver \ {s} : saver'[q] = saver[q]
           /\ alone' = None
           /\ UNCHANGED <<up, starts, users, dirty, stale>>
           /\ file' \in File \cup {None}
           /\ file # None => file' # None
           /\ file' = file \/ file'.head = None \/ file'.head = saver[s].data
           /\ exposed' \in BOOLEAN
<1> DEFINE x == IF s \in Node THEN Idle(s)
                ELSE [Idle(s) EXCEPT !.pc = "registered", !.name = saver[s].name]
<1>0. StoreTypeOK /\ "registered" \in SaverPC
  BY DEF SourceInv, SaverPC
<1>1. /\ x \in SaverRecord
      /\ x.pc = IF s \in Node THEN "idle" ELSE "registered"
      /\ s \notin Node => x.name = saver[s].name
      /\ x.home = IF s \in Node THEN s ELSE None
      /\ x.data = NoAccounts
  BY <1>0, IdleFacts, IdleNamed
<1>2. /\ saver' = [saver EXCEPT ![s] = x] /\ alone' = None
      /\ UNCHANGED <<up, starts, users, dirty, stale>>
      /\ saver[s].pc \in {"open", "write"}
      /\ exposed' \in {exposed, TRUE}
  BY DEF SaveWrite, SaveFails, Answered
<1>3. exposed \in BOOLEAN /\ file \in File \cup {None} /\ saver[s].data \in Accounts
  BY <1>0, SaverTypes DEF StoreTypeOK
<1>4. CASE saver[s].pc = "open"
  <2>1. UNCHANGED file
    BY <1>4 DEF SaveWrite, SaveFails
  <2> HIDE DEF x
  <2> QED
    BY <1>0, <1>1, <1>2, <1>3, <2>1, OneMoves
<1>5. CASE saver[s].pc = "write"
  <2>1. file \in File /\ file # None
    BY <1>3, <1>5 DEF SourceInv, SaversPlaced
  <2>2. \/ file' \in {file, Overwrite(file, saver[s].data)}
        \/ \E length \in 1 .. DocumentLength[saver[s].data] - 1 :
              file' = OverwritePart(file, length)
    BY <1>5 DEF SaveWrite, SaveFails
  <2>3. /\ file' \in File /\ file' # None
        /\ file' = file \/ file'.head = None \/ file'.head = saver[s].data
    BY <1>3, <2>1, <2>2, OverwriteFacts
  <2> HIDE DEF x
  <2> QED
    BY <1>0, <1>1, <1>2, <1>3, <2>1, <2>3, OneMoves
<1> QED
  BY <1>2, <1>4, <1>5

\* The end of a process cuts off what its node was doing.
LEMMA DieFacts ==
    ASSUME SourceInv, NEW n \in Node, Die(n)
    PROVE  /\ saver' \in [Saver -> SaverRecord]
           /\ \A s \in Saver : saver[s].home # n => saver'[s] = saver[s]
           /\ \A s \in Saver : saver[s].home = n =>
                 /\ saver'[s].pc = IF s \in Node THEN "idle" ELSE "lost"
                 /\ s \in Request => saver[s].pc \in Busy /\ saver'[s].name = saver[s].name
                 /\ saver'[s].home = IF s \in Node THEN s ELSE None
                 /\ saver'[s].data = NoAccounts
           /\ users' \in [Node -> Accounts] /\ users'[n] = NoAccounts
           /\ \A m \in Node \ {n} : users'[m] = users[m] /\ up'[m] = up[m]
                                    /\ stale'[m] = stale[m]
           /\ ~up'[n] /\ UNCHANGED <<starts, file>>
<1>1. /\ StoreTypeOK /\ "lost" \in SaverPC
  BY DEF SourceInv, SaverPC
<1>2. \A s \in Saver :
        /\ saver[s].home # n => Cut(s, n) = saver[s]
        /\ saver[s].home = n =>
             /\ Cut(s, n) \in SaverRecord
             /\ Cut(s, n).pc = IF s \in Node THEN "idle" ELSE "lost"
             /\ s \notin Node => Cut(s, n).name = saver[s].name
             /\ Cut(s, n).home = IF s \in Node THEN s ELSE None
             /\ Cut(s, n).data = NoAccounts
  <2> TAKE s \in Saver
  <2>1. CASE saver[s].home # n
    BY <2>1 DEF Cut
  <2>2. CASE saver[s].home = n /\ s \in Node
    BY <2>2, IdleFacts DEF Cut
  <2>3. CASE saver[s].home = n /\ s \notin Node
    <3>1. Cut(s, n) = [Idle(s) EXCEPT !.pc = "lost", !.name = saver[s].name]
      BY <2>3 DEF Cut
    <3> DEFINE x == [Idle(s) EXCEPT !.pc = "lost", !.name = saver[s].name]
    <3>2. /\ x \in SaverRecord /\ x.pc = "lost" /\ x.name = saver[s].name
          /\ x.data = NoAccounts /\ x.home = IF s \in Node THEN s ELSE None
      BY <1>1, IdleNamed
    <3> HIDE DEF x
    <3> QED
      BY <2>3, <3>1, <3>2 DEF x
  <2> QED
    BY <2>1, <2>2, <2>3
<1>3. saver' = [s \in Saver |-> Cut(s, n)]
  BY DEF Die
<1>4. \A s \in Saver : saver'[s] = Cut(s, n) /\ saver'[s] \in SaverRecord
  BY <1>1, <1>2, <1>3, SaverTypes
<1>5. \A s \in Request : saver[s].home = n => saver[s].pc \in Busy
  BY SaversDiffer DEF SourceInv, SaversPlaced
<1>6. /\ users \in [Node -> Accounts] /\ up \in [Node -> BOOLEAN] /\ stale \in [Node -> BOOLEAN]
      /\ users' = [users EXCEPT ![n] = NoAccounts]
      /\ up' = [up EXCEPT ![n] = FALSE] /\ stale' = [stale EXCEPT ![n] = FALSE]
      /\ UNCHANGED <<starts, file>>
  BY <1>1 DEF Die, StoreTypeOK
<1>7. saver' \in [Saver -> SaverRecord]
  BY <1>3, <1>4
<1> HIDE DEF Cut
<1> QED
  BY <1>2, <1>4, <1>5, <1>6, <1>7, IdleFacts, SaversDiffer

-----------------------------------------------------------------------------
(***************************************************************************)
(* The first part of StoreInv: types, who is where, and that accounts come *)
(* from registrations.                                                     *)
(***************************************************************************)

\* The records are those of StoreTypeOK.
LEMMA RecordsTyped ==
    ASSUME saver' \in [Saver -> SaverRecord]
    PROVE  saver' \in [Saver -> [pc : SaverPC, name : User \cup {None},
                                 home : Node \cup {None}, data : Accounts]]
  BY DEF SaverRecord

\* SaversPlaced speaks of each saver by itself.
PlacedIn(s, x) ==
    /\ s \in Node => x.pc \in Busy \cup {"idle"} /\ x.home = s
    /\ s \in Request => /\ x.pc # "idle" => x.name \in User
                        /\ IF x.pc \in Busy THEN x.home \in Node ELSE x.home = None

\* SaversPlaced in these terms.
LEMMA PlacedSplit ==
    SaversPlaced <=> /\ \A s \in Saver : PlacedIn(s, saver[s])
                     /\ \A s \in Saver : saver[s].pc \in Busy => up[saver[s].home]
                     /\ \A s \in Saver : saver[s].pc = "write" => file # None
  BY SaversDiffer DEF SaversPlaced, PlacedIn, Saver

\* The same after a step.
LEMMA PlacedNext ==
    ASSUME \A s \in Saver : PlacedIn(s, saver'[s]),
           \A s \in Saver : saver'[s].pc \in Busy => up'[saver'[s].home],
           \A s \in Saver : saver'[s].pc = "write" => file' # None
    PROVE  SaversPlaced'
  BY SaversDiffer DEF SaversPlaced, PlacedIn, Saver

\* NewUserStore takes over what the file says.
LEMMA StartSource ==
    ASSUME SourceInv, NEW n \in Node, Start(n)
    PROVE  SourceInv'
<1>1. starts' \in 0 .. MaxStarts
  <2>1. starts \in 0 .. MaxStarts /\ starts < MaxStarts /\ starts' = starts + 1
    BY DEF SourceInv, StoreTypeOK, Start
  <2> QED
    BY <2>1, MaxStartsAssumption
<1>2. PICK outdated \in BOOLEAN, accounts \in {Loaded(file), NoAccounts} :
         /\ users' = [users EXCEPT ![n] = accounts]
         /\ stale' = [stale EXCEPT ![n] = outdated]
  BY DEF Start
<1>3. /\ accounts \in Accounts /\ users \in [Node -> Accounts] /\ stale \in [Node -> BOOLEAN]
      /\ up \in [Node -> BOOLEAN] /\ up' = [up EXCEPT ![n] = TRUE]
      /\ UNCHANGED <<dirty, file, saver, alone, exposed>>
  BY LoadedFacts, IdleFacts DEF SourceInv, StoreTypeOK, Start
<1>4. /\ users' \in [Node -> Accounts] /\ stale' \in [Node -> BOOLEAN]
      /\ up' \in [Node -> BOOLEAN]
  BY <1>2, <1>3
<1>5. StoreTypeOK'
  BY <1>1, <1>3, <1>4 DEF SourceInv, StoreTypeOK
<1>6. SaversPlaced'
  BY <1>3 DEF SourceInv, SaversPlaced
<1>7. \A m \in Node : users'[m] \in {users[m], NoAccounts, Loaded(file)}
  BY <1>2, <1>3
<1> QED
  BY <1>3, <1>5, <1>6, <1>7, SourceStep

\* The end of the process loses the map and cuts requests off; what they were
\* granted remains in the file or is forgotten.
LEMMA DieSource ==
    ASSUME SourceInv, NEW n \in Node, Die(n)
    PROVE  SourceInv'
<1>1. \A r \in Request : GrantedIn(saver', r) = GrantedIn(saver, r)
  BY DieFacts, SaversDiffer DEF GrantedIn, Busy
<1>2. StoreTypeOK'
  <2>1. /\ up' \in [Node -> BOOLEAN] /\ dirty' \in [Node -> BOOLEAN]
        /\ stale' \in [Node -> BOOLEAN] /\ alone' \in Saver \cup {None}
        /\ exposed' \in BOOLEAN /\ starts' \in 0 .. MaxStarts
        /\ file' \in File \cup {None}
    BY DEF Die, SourceInv, StoreTypeOK
  <2> QED
    BY <2>1, DieFacts, RecordsTyped DEF StoreTypeOK
<1>3. SaversPlaced'
  <2>1. \A s \in Saver : PlacedIn(s, saver[s])
    BY PlacedSplit DEF SourceInv
  <2>2. \A s \in Saver : PlacedIn(s, saver'[s])
    BY <2>1, DieFacts, SaversDiffer DEF PlacedIn, Busy
  <2>3. \A s \in Saver : saver'[s].pc \in Busy => saver'[s] = saver[s] /\ saver[s].home # n
    BY DieFacts DEF Busy
  <2>4. \A s \in Saver : saver'[s].pc \in Busy => up'[saver'[s].home]
    BY <2>3, DieFacts, SaverIsUp
  <2>5. \A s \in Saver : saver'[s].pc = "write" => file' # None
    BY <2>3, DieFacts DEF SourceInv, SaversPlaced, Busy
  <2> QED
    BY <2>2, <2>4, <2>5, PlacedNext
<1>4. \A m \in Node : users'[m] \in {users[m], NoAccounts, Loaded(file)}
  BY DieFacts
<1>5. \A s \in Saver : saver'[s].data \in {saver[s].data, NoAccounts}
  BY DieFacts
<1> QED
  BY <1>1, <1>2, <1>3, <1>4, <1>5, DieFacts, SourceStep

\* RegisterUser: what it grants, nobody had granted.
LEMMA RegisterSource ==
    ASSUME SourceInv, NEW r \in Request, NEW n \in Node, NEW u \in User,
           RegisterUser(r, n, u)
    PROVE  /\ SourceInv'
           /\ GrantedIn(saver, r) = None
           /\ GrantedIn(saver', r) = IF users[n][u] = None THEN u ELSE None
           /\ \A q \in Request \ {r} : GrantedIn(saver', q) = GrantedIn(saver, q)
<1>0. /\ saver[r].pc = "idle" /\ saver'[r].name = u /\ saver'[r].data = saver[r].data
      /\ \A q \in Saver \ {r} : saver'[q] = saver[q]
      /\ up[n] /\ UNCHANGED <<up, starts, file, stale, alone, exposed>>
      /\ \A m \in Node \ {n} : users'[m] = users[m]
      /\ \/ /\ users[n][u] = None /\ saver'[r].pc = "marshal" /\ saver'[r].home = n
            /\ users'[n] = [users[n] EXCEPT ![u] = r]
         \/ /\ users[n][u] # None /\ saver'[r].pc = "taken" /\ saver'[r].home = None
            /\ users' = users
  BY RegisterFacts
<1>1. r \in Saver /\ StoreTypeOK /\ users \in [Node -> Accounts]
  BY SaversDiffer DEF SourceInv, StoreTypeOK
<1>2. StoreTypeOK'
  <2>1. /\ saver' \in [Saver -> SaverRecord]
        /\ users' \in [Node -> Accounts] /\ dirty' \in [Node -> BOOLEAN]
        /\ UNCHANGED <<up, starts, file, stale, alone, exposed>>
    BY RegisterFacts
  <2>2. /\ up' \in [Node -> BOOLEAN] /\ starts' \in 0 .. MaxStarts
        /\ file' \in File \cup {None} /\ stale' \in [Node -> BOOLEAN]
        /\ alone' \in Saver \cup {None} /\ exposed' \in BOOLEAN
    BY <1>1, <2>1 DEF StoreTypeOK
  <2> QED
    BY <2>1, <2>2, RecordsTyped DEF StoreTypeOK
<1>3. SaversPlaced'
  <2>1. \A s \in Saver : PlacedIn(s, saver[s])
    BY PlacedSplit DEF SourceInv
  <2>2. \A s \in Saver : PlacedIn(s, saver'[s])
    <3>1. PlacedIn(r, saver'[r])
      <4>1. r \in Request /\ r \notin Node
        BY SaversDiffer
      <4>2. /\ saver'[r].name = u
            /\ \/ saver'[r].pc = "marshal" /\ saver'[r].home = n
               \/ saver'[r].pc = "taken" /\ saver'[r].home = None
        BY <1>0
      <4> QED
        BY <4>1, <4>2 DEF PlacedIn, Busy
    <3>2. \A s \in Saver \ {r} : PlacedIn(s, saver'[s])
      BY <2>1, <1>0
    <3> QED
      BY <3>1, <3>2
  <2>3. \A s \in Saver : saver'[s].pc \in Busy => up'[saver'[s].home]
    BY <1>0, SaverIsUp DEF Busy
  <2>4. \A s \in Saver : saver'[s].pc = "write" => file' # None
    BY <1>0 DEF SourceInv, SaversPlaced
  <2> QED
    BY <2>2, <2>3, <2>4, PlacedNext
<1>4. /\ GrantedIn(saver, r) = None
      /\ GrantedIn(saver', r) = IF users[n][u] = None THEN u ELSE None
      /\ \A q \in Request \ {r} : GrantedIn(saver', q) = GrantedIn(saver, q)
  BY <1>0, SaversDiffer DEF GrantedIn
<1>5. \A accounts \in Accounts : RegisteredIn(saver, accounts) => RegisteredIn(saver', accounts)
  BY <1>4, RegisteredStable
<1>6. ASSUME NEW m \in Node PROVE RegisteredIn(saver', users'[m])
  <2>1. users[m] \in Accounts /\ RegisteredIn(saver', users[m])
    BY <1>1, <1>5, GrantedSplit DEF SourceInv
  <2>2. CASE m = n /\ users[n][u] = None
    <3>1. users'[m] = [users[m] EXCEPT ![u] = r] /\ GrantedIn(saver', r) = u
      BY <1>4, <2>2, <1>0
    <3> QED
      BY <2>1, <3>1 DEF RegisteredIn, Accounts
  <2>3. CASE ~(m = n /\ users[n][u] = None)
    BY <2>1, <2>3, <1>0
  <2> QED
    BY <2>2, <2>3
<1>7. \A s \in Saver : RegisteredIn(saver', saver'[s].data)
  <2>1. \A s \in Saver : saver'[s].data = saver[s].data
    BY <1>0
  <2> QED
    BY <1>1, <1>5, <2>1, SaverTypes, GrantedSplit DEF SourceInv
<1>8. file' # None => file'.head = None \/ RegisteredIn(saver', file'.head)
  BY <1>5, GrantedSplit, <1>0 DEF SourceInv, StoreTypeOK, File
<1> QED
  BY <1>2, <1>3, <1>4, <1>6, <1>7, <1>8, GrantedNext DEF SourceInv

\* A save under way moves on, or a tick of the auto-save goroutine begins one:
\* nothing is granted or taken back.
LEMMA SaverMoves ==
    ASSUME SourceInv, NEW s \in Saver,
           saver' \in [Saver -> SaverRecord],
           \A q \in Saver \ {s} : saver'[q] = saver[q],
           UNCHANGED <<up, starts, users>>,
           dirty' \in [Node -> BOOLEAN], stale' \in [Node -> BOOLEAN],
           alone' \in Saver \cup {None}, exposed' \in BOOLEAN,
           s \in Node => saver'[s].pc \in Busy \cup {"idle"} /\ saver'[s].home = s,
           s \in Request => /\ saver[s].pc \in Busy
                            /\ saver'[s].pc \in Busy \cup {"registered"}
                            /\ saver'[s].name = saver[s].name
                            /\ saver'[s].home = IF saver'[s].pc \in Busy
                                                THEN saver[s].home ELSE None,
           saver'[s].pc \in Busy => up[saver'[s].home],
           \/ saver'[s].data \in {saver[s].data, NoAccounts}
           \/ \E n \in Node : saver'[s].data = users[n],
           file' \in File \cup {None},
           file # None \/ saver'[s].pc = "write" => file' # None,
           file' = file \/ file'.head = None \/ file'.head = saver[s].data
    PROVE  SourceInv' /\ \A r \in Request : GrantedIn(saver', r) = GrantedIn(saver, r)
<1>1. StoreTypeOK'
  BY RecordsTyped DEF SourceInv, StoreTypeOK
<1>2. SaversPlaced'
  <2>1. \A q \in Saver : PlacedIn(q, saver[q])
    BY PlacedSplit DEF SourceInv
  <2>2. \A q \in Saver : PlacedIn(q, saver'[q])
    BY <2>1, SaversDiffer DEF PlacedIn, Busy
  <2>3. \A q \in Saver : saver'[q].pc \in Busy => up'[saver'[q].home]
    BY SaverIsUp
  <2>4. \A q \in Saver : saver'[q].pc = "write" => file' # None
    BY DEF SourceInv, SaversPlaced
  <2> QED
    BY <2>2, <2>3, <2>4, PlacedNext
<1>3. \A r \in Request : GrantedIn(saver', r) = GrantedIn(saver, r)
  BY SaversDiffer DEF GrantedIn, Busy
<1>4. \A q \in Saver : \/ saver'[q].data \in {saver[q].data, NoAccounts}
                       \/ \E n \in Node : saver'[q].data = users[n]
  OBVIOUS
<1> QED
  BY <1>1, <1>2, <1>3, <1>4, SourceStep

\* autoSaveLoop and the parts of SaveToFile.
LEMMA SaveSource ==
    ASSUME SourceInv,
           (\E n \in Node : AutoSaveTick(n)) \/ \E s \in Saver : SaveStep(s)
    PROVE  SourceInv' /\ \A r \in Request : GrantedIn(saver', r) = GrantedIn(saver, r)
<1>0. /\ dirty \in [Node -> BOOLEAN] /\ stale \in [Node -> BOOLEAN]
      /\ alone \in Saver \cup {None} /\ exposed \in BOOLEAN /\ file \in File \cup {None}
      /\ \A s \in Saver : saver[s].pc = "write" => file # None
  BY DEF SourceInv, StoreTypeOK, SaversPlaced
<1>1. ASSUME NEW n \in Node, AutoSaveTick(n)
      PROVE  SourceInv' /\ \A r \in Request : GrantedIn(saver', r) = GrantedIn(saver, r)
  <2>1. n \in Saver /\ n \notin Request
    BY SaversDiffer
  <2>2. saver'[n].pc \in Busy /\ saver'[n].pc # "write"
    BY <1>1, TickFacts DEF Busy
  <2> QED
    BY <1>0, <1>1, <2>1, <2>2, TickFacts, SaverMoves
<1>2. ASSUME NEW s \in Saver, Marshal(s)
      PROVE  SourceInv' /\ \A r \in Request : GrantedIn(saver', r) = GrantedIn(saver, r)
  <2>1. /\ saver[s].pc \in Busy /\ saver'[s].pc \in Busy /\ saver'[s].pc # "write"
    BY <1>2, MarshalFacts DEF Busy
  <2>2. saver[s].home \in Node /\ up[saver[s].home] /\ (s \in Node => saver[s].home = s)
    BY <2>1, SaverIsUp
  <2>3. alone' \in Saver \cup {None}
    BY <1>2, MarshalFacts
  <2> QED
    BY <1>0, <1>2, <2>1, <2>2, <2>3, MarshalFacts, SaverMoves
<1>3. ASSUME NEW s \in Saver, SaveOpen(s)
      PROVE  SourceInv' /\ \A r \in Request : GrantedIn(saver', r) = GrantedIn(saver, r)
  <2>1. saver[s].pc \in Busy /\ saver'[s].pc \in Busy
    BY <1>3, OpenFacts DEF Busy
  <2>2. saver[s].home \in Node /\ up[saver[s].home] /\ (s \in Node => saver[s].home = s)
    BY <2>1, SaverIsUp
  <2> QED
    BY <1>0, <1>3, <2>1, <2>2, OpenFacts, SaverMoves
<1>4. ASSUME NEW s \in Saver, SaveWrite(s) \/ SaveFails(s)
      PROVE  SourceInv' /\ \A r \in Request : GrantedIn(saver', r) = GrantedIn(saver, r)
  <2>1. /\ saver[s].pc \in Busy /\ saver'[s].pc \notin Busy
        /\ s \in Node => saver'[s].pc = "idle"
        /\ s \in Request => saver'[s].pc = "registered" /\ s \notin Node
        /\ saver'[s].pc # "write"
    BY <1>4, EndFacts, SaversDiffer DEF Busy
  <2> QED
    BY <1>0, <1>4, <2>1, EndFacts, SaverMoves
<1> QED
  BY <1>1, <1>2, <1>3, <1>4 DEF SaveStep

-----------------------------------------------------------------------------
(***************************************************************************)
(* The second part of StoreInv: what nodes and savers know whatever has    *)
(* happened.                                                               *)
(***************************************************************************)
KnownInv == OwnAccountsKnown /\ OthersStale /\ LoneSave

\* A saver between its copy and its answer is busy.
LEMMA SavingIsBusy ==
    \A s \in Saver : (s \in Saving <=> saver[s].pc \in {"open", "write"})
                     /\ (s \in Saving => saver[s].pc \in Busy)
  BY DEF Saving, Busy

\* A node that starts has no savers, and reads a file that is out of date if it
\* is being written.
LEMMA StartKnown ==
    ASSUME SourceInv, KnownInv, NEW n \in Node, Start(n)
    PROVE  KnownInv'
<1>1. PICK outdated \in BOOLEAN, accounts \in {Loaded(file), NoAccounts} :
         /\ Reads(accounts, outdated)
         /\ users' = [users EXCEPT ![n] = accounts]
         /\ stale' = [stale EXCEPT ![n] = outdated]
  BY DEF Start
<1>2. /\ ~up[n] /\ up' = [up EXCEPT ![n] = TRUE] /\ UNCHANGED <<file, saver, alone>>
      /\ up \in [Node -> BOOLEAN] /\ stale \in [Node -> BOOLEAN]
      /\ users \in [Node -> Accounts]
  BY DEF Start, SourceInv, StoreTypeOK
<1>3. \A s \in Saver : saver[s].pc \in Busy => saver[s].home \in Node \ {n}
  BY <1>2, SaverIsUp
<1>4. /\ \A m \in Node \ {n} : users'[m] = users[m] /\ stale'[m] = stale[m] /\ up'[m] = up[m]
      /\ stale'[n] = outdated
  BY <1>1, <1>2
<1>5. OwnAccountsKnown'
  BY <1>2, <1>3, <1>4, SaversDiffer DEF KnownInv, OwnAccountsKnown
<1>6. OthersStale'
  <2>1. \A s \in Saver : saver[s].pc = "write" => outdated
    BY <1>1, SavingIsBusy DEF Reads
  <2> QED
    BY <1>2, <1>4, <2>1 DEF KnownInv, OthersStale
<1>7. LoneSave'
  <2>1. Saving' = Saving
    BY <1>2 DEF Saving
  <2>2. alone # None => alone \in Saver /\ saver[alone].home \in Node \ {n}
    BY <1>3, SavingIsBusy DEF KnownInv, LoneSave, Saving
  <2> QED
    BY <1>2, <1>4, <2>1, <2>2 DEF KnownInv, LoneSave
<1> QED
  BY <1>5, <1>6, <1>7 DEF KnownInv

\* What remains when a process dies belongs to others.
LEMMA DieKnown ==
    ASSUME SourceInv, KnownInv, NEW n \in Node, Die(n)
    PROVE  KnownInv'
<1>0. /\ \A s \in Saver : saver[s].home # n => saver'[s] = saver[s]
      /\ \A s \in Saver : saver[s].home = n => saver'[s].pc \in {"idle", "lost"}
      /\ \A m \in Node \ {n} : users'[m] = users[m] /\ up'[m] = up[m] /\ stale'[m] = stale[m]
      /\ ~up'[n] /\ UNCHANGED file
  BY DieFacts
<1>1. \A s \in Saver : saver'[s].pc \in Busy => saver'[s] = saver[s] /\ saver[s].home # n
                                                 /\ saver[s].home \in Node
  BY <1>0, SaverIsUp DEF Busy
<1>2. OwnAccountsKnown'
  BY <1>0, <1>1, SaversDiffer DEF KnownInv, OwnAccountsKnown
<1>3. OthersStale'
  BY <1>0, <1>1 DEF KnownInv, OthersStale, Busy
<1>4. LoneSave'
  <2> SUFFICES ASSUME alone' # None PROVE LoneSave'
    BY DEF LoneSave
  <2>1. alone' = alone /\ alone # None /\ saver[alone].home # n
    BY DEF Die
  <2>2. Saving = {alone} /\ alone \in Saver /\ saver[alone].pc \in {"open", "write"}
    BY <2>1 DEF KnownInv, LoneSave, Saving
  <2>3. saver'[alone] = saver[alone]
    BY <1>0, <2>1, <2>2
  <2>4. Saving' = {alone}
    BY <1>1, <2>2, <2>3 DEF Saving, Busy
  <2>5. saver[alone].home \in Node \ {n}
    BY <2>1, <2>2, SaverIsUp DEF Busy
  <2>6. \A r \in Request : saver'[r].pc = "registered" => saver'[r] = saver[r]
    BY <1>0, SaversDiffer
  <2> QED
    BY <1>0, <2>1, <2>2, <2>3, <2>4, <2>5, <2>6 DEF KnownInv, LoneSave
<1> QED
  BY <1>2, <1>3, <1>4 DEF KnownInv

\* A name is entered in the map of one node, where nobody had it.
LEMMA RegisterKnown ==
    ASSUME SourceInv, KnownInv, NEW r \in Request, NEW n \in Node, NEW u \in User,
           RegisterUser(r, n, u)
    PROVE  KnownInv'
<1>0. /\ saver[r].pc = "idle" /\ saver'[r].name = u
      /\ \A q \in Saver \ {r} : saver'[q] = saver[q]
      /\ UNCHANGED <<up, file, stale, alone>>
      /\ \A m \in Node \ {n} : users'[m] = users[m]
      /\ \/ /\ users[n][u] = None /\ saver'[r].pc = "marshal" /\ saver'[r].home = n
            /\ users'[n] = [users[n] EXCEPT ![u] = r]
         \/ /\ users[n][u] # None /\ saver'[r].pc = "taken" /\ saver'[r].home = None
            /\ users' = users
  BY RegisterFacts
<1>1. /\ users \in [Node -> Accounts] /\ r \in Saver /\ r # None
      /\ users[n] \in Accounts
  BY SaversDiffer DEF SourceInv, StoreTypeOK
\* Nobody else's account changes.
<1>2. ASSUME NEW m \in Node, NEW q \in Request, q # r, NEW v \in User
      PROVE  users'[m][v] = q <=> users[m][v] = q
  <2>1. q # None
    BY SaversDiffer
  <2>2. CASE m # n
    BY <1>0, <2>2
  <2>3. CASE m = n
    <3>1. \/ users[n][u] = None /\ users'[n] = [users[n] EXCEPT ![u] = r]
          \/ users' = users
      BY <1>0
    <3> QED
      BY <1>1, <1>2, <2>1, <2>3, <3>1 DEF Accounts
  <2> QED
    BY <2>2, <2>3
<1>3. OwnAccountsKnown'
  <2> SUFFICES ASSUME NEW q \in Request, saver'[q].pc \in Busy
               PROVE  users'[saver'[q].home][saver'[q].name] = q
    BY DEF OwnAccountsKnown
  <2>1. CASE q = r
    BY <1>0, <1>1, <2>1 DEF Busy, Accounts
  <2>2. CASE q # r
    <3>1. q \in Saver /\ saver'[q] = saver[q] /\ saver[q].home \in Node
          /\ saver[q].name \in User
      BY <1>0, <2>2, SaversDiffer, SaverIsUp DEF SourceInv, SaversPlaced, Busy
    <3> QED
      BY <1>2, <2>2, <3>1 DEF KnownInv, OwnAccountsKnown
  <2> QED
    BY <2>1, <2>2
<1>4. OthersStale'
  BY <1>0, <1>1 DEF KnownInv, OthersStale
<1>5. LoneSave'
  <2> SUFFICES ASSUME alone # None PROVE LoneSave'
    BY <1>0 DEF LoneSave
  <2>1. /\ Saving = {alone} /\ alone \in Saver /\ alone # r /\ saver[alone].home \in Node
        /\ saver'[alone] = saver[alone]
    BY <1>0, SavingIsBusy, SaverIsUp DEF KnownInv, LoneSave, Saving
  <2>2. Saving' = Saving
    BY <1>0, <1>1 DEF Saving
  <2>3. ASSUME NEW q \in Request, q = alone \/ saver'[q].pc = "registered",
               users'[saver[alone].home][saver'[q].name] = q
        PROVE  saver[alone].data[saver'[q].name] = q
    <3>1. q # r /\ saver'[q] = saver[q] /\ saver[q].pc # "idle"
      BY <1>0, <2>1, <2>3, SaversDiffer, SavingIsBusy DEF Busy
    <3>2. saver[q].name \in User
      BY <3>1 DEF SourceInv, SaversPlaced
    <3>3. users[saver[alone].home][saver[q].name] = q
      BY <1>2, <2>1, <2>3, <3>1, <3>2
    <3> QED
      BY <2>3, <3>1, <3>3 DEF KnownInv, LoneSave
  <2> QED
    BY <1>0, <2>1, <2>2, <2>3 DEF KnownInv, LoneSave
<1> QED
  BY <1>3, <1>4, <1>5 DEF KnownInv

\* A tick begins a save, which has no copy yet.
LEMMA TickKnown ==
    ASSUME SourceInv, KnownInv, NEW n \in Node, AutoSaveTick(n)
    PROVE  KnownInv'
<1>0. /\ saver[n].pc = "idle" /\ saver'[n].pc = "marshal"
      /\ \A q \in Saver \ {n} : saver'[q] = saver[q]
      /\ UNCHANGED <<up, users, file, stale, alone>>
  BY TickFacts
<1>1. n \in Saver /\ \A r \in Request : saver'[r] = saver[r]
  BY <1>0, SaversDiffer
<1>2. Saving' = Saving /\ n \notin Saving
  BY <1>0, <1>1 DEF Saving
<1>3. OwnAccountsKnown' /\ OthersStale'
  BY <1>0, <1>1 DEF KnownInv, OwnAccountsKnown, OthersStale
<1>4. LoneSave'
  <2>1. alone # None => alone \in Saver \ {n}
    BY <1>2 DEF KnownInv, LoneSave, Saving
  <2> QED
    BY <1>0, <1>1, <1>2, <2>1 DEF KnownInv, LoneSave
<1> QED
  BY <1>3, <1>4 DEF KnownInv

\* A copy has what the map of its node has.
LEMMA MarshalKnown ==
    ASSUME SourceInv, KnownInv, NEW s \in Saver, Marshal(s)
    PROVE  KnownInv'
<1>0. /\ saver[s].pc = "marshal" /\ saver'[s].pc = "open"
      /\ saver'[s].name = saver[s].name /\ saver'[s].home = saver[s].home
      /\ saver'[s].data = users[saver[s].home]
      /\ \A q \in Saver \ {s} : saver'[q] = saver[q]
      /\ UNCHANGED <<up, users, file, stale>>
      /\ alone' = IF Saving = {} THEN s ELSE None
  BY MarshalFacts
<1>1. OwnAccountsKnown'
  BY <1>0, SaversDiffer DEF KnownInv, OwnAccountsKnown, Busy
<1>2. OthersStale'
  BY <1>0 DEF KnownInv, OthersStale
<1>3. LoneSave'
  <2>1. Saving = {} => Saving' = {s}
    BY <1>0 DEF Saving
  <2> QED
    BY <1>0, <2>1, SaversDiffer DEF LoneSave
<1> QED
  BY <1>1, <1>2, <1>3 DEF KnownInv

\* The file is truncated, and the other nodes do not notice.
LEMMA SaveOpenKnown ==
    ASSUME SourceInv, KnownInv, NEW s \in Saver, SaveOpen(s)
    PROVE  KnownInv'
<1>0. /\ saver[s].pc = "open" /\ saver'[s].pc = "write"
      /\ saver'[s].name = saver[s].name /\ saver'[s].home = saver[s].home
      /\ saver'[s].data = saver[s].data
      /\ \A q \in Saver \ {s} : saver'[q] = saver[q]
      /\ UNCHANGED <<up, users, alone>> /\ file' = Truncated
  BY OpenFacts
<1>1. OwnAccountsKnown'
  BY <1>0, SaversDiffer DEF KnownInv, OwnAccountsKnown, Busy
<1>2. OthersStale'
  <2>1. \A m \in Node : /\ stale[m] => stale'[m]
                        /\ up[m] /\ m # saver[s].home => stale'[m]
    BY OpenOutdates
  <2> QED
    BY <1>0, <2>1 DEF KnownInv, OthersStale
<1>3. LoneSave'
  <2>1. Saving' = Saving /\ s \in Saving
    BY <1>0 DEF Saving
  <2>2. alone # None => alone = s
    BY <2>1 DEF KnownInv, LoneSave
  <2> QED
    BY <1>0, <2>1, <2>2, SaversDiffer DEF KnownInv, LoneSave
<1> QED
  BY <1>1, <1>2, <1>3 DEF KnownInv

\* A save that has ended knows nothing and stands for nothing.
LEMMA EndKnown ==
    ASSUME SourceInv, KnownInv, NEW s \in Saver, SaveWrite(s) \/ SaveFails(s)
    PROVE  KnownInv'
<1>0. /\ saver'[s].pc \notin Busy
      /\ \A q \in Saver \ {s} : saver'[q] = saver[q]
      /\ UNCHANGED <<up, users, stale>> /\ alone' = None
  BY EndFacts DEF Busy
<1>1. OwnAccountsKnown' /\ OthersStale' /\ LoneSave'
  BY <1>0, SaversDiffer DEF KnownInv, OwnAccountsKnown, OthersStale, LoneSave, Busy
<1> QED
  BY <1>1 DEF KnownInv

-----------------------------------------------------------------------------
(***************************************************************************)
(* The third part of StoreInv: who is in the maps, in the copies, and in   *)
(* the file, until exposed.                                                *)
(***************************************************************************)
DiskInv == SavesTakeTurns /\ FreshComplete /\ CopyComplete /\ FileComplete

\* Nothing is claimed from then on.
LEMMA ExposedDisk ==
    ASSUME exposed'
    PROVE  DiskInv'
  BY DEF DiskInv, SavesTakeTurns, FreshComplete, CopyComplete, FileComplete

\* A restart finds everybody who was told "registered" in the file, unless the
\* file is being written, or cannot be read, and then the node is out of date.
LEMMA StartDisk ==
    ASSUME SourceInv, DiskInv, NEW n \in Node, Start(n), ~exposed
    PROVE  DiskInv'
<1>1. PICK outdated \in BOOLEAN, accounts \in {Loaded(file), NoAccounts} :
         /\ Reads(accounts, outdated)
         /\ users' = [users EXCEPT ![n] = accounts]
         /\ stale' = [stale EXCEPT ![n] = outdated]
  BY DEF Start
<1>2. /\ up' = [up EXCEPT ![n] = TRUE] /\ UNCHANGED <<file, saver, alone, exposed>>
      /\ up \in [Node -> BOOLEAN] /\ stale \in [Node -> BOOLEAN]
      /\ users \in [Node -> Accounts]
  BY DEF Start, SourceInv, StoreTypeOK
<1>3. Saving' = Saving
  BY <1>2 DEF Saving
<1>4. SavesTakeTurns' /\ CopyComplete' /\ FileComplete'
  BY <1>2, <1>3 DEF DiskInv, SavesTakeTurns, CopyComplete, FileComplete, OnDisk
<1>5. FreshComplete'
  <2> SUFFICES ASSUME NEW m \in Node, up'[m], ~stale'[m],
                      NEW r \in Request, saver[r].pc = "registered"
               PROVE  users'[m][saver[r].name] = r
    BY <1>2 DEF FreshComplete
  <2>1. CASE m = n
    <3>1. accounts = Loaded(file) /\ Saving = {}
      BY <1>1, <1>2, <2>1 DEF Reads
    <3>2. OnDisk(saver[r].name, r)
      BY <3>1 DEF DiskInv, FileComplete, Saving
    <3> QED
      BY <1>1, <1>2, <2>1, <3>1, <3>2 DEF OnDisk, Loaded
  <2>2. CASE m # n
    BY <1>1, <1>2, <2>2 DEF DiskInv, FreshComplete
  <2> QED
    BY <2>1, <2>2
<1> QED
  BY <1>4, <1>5 DEF DiskInv

\* A process that dies between two saves leaves the file whole.
LEMMA DieDisk ==
    ASSUME SourceInv, DiskInv, NEW n \in Node, Die(n), ~exposed'
    PROVE  DiskInv'
<1>0. /\ \A s \in Saver : saver[s].home # n => saver'[s] = saver[s]
      /\ \A s \in Saver : saver[s].home = n => saver'[s].pc \in {"idle", "lost"}
      /\ \A m \in Node \ {n} : users'[m] = users[m] /\ up'[m] = up[m] /\ stale'[m] = stale[m]
      /\ ~up'[n] /\ UNCHANGED file
  BY DieFacts
<1>1. /\ ~exposed /\ \A s \in Saver : saver[s].pc = "write" => saver[s].home # n
      /\ alone' = IF alone # None /\ saver[alone].home = n THEN None ELSE alone
  BY DEF Die
<1>2. \A r \in Request : saver'[r].pc = "registered" => saver'[r] = saver[r]
  BY <1>0, SaversDiffer
<1>3. \A s \in Saver : s \in Saving' => s \in Saving /\ saver'[s] = saver[s]
                                         /\ saver[s].home # n
  BY <1>0 DEF Saving
<1>4. SavesTakeTurns'
  <2>1. Saving' \subseteq Saver
    BY DEF Saving
  <2> QED
    BY <1>1, <1>3, <2>1, SaversDiffer DEF DiskInv, SavesTakeTurns
<1>5. FreshComplete'
  BY <1>0, <1>1, <1>2 DEF DiskInv, FreshComplete
<1>6. CopyComplete'
  <2>1. Saving' \subseteq Saver
    BY DEF Saving
  <2> QED
    BY <1>1, <1>2, <1>3, <2>1 DEF DiskInv, CopyComplete
<1>7. FileComplete'
  <2>1. \A s \in Saver : saver'[s].pc = "write" <=> saver[s].pc = "write"
    BY <1>0, <1>1
  <2> QED
    BY <1>0, <1>1, <1>2, <2>1 DEF DiskInv, FileComplete, OnDisk
<1> QED
  BY <1>4, <1>5, <1>6, <1>7 DEF DiskInv

\* A registration is entered in the map; the copies and the file do not know it
\* yet, nor does its user.
LEMMA RegisterDisk ==
    ASSUME SourceInv, DiskInv, NEW r \in Request, NEW n \in Node, NEW u \in User,
           RegisterUser(r, n, u), ~exposed
    PROVE  DiskInv'
<1>0. /\ saver[r].pc = "idle" /\ saver'[r].pc \in {"marshal", "taken"}
      /\ \A q \in Saver \ {r} : saver'[q] = saver[q]
      /\ UNCHANGED <<up, file, stale, alone, exposed>>
      /\ \A m \in Node \ {n} : users'[m] = users[m]
      /\ \/ users[n][u] = None /\ users'[n] = [users[n] EXCEPT ![u] = r]
         \/ users' = users
  BY RegisterFacts
<1>1. users[n] \in Accounts /\ r \in Saver
  BY SaversDiffer DEF SourceInv, StoreTypeOK
<1>2. Saving' = Saving /\ r \notin Saving
  BY <1>0, <1>1 DEF Saving
<1>3. \A q \in Request : saver'[q].pc = "registered" => q # r /\ saver'[q] = saver[q]
  BY <1>0, SaversDiffer
<1>4. SavesTakeTurns' /\ CopyComplete'
  <2>1. \A s \in Saving : saver'[s] = saver[s]
    BY <1>0, <1>2 DEF Saving
  <2> QED
    BY <1>0, <1>2, <1>3, <2>1 DEF DiskInv, SavesTakeTurns, CopyComplete
<1>5. FileComplete'
  <2>1. \A s \in Saver : saver'[s].pc = "write" <=> saver[s].pc = "write"
    BY <1>0
  <2> QED
    BY <1>0, <1>3, <2>1 DEF DiskInv, FileComplete, OnDisk
<1>6. FreshComplete'
  <2> SUFFICES ASSUME NEW m \in Node, up[m], ~stale[m],
                      NEW q \in Request, saver'[q].pc = "registered"
               PROVE  users'[m][saver'[q].name] = q
    BY <1>0 DEF FreshComplete
  <2>1. saver'[q] = saver[q] /\ users[m][saver[q].name] = q /\ q # None
    BY <1>3, SaversDiffer DEF DiskInv, FreshComplete
  <2>2. saver[q].name \in User
    BY <1>3, <2>1 DEF SourceInv, SaversPlaced
  <2> QED
    BY <1>0, <1>1, <2>1, <2>2 DEF Accounts
<1> QED
  BY <1>4, <1>5, <1>6 DEF DiskInv

\* A tick of autoSaveLoop only begins a save.
LEMMA TickDisk ==
    ASSUME SourceInv, DiskInv, NEW n \in Node, AutoSaveTick(n), ~exposed
    PROVE  DiskInv'
<1>0. /\ saver[n].pc = "idle" /\ saver'[n].pc = "marshal"
      /\ \A q \in Saver \ {n} : saver'[q] = saver[q]
      /\ UNCHANGED <<up, users, file, stale, alone, exposed>>
  BY TickFacts
<1>1. n \in Saver /\ \A r \in Request : saver'[r] = saver[r]
  BY <1>0, SaversDiffer
<1>2. Saving' = Saving /\ \A s \in Saving : saver'[s] = saver[s]
  BY <1>0, <1>1 DEF Saving
<1>3. \A s \in Saver : saver'[s].pc = "write" <=> saver[s].pc = "write"
  BY <1>0
<1> QED
  BY <1>0, <1>1, <1>2, <1>3
     DEF DiskInv, SavesTakeTurns, FreshComplete, CopyComplete, FileComplete, OnDisk

\* A copy is made at a node that is not out of date, while no other save is
\* under way: it has everybody.
LEMMA MarshalDisk ==
    ASSUME SourceInv, DiskInv, NEW s \in Saver, Marshal(s), ~exposed'
    PROVE  DiskInv'
<1>0. /\ saver[s].pc = "marshal" /\ saver'[s].pc = "open"
      /\ saver'[s].data = users[saver[s].home]
      /\ \A q \in Saver \ {s} : saver'[q] = saver[q]
      /\ UNCHANGED <<up, users, file, stale>>
      /\ alone' = IF Saving = {} THEN s ELSE None
      /\ ~exposed /\ Saving = {} /\ ~stale[saver[s].home]
  BY MarshalFacts
<1>1. saver[s].home \in Node /\ up[saver[s].home]
  BY <1>0, SaverIsUp DEF Busy
<1>2. \A r \in Request : saver'[r].pc = "registered" => saver'[r] = saver[r]
  BY <1>0, SaversDiffer
<1>3. Saving' = {s}
  BY <1>0 DEF Saving
<1>4. SavesTakeTurns' /\ FreshComplete'
  BY <1>0, <1>2, <1>3 DEF DiskInv, SavesTakeTurns, FreshComplete
<1>5. CopyComplete'
  BY <1>0, <1>1, <1>2, <1>3 DEF DiskInv, FreshComplete, CopyComplete
<1>6. FileComplete'
  <2>1. \A q \in Saver : saver[q].pc # "write" /\ saver'[q].pc # "write"
    BY <1>0 DEF Saving
  <2> QED
    BY <1>0, <1>2, <2>1 DEF DiskInv, FileComplete, OnDisk
<1> QED
  BY <1>4, <1>5, <1>6 DEF DiskInv

\* os.WriteFile truncates the file: the only copy under way has everybody.
LEMMA SaveOpenDisk ==
    ASSUME SourceInv, DiskInv, NEW s \in Saver, SaveOpen(s), ~exposed
    PROVE  DiskInv'
<1>0. /\ saver[s].pc = "open" /\ saver'[s].pc = "write"
      /\ saver'[s].data = saver[s].data /\ saver'[s].name = saver[s].name
      /\ \A q \in Saver \ {s} : saver'[q] = saver[q]
      /\ UNCHANGED <<up, users, alone, exposed>> /\ file' = Truncated
  BY OpenFacts
<1>1. Saving' = Saving
  BY <1>0 DEF Saving
<1>2. \A r \in Request : saver'[r].pc = "registered" => saver'[r] = saver[r]
  BY <1>0, SaversDiffer
<1>3. SavesTakeTurns' /\ CopyComplete'
  <2>1. \A q \in Saving : saver'[q].data = saver[q].data
    BY <1>0 DEF Saving
  <2> QED
    BY <1>0, <1>1, <1>2, <2>1 DEF DiskInv, SavesTakeTurns, CopyComplete
<1>4. FreshComplete'
  <2>1. \A m \in Node : stale[m] => stale'[m]
    BY OpenOutdates
  <2> QED
    BY <1>0, <1>2, <2>1 DEF DiskInv, FreshComplete
<1>5. FileComplete'
  BY <1>0 DEF FileComplete
<1> QED
  BY <1>3, <1>4, <1>5 DEF DiskInv

\* The copy is written over the empty file, which parses again; and of the nodes
\* only the one that saved is not out of date.
LEMMA SaveWriteDisk ==
    ASSUME SourceInv, KnownInv, DiskInv, NEW s \in Saver, SaveWrite(s), ~exposed
    PROVE  DiskInv'
<1> DEFINE data == saver[s].data
           n == saver[s].home
<1>0. /\ saver[s].pc = "write" /\ saver'[s].pc \in {"idle", "registered"}
      /\ s \notin Node => saver'[s].name = saver[s].name
      /\ s \in Node => saver'[s].pc = "idle"
      /\ \A q \in Saver \ {s} : saver'[q] = saver[q]
      /\ UNCHANGED <<up, users, stale, exposed>>
      /\ file' = Overwrite(file, data)
  BY EndFacts DEF SaveWrite
<1>1. n \in Node /\ up[n]
  BY <1>0, SaverIsUp DEF Busy
<1>2. s \in Saving /\ Saving = {alone} /\ alone = s /\ s # None
  <2>1. s \in Saving
    BY <1>0 DEF Saving
  <2> QED
    BY <2>1, SaversDiffer DEF DiskInv, SavesTakeTurns
<1>3. Saving' = {} /\ \A q \in Saver : saver'[q].pc # "write"
  BY <1>0, <1>2 DEF Saving
<1>4. file = Truncated /\ data \in Accounts
  BY <1>0, SaverTypes DEF DiskInv, FileComplete, SourceInv
<1>5. file' # None /\ Parses(file') /\ file'.head = data
  <2>1. Truncated \in File
    BY DEF Truncated, File
  <2> QED
    BY <1>0, <1>4, <2>1, OverwriteFacts, WrittenParses
<1>6. \A r \in Request : saver'[r].pc = "registered" /\ r # s =>
         /\ saver'[r] = saver[r]
         /\ data[saver[r].name] = r
  BY <1>0, <1>2, SaversDiffer DEF DiskInv, CopyComplete
<1>7. s \in Request => /\ saver'[s].name = saver[s].name
                       /\ users[n][saver[s].name] = s
                       /\ data[saver[s].name] = s
  <2>1. s \in Request => users[n][saver[s].name] = s
    BY <1>0 DEF KnownInv, OwnAccountsKnown, Busy
  <2> QED
    BY <1>0, <1>2, <2>1, SaversDiffer DEF KnownInv, LoneSave
<1>8. FileComplete'
  BY <1>3, <1>5, <1>6, <1>7 DEF FileComplete, OnDisk
<1>9. FreshComplete'
  <2> SUFFICES ASSUME NEW m \in Node, up[m], ~stale[m],
                      NEW r \in Request, saver'[r].pc = "registered"
               PROVE  users[m][saver'[r].name] = r
    BY <1>0 DEF FreshComplete
  <2>1. m = n
    BY <1>0 DEF KnownInv, OthersStale
  <2>2. CASE r = s
    BY <1>7, <2>1, <2>2
  <2>3. CASE r # s
    BY <1>6, <2>3 DEF DiskInv, FreshComplete
  <2> QED
    BY <2>2, <2>3
<1> QED
  BY <1>3, <1>8, <1>9 DEF DiskInv, SavesTakeTurns, CopyComplete

-----------------------------------------------------------------------------
\* The three parts.
LEMMA StoreInvSplit == StoreInv <=> SourceInv /\ KnownInv /\ DiskInv
  BY DEF StoreInv, SourceInv, KnownInv, DiskInv

\* Before the first start.
LEMMA StoreInitInv ==
    ASSUME StoreInit
    PROVE  SourceInv /\ KnownInv /\ DiskInv
<1>1. /\ \A s \in Saver : saver[s] = Idle(s) /\ saver[s].pc = "idle"
                          /\ saver[s].data = NoAccounts
                          /\ saver[s].home = IF s \in Node THEN s ELSE None
      /\ alone = None /\ file = None
      /\ \A n \in Node : ~up[n] /\ users[n] = NoAccounts
  BY IdleFacts DEF StoreInit
<1>2. StoreTypeOK
  <2>1. saver \in [Saver -> [pc : SaverPC, name : User \cup {None},
                             home : Node \cup {None}, data : Accounts]]
    BY IdleFacts DEF StoreInit, SaverRecord
  <2>2. starts \in 0 .. MaxStarts
    BY MaxStartsAssumption DEF StoreInit
  <2>3. users \in [Node -> Accounts]
    BY IdleFacts DEF StoreInit
  <2> QED
    BY <2>1, <2>2, <2>3 DEF StoreInit, StoreTypeOK
<1>3. AccountsGranted
  BY <1>1, IdleFacts, GrantedSplit
<1>4. SaversPlaced
  BY <1>1, SaversDiffer DEF SaversPlaced, Busy
<1>5. Saving = {}
  BY <1>1 DEF Saving
<1>6. KnownInv
  BY <1>1, SaversDiffer DEF KnownInv, OwnAccountsKnown, OthersStale, LoneSave, Busy
<1>7. DiskInv
  BY <1>1, <1>5, SaversDiffer
     DEF DiskInv, SavesTakeTurns, FreshComplete, CopyComplete, FileComplete
<1> QED
  BY <1>2, <1>3, <1>4, <1>6, <1>7 DEF SourceInv

\* Every step of the stores preserves the three parts.
LEMMA StoreNextInv ==
    ASSUME SourceInv, KnownInv, DiskInv, [StoreNext]_storeVars
    PROVE  SourceInv' /\ KnownInv' /\ DiskInv'
<1>1. CASE UNCHANGED storeVars
  <2>1. SourceInv'
    <3>1. StoreTypeOK'
      BY <1>1 DEF storeVars, SourceInv, StoreTypeOK
    <3>2. AccountsGranted'
      BY <1>1 DEF storeVars, SourceInv, AccountsGranted, Registered, Granted
    <3>3. SaversPlaced'
      BY <1>1 DEF storeVars, SourceInv, SaversPlaced
    <3> QED
      BY <3>1, <3>2, <3>3 DEF SourceInv
  <2>2. KnownInv'
    BY <1>1 DEF storeVars, KnownInv, OwnAccountsKnown, OthersStale, LoneSave, Saving
  <2>3. DiskInv'
    BY <1>1 DEF storeVars, DiskInv, SavesTakeTurns, FreshComplete, CopyComplete,
                FileComplete, OnDisk, Saving
  <2> QED
    BY <2>1, <2>2, <2>3
<1>2. CASE StoreNext
  <2>1. SourceInv'
    BY <1>2, StartSource, DieSource, RegisterSource, SaveSource DEF StoreNext
  <2>2. KnownInv'
    BY <1>2, StartKnown, DieKnown, RegisterKnown, TickKnown, MarshalKnown, SaveOpenKnown,
       EndKnown DEF StoreNext, SaveStep
  <2>3. CASE exposed'
    BY <2>1, <2>2, <2>3, ExposedDisk
  <2>4. CASE ~exposed'
    <3>1. ~exposed
      BY <1>2, <2>4 DEF StoreNext, SaveStep, Start, Die, AutoSaveTick, RegisterUser, Marshal,
                        SaveOpen, SaveWrite, SaveFails
    <3>2. ASSUME NEW s \in Saver, SaveFails(s)
          PROVE  FALSE
      BY <2>4, <3>2 DEF SaveFails
    <3>3. DiskInv'
      BY <1>2, <2>4, <3>1, <3>2, StartDisk, DieDisk, TickDisk, RegisterDisk,
         MarshalDisk, SaveOpenDisk, SaveWriteDisk DEF StoreNext, SaveStep
    <3> QED
      BY <2>1, <2>2, <3>3
  <2> QED
    BY <2>3, <2>4
<1> QED
  BY <1>1, <1>2

\* StoreInv holds in every state of the nodes and the file they share.
THEOREM StoreInvHolds == StoreSpec => []StoreInv
<1>1. StoreInit => SourceInv /\ KnownInv /\ DiskInv
  BY StoreInitInv
<1>2. SourceInv /\ KnownInv /\ DiskInv /\ [StoreNext]_storeVars
      => (SourceInv /\ KnownInv /\ DiskInv)'
  BY StoreNextInv
<1> QED
  BY <1>1, <1>2, StoreInvSplit, PTL DEF StoreSpec

\* A user who was told "registered" is in the file or in the copy being written
\* over it, as long as no save overlapped another, failed, was cut off, or came
\* from a node that had not read what another had written.
THEOREM AcknowledgedAreOnDisk == StoreSpec => []AcknowledgedIsOnDisk
<1>1. ASSUME StoreInv
      PROVE  AcknowledgedIsOnDisk
  <2> SUFFICES ASSUME ~exposed, NEW r \in Request, saver[r].pc = "registered"
               PROVE  \/ OnDisk(saver[r].name, r)
                      \/ \E s \in Saver : /\ saver[s].pc = "write"
                                          /\ saver[s].data[saver[r].name] = r
    BY DEF AcknowledgedIsOnDisk
  <2>1. CASE \E s \in Saver : saver[s].pc = "write"
    BY <1>1, <2>1 DEF StoreInv, CopyComplete, Saving
  <2>2. CASE ~\E s \in Saver : saver[s].pc = "write"
    BY <1>1, <2>2 DEF StoreInv, FileComplete
  <2> QED
    BY <2>1, <2>2
<1> QED
  BY <1>1, StoreInvHolds, PTL

\* Under the same condition no name is given to two users, at whichever nodes
\* they register and whatever restarts lie between.
THEOREM NamesHaveOneOwner == StoreSpec => []NameHasOneOwner
<1>1. ASSUME StoreInv
      PROVE  NameHasOneOwner
  <2> SUFFICES ASSUME ~exposed, NEW r \in Request, NEW q \in Request,
                      saver[r].pc = "registered", saver[q].pc = "registered",
                      saver[r].name = saver[q].name
               PROVE  r = q
    BY DEF NameHasOneOwner
  <2>1. CASE \E s \in Saver : saver[s].pc = "write"
    <3>1. PICK s \in Saver : saver[s].pc = "write"
      BY <2>1
    <3>2. saver[s].data[saver[r].name] = r /\ saver[s].data[saver[q].name] = q
      BY <1>1, <3>1 DEF StoreInv, CopyComplete, Saving
    <3> QED
      BY <3>2
  <2>2. CASE ~\E s \in Saver : saver[s].pc = "write"
    BY <1>1, <2>2 DEF StoreInv, FileComplete, OnDisk
  <2> QED
    BY <2>1, <2>2
<1> QED
  BY <1>1, StoreInvHolds, PTL

\* While a process lives no account it knows is lost or changed.
THEOREM AccountsStay == StoreSpec => AccountsAreKept
<1>1. ASSUME StoreInv, [StoreNext]_storeVars
      PROVE  \A n \in Node : up[n] /\ up'[n] =>
                \A u \in User : users[n][u] # None => users'[n][u] = users[n][u]
  <2>1. users \in [Node -> Accounts] /\ up \in [Node -> BOOLEAN]
    BY <1>1 DEF StoreInv, StoreTypeOK
  <2>2. ASSUME NEW n \in Node, Start(n)
        PROVE  ~up[n] /\ \A m \in Node \ {n} : users'[m] = users[m]
    BY <2>1, <2>2 DEF Start
  <2>3. ASSUME NEW n \in Node, Die(n)
        PROVE  ~up'[n] /\ \A m \in Node \ {n} : users'[m] = users[m]
    BY <2>1, <2>3 DEF Die
  <2>4. ASSUME NEW r \in Request, NEW n \in Node, NEW v \in User, RegisterUser(r, n, v)
        PROVE  \A m \in Node, u \in User : users[m][u] # None => users'[m][u] = users[m][u]
    BY <2>1, <2>4 DEF RegisterUser, Accounts
  <2>5. ASSUME UNCHANGED storeVars \/ (\E n \in Node : AutoSaveTick(n))
               \/ \E s \in Saver : SaveStep(s)
        PROVE  UNCHANGED users
    BY <2>5 DEF storeVars, AutoSaveTick, SaveStep, Marshal, SaveOpen, SaveWrite, SaveFails
  <2> QED
    BY <1>1, <2>2, <2>3, <2>4, <2>5 DEF StoreNext
<1> QED
  BY <1>1, StoreInvHolds, PTL DEF StoreSpec, AccountsAreKept

\* Whatever happened before, a save that none overlaps leaves a file that
\* parses and has everybody its node knows who was told "registered".
THEOREM LoneSavesRepair == StoreSpec => LoneSaveRepairs
<1> DEFINE Repaired(s) ==
             /\ Parses(file')
             /\ \A r \in Request :
                   /\ saver'[r].pc = "registered"
                   /\ users[saver[s].home][saver[r].name] = r
                   => file'.head[saver[r].name] = r
<1>1. ASSUME StoreInv, NEW s \in Saver, alone = s, SaveWrite(s)
      PROVE  Repaired(s)
  <2>1. SourceInv /\ KnownInv
    BY <1>1, StoreInvSplit
  <2>2. /\ saver[s].pc = "write" /\ file' = Overwrite(file, saver[s].data)
        /\ \A q \in Saver \ {s} : saver'[q] = saver[q]
    BY <1>1, <2>1, EndFacts DEF SaveWrite
  <2>3. file = Truncated /\ saver[s].data \in Accounts
    BY <1>1, <2>1, <2>2, SaversDiffer, SaverTypes DEF SourceInv, KnownInv, LoneSave
  <2>4. Parses(file') /\ file'.head = saver[s].data
    <3>1. Truncated \in File
      BY DEF Truncated, File
    <3> QED
      BY <2>2, <2>3, <3>1, OverwriteFacts, WrittenParses
  <2>5. \A r \in Request :
           /\ saver'[r].pc = "registered"
           /\ users[saver[s].home][saver[r].name] = r
           => saver[s].data[saver[r].name] = r
    BY <1>1, <2>1, <2>2, SaversDiffer DEF KnownInv, LoneSave
  <2> QED
    BY <2>4, <2>5
<1>2. StoreInv => \A s \in Saver : alone = s /\ SaveWrite(s) => Repaired(s)
  BY <1>1
<1> QED
  BY <1>2, StoreInvHolds, PTL DEF LoneSaveRepairs

-----------------------------------------------------------------------------
(***************************************************************************)
(* The store of each node implements AccountBook.                          *)
(***************************************************************************)

\* Every step of the stores is a step of the book of any one, or none.
LEMMA StoreStepSimulates ==
    ASSUME SourceInv, [StoreNext]_storeVars
    PROVE  [AbstractBook!BookNext]_(AbstractBook!bookVars)
<1> DEFINE granted == [r \in Request |-> GrantedIn(saver, r)]
           granted2 == [r \in Request |-> GrantedIn(saver', r)]
<1>0. /\ users \in [Node -> Accounts] /\ up \in [Node -> BOOLEAN] /\ Here \in Node
  BY HereAssumption DEF SourceInv, StoreTypeOK
<1>1. /\ [r \in Request |-> Granted(r)] = granted
      /\ [r \in Request |-> Granted(r)]' = granted2
  BY DEF Granted, GrantedIn
\* A step that grants nothing and does not touch this node.
<1>2. ASSUME users'[Here] = users[Here], up'[Here] = up[Here],
             \A r \in Request : GrantedIn(saver', r) = GrantedIn(saver, r)
      PROVE  [AbstractBook!BookNext]_(AbstractBook!bookVars)
  <2>1. granted2 = granted
    BY <1>2
  <2> QED
    BY <1>1, <1>2, <2>1 DEF AbstractBook!bookVars
<1>3. ASSUME NEW n \in Node, Start(n)
      PROVE  [AbstractBook!BookNext]_(AbstractBook!bookVars)
  <2>1. PICK accounts \in {Loaded(file), NoAccounts} :
           users' = [users EXCEPT ![n] = accounts]
    BY <1>3 DEF Start
  <2>2. /\ ~up[n] /\ up' = [up EXCEPT ![n] = TRUE] /\ UNCHANGED saver
        /\ accounts \in Accounts /\ RegisteredIn(saver, accounts)
    BY <1>3, <2>1, LoadedFacts, IdleFacts DEF Start
  <2>3. granted2 = granted
    BY <2>2
  <2>4. CASE n = Here
    <3>1. \A u \in User : accounts[u] # None => accounts[u] \in Request
                                                /\ granted[accounts[u]] = u
      BY <2>2 DEF Accounts, RegisteredIn
    <3>2. ~up[Here] /\ up'[Here] = TRUE /\ users'[Here] = accounts
      BY <1>0, <2>1, <2>2, <2>4
    <3>3. AbstractBook!Open
      BY <1>1, <2>2, <2>3, <3>1, <3>2 DEF AbstractBook!Open, AbstractBook!Book, Accounts
    <3> QED
      BY <3>3 DEF AbstractBook!BookNext
  <2>5. CASE n # Here
    BY <1>0, <1>2, <2>1, <2>2, <2>5
  <2> QED
    BY <2>4, <2>5
<1>4. ASSUME NEW n \in Node, Die(n)
      PROVE  [AbstractBook!BookNext]_(AbstractBook!bookVars)
  <2>1. \A r \in Request : GrantedIn(saver', r) = GrantedIn(saver, r)
    BY <1>4, DieFacts, SaversDiffer DEF GrantedIn, Busy
  <2>2. granted2 = granted
    BY <2>1
  <2>3. CASE n = Here
    <3>1. up[Here] /\ up'[Here] = FALSE /\ users'[Here] = NoAccounts
      BY <1>0, <1>4, <2>3 DEF Die
    <3>2. AbstractBook!Close
      BY <1>1, <2>2, <3>1 DEF AbstractBook!Close, AbstractBook!EmptyBook, NoAccounts
    <3> QED
      BY <3>2 DEF AbstractBook!BookNext
  <2>4. CASE n # Here
    <3>1. users'[Here] = users[Here] /\ up'[Here] = up[Here]
      BY <1>0, <1>4, <2>4 DEF Die
    <3> QED
      BY <1>2, <2>1, <3>1
  <2> QED
    BY <2>3, <2>4
<1>5. ASSUME NEW r \in Request, NEW n \in Node, NEW u \in User, RegisterUser(r, n, u)
      PROVE  [AbstractBook!BookNext]_(AbstractBook!bookVars)
  <2>1. /\ GrantedIn(saver, r) = None
        /\ GrantedIn(saver', r) = IF users[n][u] = None THEN u ELSE None
        /\ \A q \in Request \ {r} : GrantedIn(saver', q) = GrantedIn(saver, q)
    BY <1>5, RegisterSource
  <2>2. /\ up[n] /\ UNCHANGED up
        /\ users' = IF users[n][u] = None THEN [users EXCEPT ![n][u] = r] ELSE users
    BY <1>5 DEF RegisterUser
  <2>3. CASE users[n][u] = None /\ n = Here
    <3>1. granted2 = [granted EXCEPT ![r] = u] /\ granted[r] = None
      BY <2>1, <2>3
    <3>2. users'[Here] = [users[Here] EXCEPT ![u] = r]
      BY <1>0, <2>2, <2>3
    <3>3. AbstractBook!Grant(r, u)
      BY <1>1, <2>2, <2>3, <3>1, <3>2 DEF AbstractBook!Grant
    <3> QED
      BY <3>3 DEF AbstractBook!BookNext
  <2>4. CASE users[n][u] = None /\ n # Here
    <3>1. granted2 = [granted EXCEPT ![r] = u] /\ granted[r] = None
      BY <2>1, <2>4
    <3>2. users'[Here] = users[Here]
      BY <1>0, <2>2, <2>4
    <3>3. AbstractBook!GrantElsewhere(r, u)
      BY <1>1, <2>2, <3>1, <3>2 DEF AbstractBook!GrantElsewhere
    <3> QED
      BY <3>3 DEF AbstractBook!BookNext
  <2>5. CASE users[n][u] # None
    <3>1. \A q \in Request : GrantedIn(saver', q) = GrantedIn(saver, q)
      BY <2>1, <2>5
    <3> QED
      BY <1>2, <2>2, <2>5, <3>1
  <2> QED
    BY <2>3, <2>4, <2>5
<1>6. CASE (\E n \in Node : AutoSaveTick(n)) \/ (\E s \in Saver : SaveStep(s))
  <2>1. UNCHANGED <<up, users>>
    BY <1>6 DEF AutoSaveTick, SaveStep, Marshal, SaveOpen, SaveWrite, SaveFails
  <2> QED
    BY <1>2, <1>6, <2>1, SaveSource
<1>7. CASE UNCHANGED storeVars
  BY <1>2, <1>7 DEF storeVars
<1> QED
  BY <1>3, <1>4, <1>5, <1>6, <1>7 DEF StoreNext

\* Whatever becomes of saves and of the file, and whoever else writes it, the
\* store of a node keeps the promise of AccountBook, on which the sessions are
\* built.
THEOREM StoreImplementsBook == StoreSpec => AccountBookImplemented
<1>1. StoreInit => AbstractBook!BookInit
  <2>1. ASSUME StoreInit
        PROVE  [r \in Request |-> Granted(r)] = [r \in Request |-> None]
    BY <2>1, IdleFacts, SaversDiffer DEF StoreInit, Granted
  <2> QED
    BY <2>1, HereAssumption
       DEF StoreInit, NoAccounts, AbstractBook!BookInit, AbstractBook!EmptyBook
<1>2. StoreInv /\ [StoreNext]_storeVars => [AbstractBook!BookNext]_(AbstractBook!bookVars)
  BY StoreInvSplit, StoreStepSimulates
<1> QED
  BY <1>1, <1>2, StoreInvHolds, PTL
     DEF StoreSpec, AccountBookImplemented, AbstractBook!BookSpec
=============================================================================
