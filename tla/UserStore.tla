----------------------------- MODULE UserStore ------------------------------
(***************************************************************************)
(* The accounts of the nodes started in one directory (auth/auth.go) and   *)
(* the handler that registers users (handler/auth_handler.go).  Each node  *)
(* reads data/users.json when it starts, keeps a map under a lock, and     *)
(* writes the map over the file after every registration and, when dirty,  *)
(* from a background goroutine.  The directory is relative (main.go:30),   *)
(* so nodes started side by side share the file, though none reads it      *)
(* again.  A save copies the map under the read lock, releases it, and     *)
(* then writes the file with os.WriteFile, which truncates the file when   *)
(* it opens it and writes from its start; nothing keeps two saves apart.   *)
(*                                                                         *)
(* An account is the registration request that created it: its password    *)
(* and display name are that request's.  Only requests that pass the       *)
(* checks of the handler (network password, confirmation, lengths) are     *)
(* considered.                                                             *)
(*                                                                         *)
(* A definition introduced as a variant is not part of the model: it is    *)
(* the definition after it with one plausible fault, and stands in for it  *)
(* when a property is tested against that fault (README, "Variants").      *)
(***************************************************************************)
EXTENDS Naturals

CONSTANTS
    User,           \* user names
    Request,        \* registration requests
    Node,           \* processes started in the same directory
    Here,           \* any one of them
    DocumentLength, \* the length of the document json.MarshalIndent makes
    None,
    Faults,         \* what may go wrong: a write fails, a read fails, a process dies
    MaxStarts       \* how often processes may be started

ASSUME StoreFaultsAssumption == Faults \subseteq {"save", "load", "crash"}
ASSUME HereAssumption == Here \in Node
ASSUME StoreNoneAssumption ==
    Node \cap Request = {} /\ None \notin Request \cup User \cup Node
ASSUME MaxStartsAssumption == MaxStarts \in Nat

VARIABLES
    up,         \* the process of each node runs
    starts,     \* how often processes were started
    users,      \* UserStore.users of each node: the account of each name
    dirty,      \* UserStore.dirty of each node
    file,       \* data/users.json
    saver,      \* the progress of each request, and of each autoSaveLoop
    stale,      \* history: what a node read is no longer what the file holds
    alone,      \* history: the save under way, if no other overlapped it
    exposed     \* history: saves overlapped, failed, died or came from stale maps

storeVars == <<up, starts, users, dirty, file, saver, stale, alone, exposed>>

\* A node stands for its auto-save goroutine.
Saver == Request \cup Node
Accounts == [User -> Request \cup {None}]
NoAccounts == [u \in User |-> None]

ASSUME DocumentLengthAssumption == DocumentLength \in [Accounts -> Nat \ {0}]

\* The file begins with a document, or with a part of one, and is as long as
\* the longest write since it was truncated.
File == [head : Accounts \cup {None}, length : Nat]
Truncated == [head |-> None, length |-> 0]
AtLeast(m, n) == IF m < n THEN n ELSE m
Overwrite(f, accounts) ==
    [head |-> accounts, length |-> AtLeast(f.length, DocumentLength[accounts])]
OverwritePart(f, length) == [head |-> None, length |-> AtLeast(f.length, length)]

ASSUME StoreDataAssumption == None \notin Accounts /\ None \notin File

\* json.Unmarshal accepts the file: a document, and nothing behind it.
Parses(f) == f # None /\ f.head # None /\ f.length = DocumentLength[f.head]

\* Variant: the file is not read.
LoadedNothing(f) == NoAccounts

\* loadFromFile; when it fails the store starts fresh.
Loaded(f) == IF Parses(f) THEN f.head ELSE NoAccounts

\* A request that is not saving has no node; autoSaveLoop is part of its own.
Idle(s) == [pc |-> "idle", name |-> None, home |-> IF s \in Node THEN s ELSE None,
            data |-> NoAccounts]
SaverPC == {"idle", "marshal", "open", "write", "registered", "taken", "lost"}
Busy == {"marshal", "open", "write"}
Saving == {s \in Saver : saver[s].pc \in {"open", "write"}}

-----------------------------------------------------------------------------
StoreInit ==
    /\ up = [n \in Node |-> FALSE]
    /\ starts = 0
    /\ users = [n \in Node |-> NoAccounts]
    /\ dirty = [n \in Node |-> FALSE]
    /\ file = None
    /\ saver = [s \in Saver |-> Idle(s)]
    /\ stale = [n \in Node |-> FALSE]
    /\ alone = None
    /\ exposed = FALSE

\* What a node may read when it starts, and whether the file will differ from
\* it: another node may be writing the file, and os.ReadFile may fail.
Reads(accounts, outdated) ==
    \/ accounts = Loaded(file) /\ outdated = (Saving # {})
    \/ /\ Saving # {} \/ "load" \in Faults
       /\ accounts = NoAccounts /\ outdated = TRUE

\* NewUserStore.
Start(n) ==
    /\ ~up[n]
    /\ starts < MaxStarts
    /\ up' = [up EXCEPT ![n] = TRUE]
    /\ starts' = starts + 1
    /\ \E outdated \in BOOLEAN, accounts \in {Loaded(file), NoAccounts} :
          /\ Reads(accounts, outdated)
          /\ users' = [users EXCEPT ![n] = accounts]
          /\ stale' = [stale EXCEPT ![n] = outdated]
    /\ UNCHANGED <<dirty, file, saver, alone, exposed>>

\* Variant: the name is not looked up.
RegisterAnyUser(r, n, u) ==
    /\ up[n]
    /\ saver[r].pc = "idle"
    /\ users' = [users EXCEPT ![n][u] = r]
    /\ dirty' = [dirty EXCEPT ![n] = TRUE]
    /\ saver' = [saver EXCEPT ![r] = [@ EXCEPT !.pc = "marshal", !.name = u, !.home = n]]
    /\ UNCHANGED <<up, starts, file, stale, alone, exposed>>

\* RegisterUser, under the write lock: a name is registered once.
RegisterUser(r, n, u) ==
    /\ up[n]
    /\ saver[r].pc = "idle"
    /\ \/ /\ users[n][u] = None
          /\ users' = [users EXCEPT ![n][u] = r]
          /\ dirty' = [dirty EXCEPT ![n] = TRUE]
          /\ saver' = [saver EXCEPT ![r] =
                         [@ EXCEPT !.pc = "marshal", !.name = u, !.home = n]]
       \/ /\ users[n][u] # None
          /\ saver' = [saver EXCEPT ![r] = [@ EXCEPT !.pc = "taken", !.name = u]]
          /\ UNCHANGED <<users, dirty>>
    /\ UNCHANGED <<up, starts, file, stale, alone, exposed>>

\* A turn of autoSaveLoop that finds the store dirty.
AutoSaveTick(n) ==
    /\ up[n]
    /\ saver[n].pc = "idle"
    /\ dirty[n]
    /\ saver' = [saver EXCEPT ![n].pc = "marshal"]
    /\ UNCHANGED <<up, starts, users, dirty, file, stale, alone, exposed>>

\* A request is answered whether or not its save succeeded.
Answered(s) ==
    [saver EXCEPT ![s] =
        IF s \in Node THEN Idle(s)
        ELSE [Idle(s) EXCEPT !.pc = "registered", !.name = saver[s].name]]

\* Variant: a request is answered as soon as it is entered in the map.
MarshalLater(s) ==
    /\ saver[s].pc = "marshal"
    /\ saver' = Answered(s)
    /\ UNCHANGED <<up, starts, users, dirty, file, stale, alone, exposed>>

\* SaveToFile, first part: the copy and the flag, under the read lock.
Marshal(s) ==
    LET n == saver[s].home IN
    /\ saver[s].pc = "marshal"
    /\ saver' = [saver EXCEPT ![s] = [@ EXCEPT !.pc = "open", !.data = users[n]]]
    /\ dirty' = [dirty EXCEPT ![n] = FALSE]
    /\ alone' = IF Saving = {} THEN s ELSE None
    /\ exposed' = (exposed \/ Saving # {} \/ stale[n])
    /\ UNCHANGED <<up, starts, users, file, stale>>

\* Variant: the file is opened without os.O_TRUNC.
SaveOpenUntruncated(s) ==
    /\ saver[s].pc = "open"
    /\ file' = IF file = None THEN Truncated ELSE file
    /\ saver' = [saver EXCEPT ![s].pc = "write"]
    /\ stale' = [n \in Node |-> stale[n] \/ (up[n] /\ n # saver[s].home)]
    /\ UNCHANGED <<up, starts, users, dirty, alone, exposed>>

\* Second part, without any lock: the file is truncated, under the feet of the
\* other nodes ...
SaveOpen(s) ==
    /\ saver[s].pc = "open"
    /\ file' = Truncated
    /\ saver' = [saver EXCEPT ![s].pc = "write"]
    /\ stale' = [n \in Node |-> stale[n] \/ (up[n] /\ n # saver[s].home)]
    /\ UNCHANGED <<up, starts, users, dirty, alone, exposed>>

\* ... and written from its start.
SaveWrite(s) ==
    /\ saver[s].pc = "write"
    /\ file' = Overwrite(file, saver[s].data)
    /\ saver' = Answered(s)
    /\ alone' = None
    /\ UNCHANGED <<up, starts, users, dirty, stale, exposed>>

\* The file cannot be opened, or the write stops before, within or behind the
\* document.
SaveFails(s) ==
    /\ "save" \in Faults
    /\ \/ saver[s].pc = "open" /\ UNCHANGED file
       \/ /\ saver[s].pc = "write"
          /\ \/ file' \in {file, Overwrite(file, saver[s].data)}
             \/ \E length \in 1 .. DocumentLength[saver[s].data] - 1 :
                   file' = OverwritePart(file, length)
    /\ saver' = Answered(s)
    /\ alone' = None
    /\ exposed' = TRUE
    /\ UNCHANGED <<up, starts, users, dirty, stale>>

\* What the end of node n leaves of s.
Cut(s, n) ==
    IF saver[s].home # n THEN saver[s]
    ELSE IF s \in Node THEN Idle(s)
    ELSE [Idle(s) EXCEPT !.pc = "lost", !.name = saver[s].name]

\* A process dies at any point; the file is what remains.
Die(n) ==
    /\ "crash" \in Faults
    /\ up[n]
    /\ up' = [up EXCEPT ![n] = FALSE]
    /\ users' = [users EXCEPT ![n] = NoAccounts]
    /\ dirty' = [dirty EXCEPT ![n] = FALSE]
    /\ saver' = [s \in Saver |-> Cut(s, n)]
    /\ stale' = [stale EXCEPT ![n] = FALSE]
    /\ alone' = IF alone # None /\ saver[alone].home = n THEN None ELSE alone
    /\ exposed' = (exposed \/ \E s \in Saver : saver[s].pc = "write" /\ saver[s].home = n)
    /\ UNCHANGED <<starts, file>>

SaveStep(s) == Marshal(s) \/ SaveOpen(s) \/ SaveWrite(s) \/ SaveFails(s)

StoreNext ==
    \/ \E n \in Node : Start(n) \/ Die(n) \/ AutoSaveTick(n)
    \/ \E r \in Request, n \in Node, u \in User : RegisterUser(r, n, u)
    \/ \E s \in Saver : SaveStep(s)

StoreSpec == StoreInit /\ [][StoreNext]_storeVars

\* The ticker fires as long as the process lives, and a save that was begun
\* goes on.
StoreFairness ==
    /\ \A n \in Node : WF_storeVars(AutoSaveTick(n))
    /\ \A s \in Saver : WF_storeVars(SaveStep(s))

FairStoreSpec == StoreSpec /\ StoreFairness
-----------------------------------------------------------------------------
(***************************************************************************)
(* Properties.                                                             *)
(***************************************************************************)
StoreTypeOK ==
    /\ up \in [Node -> BOOLEAN]
    /\ starts \in 0 .. MaxStarts
    /\ users \in [Node -> Accounts]
    /\ dirty \in [Node -> BOOLEAN]
    /\ file \in File \cup {None}
    /\ saver \in [Saver -> [pc : SaverPC, name : User \cup {None},
                            home : Node \cup {None}, data : Accounts]]
    /\ stale \in [Node -> BOOLEAN]
    /\ alone \in Saver \cup {None}
    /\ exposed \in BOOLEAN

OnDisk(u, r) == Parses(file) /\ file.head[u] = r

\* A user who was told "registered" is in the file, or in the copy that is
\* being written over it, at every moment and through every restart of every
\* node, unless two saves overlapped, a write failed, a process died while a
\* save had the file truncated, or a node saved its map although another node
\* had written the file since it read it (auth_handler.go:121, "Save to disk
\* immediately after registration").
AcknowledgedIsOnDisk ==
    ~exposed => \A r \in Request : saver[r].pc = "registered" =>
        \/ OnDisk(saver[r].name, r)
        \/ \E s \in Saver : saver[s].pc = "write" /\ saver[s].data[saver[r].name] = r

\* Under the same condition two users are never both told that they own a name,
\* at one node or at two, before or after a restart (auth.go:94).
NameHasOneOwner ==
    ~exposed => \A r, q \in Request :
        (/\ saver[r].pc = "registered"
         /\ saver[q].pc = "registered"
         /\ saver[r].name = saver[q].name) => r = q

\* An account that a running process knows keeps its password: whatever is
\* registered, saved or lost meanwhile, here or at another node, only the end
\* of the process removes it.
AccountsAreKept ==
    [][\A n \in Node : up[n] /\ up'[n] =>
          \A u \in User : users[n][u] # None => users'[n][u] = users[n][u]]_storeVars

\* Whatever became of the file before, by writes that overlapped, stopped half
\* way or came from another node, one save that none overlaps mends it: when it
\* returns, the file parses, and every user the node knows and who was told
\* "registered" is in it (auth.go:154).
LoneSaveRepairs ==
    [][\A s \in Saver : alone = s /\ SaveWrite(s) =>
          /\ Parses(file')
          /\ \A r \in Request :
                /\ saver'[r].pc = "registered"
                /\ users[saver[s].home][saver[r].name] = r
                => file'.head[saver[r].name] = r]_storeVars

\* The name a request was given, whether or not its process still lives.
Granted(r) == IF saver[r].pc \in {"idle", "taken"} THEN None ELSE saver[r].name

AbstractBook == INSTANCE AccountBook
    WITH up <- up[Here], users <- users[Here], granted <- [r \in Request |-> Granted(r)]

\* However saves overlap, fail or are cut off, at this node or at another, what
\* a restart finds in users.json are accounts that some node registered under
\* these very names, and between restarts a name stays with its account
\* (auth.go:169): the store of each node implements AccountBook.
AccountBookImplemented == AbstractBook!BookSpec

-----------------------------------------------------------------------------
(***************************************************************************)
(* What the invariants rest on.                                            *)
(***************************************************************************)
Registered(accounts) ==
    \A u \in User : accounts[u] # None => Granted(accounts[u]) = u

\* The maps, their copies and the file hold only what was registered.
AccountsGranted ==
    /\ \A n \in Node : Registered(users[n])
    /\ \A s \in Saver : Registered(saver[s].data)
    /\ file # None => file.head = None \/ Registered(file.head)

\* Who is where.
SaversPlaced ==
    /\ \A n \in Node : saver[n].pc \in Busy \cup {"idle"} /\ saver[n].home = n
    /\ \A r \in Request : saver[r].pc # "idle" => saver[r].name \in User
    /\ \A r \in Request : IF saver[r].pc \in Busy THEN saver[r].home \in Node
                                                  ELSE saver[r].home = None
    /\ \A s \in Saver : saver[s].pc \in Busy => up[saver[s].home]
    /\ \A s \in Saver : saver[s].pc = "write" => file # None

\* A node knows those it is registering.
OwnAccountsKnown ==
    \A r \in Request : saver[r].pc \in Busy => users[saver[r].home][saver[r].name] = r

\* Once a save has truncated the file, what any other node read is out of date.
OthersStale ==
    \A s \in Saver : saver[s].pc = "write" =>
        \A n \in Node : up[n] /\ n # saver[s].home => stale[n]

\* The copy that is saved has everybody its node knows who was told so, and its
\* owner; if the save is alone, it is on its own in writing the file.
LoneSave ==
    alone # None =>
        /\ Saving = {alone}
        /\ saver[alone].pc = "write" => file = Truncated
        /\ \A r \in Request :
              /\ r = alone \/ saver[r].pc = "registered"
              /\ users[saver[alone].home][saver[r].name] = r
              => saver[alone].data[saver[r].name] = r

\* Unless exposed: saves come one at a time ...
SavesTakeTurns == ~exposed => Saving \subseteq {alone}

\* ... from maps that have everybody who was told "registered", ...
FreshComplete ==
    ~exposed => \A n \in Node : up[n] /\ ~stale[n] =>
        \A r \in Request : saver[r].pc = "registered" => users[n][saver[r].name] = r

\* ... as do their copies ...
CopyComplete ==
    ~exposed => \A s \in Saving, r \in Request :
        saver[r].pc = "registered" => saver[s].data[saver[r].name] = r

\* ... and the file, unless it is being written.
FileComplete ==
    ~exposed =>
        IF \E s \in Saver : saver[s].pc = "write"
        THEN file = Truncated
        ELSE /\ file = None \/ Parses(file)
             /\ \A r \in Request :
                   saver[r].pc = "registered" => OnDisk(saver[r].name, r)

\* The inductive invariant of the proofs in UserStoreProofs.
StoreInv ==
    /\ StoreTypeOK
    /\ AccountsGranted
    /\ SaversPlaced
    /\ OwnAccountsKnown
    /\ OthersStale
    /\ LoneSave
    /\ SavesTakeTurns
    /\ FreshComplete
    /\ CopyComplete
    /\ FileComplete

-----------------------------------------------------------------------------
(***************************************************************************)
(* What the comments of the code say and the code does not do.             *)
(***************************************************************************)

\* auth_handler.go:123: "Log but don't fail - auto-save will catch it".  A
\* registration whose save failed reaches the file some time later.
AutoSaveCatches ==
    \A r \in Request :
        (saver[r].pc = "registered") ~> OnDisk(saver[r].name, r)
=============================================================================
