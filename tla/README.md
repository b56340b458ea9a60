# A verification project for the P2P file-sharing node

The program is a node of a small file-sharing network, written in Go.  Every
node is a web server for its own users and a peer of the other nodes: users
upload files, which are split into chunks named by their SHA-256 digest; users
of other nodes download a file chunk by chunk from every peer that has one of
that name.  This directory holds TLA+ modules of the program, configurations
that check them with TLC, and proofs checked by TLAPS.

References such as `downloader.go:64` are to the repository's files.

## 1. Inventory

| Component | Source | State it keeps | Operations | Module |
|---|---|---|---|---|
| Peer discovery, registration | `main.go`, `registry/registry.go`, `handler/api.go`, `handler/tcp_listener.go` | the list of known addresses of a process (`registry.Peers`, RWMutex) | discovery loop, `RegisterWithPeer` goroutines, `RegisterPeerHandler`/`handleRegister`, `AddPeer`, `GetPeers` | `Registry` |
| Network password | `auth/network.go` | a hash, fixed at start | `NewNetworkAuth`, `ValidateNetworkPassword` | `Registry` (`Guarded`, `Validates`) |
| Chunking | `file/chunking.go` | none (pure) | `SplitFile`, `MergeChunks` | `ChunkOrder`, `Chunking` |
| File metadata | `file/filemeta.go` | none (record, JSON form) | | `Swarm` (`Meta`) |
| Peer state | `peer/peer.go` | `SharedFiles`, `ChunkDataStorage`, `ActiveUser` under `Mu`; `ChunkMap` and `ReceivedChunks` are never read | `AddFile` (takes no lock) | `Swarm`; `ActiveUser` in `Sessions` |
| Upload | `handler/upload.go` | the peer state | `UploadHandler` | `Swarm` |
| Download | `peer/downloader.go`, `handler/distribute.go` | the peer state; `downloads/` on disk; a result channel per download | `findPeersWithFile`, `Download`, `downloadChunk`, `DownloadHandler` | `Swarm` |
| Peer interface | `handler/api.go`, `handler/tcp_listener.go` | reads the peer state | register, metadata, chunk, file list; info | `Registry`, `Swarm`, `Browse`; connections in `Wire` |
| Transports | `transport/` | none | calls with a timeout over HTTP or framed TCP | `Wire`, `RemoteCall` |
| User store | `auth/auth.go` | `users` and `dirty` under a RWMutex; `data/users.json` | `RegisterUser`, `SaveToFile`, `loadFromFile`, `autoSaveLoop` | `UserStore`, `AccountBook` |
| Auth handlers | `handler/auth_handler.go` | sessions, `ActiveUser` | register; login, logout, status | `UserStore` (register), `Sessions` |
| Sessions | `auth/session.go`, `auth/middleware.go` | `sessions` under a RWMutex; the cookie in each browser | create, validate, destroy, reap; `RequireAuth` | `Sessions` |
| Browse | `handler/distribute.go` | none | reads the file lists of known peers | `Browse` |
| Web pages | `web/` | browser only | | not modelled |

How they interact.  `main` fills the registry from the command line and starts
one goroutine per address that calls `RegisterWithPeer`; the other node's
register handler adds the caller to *its* registry.  A download reads the
registry (`GetPeers`, a copy), probes the peers in it through the transport,
and starts a goroutine per chunk that calls the chunk handler of its assigned
peer; uploads and downloads write the `SharedFiles` and `ChunkDataStorage` that
the handlers of other nodes' requests read.  A browse asks the known peers one
after another for the names they list.  Logging in takes three locks in turn,
each given up before the next is taken: the user store's (authenticate), the
session table's (create), the peer's (`ActiveUser`).  Each HTTP request and each
TCP connection is served by a goroutine of its own.

What is hard here, in the order of weight:

* many goroutines share two maps; one write (`AddFile`, `upload.go:71`) is not
  under the lock the others take;
* a file name may stand for several versions, on one node over time and on
  several nodes at once, and a download works from one piece of metadata while
  peers hold others;
* chunks arrive in any order, damaged or not at all, and some fail while
  others have already been stored and are served to third nodes;
* nodes crash and restart with empty memory while others still point at them;
* peers are known by free-form strings that are compared as such: a node has
  several, and "localhost" is another node on another machine;
* the registration of a node is attempted once;
* sessions are looked up under a lock and judged after it, while logouts, the
  reaper and restarts remove them; the session keeps a name and asks for the
  account later, and a restart may have lost that account;
* a call over TCP may stop at any byte, and only the caller has a deadline;
* files (`downloads/<name>`, `data/users.json`) are truncated and rewritten
  without a lock, by several goroutines and, as their paths are relative, by
  every node started in the same directory; a crash or a failed write leaves
  what it leaves.

`PROJECT.json` lists each hazard at its line (`hazards`), with the properties
that would notice it going wrong.

What makes each component correct: the registry never lists an address twice
or drops one, holds only admitted addresses, and comes to know every node it
should; chunking is invertible for every order of arrival; a node stores only
genuine chunks, can serve whatever it advertises, and never takes back what it
advertised while it lives; a download that succeeds returns one whole uploaded
version, and every download ends; an acknowledged account is on disk and has one
owner while saves do not get in each other's way, and keeps its password; a session is honoured while it is valid and not
after, and speaks for the account that logged in; a call is answered whole or
fails for cause, and both its sides end; a browse shows what is there.

## 2. Modules

| Module | What it is |
|---|---|
| `Registry` | nodes, their listeners and registries; the base of `Swarm` |
| `ChunkOrder` | the sort inside `MergeChunks` (no recursion, so that it can be proved about) |
| `Chunking` | `SplitFile` and `MergeChunks` on bytes, as a transfer whose chunks arrive in any order |
| `Swarm` | extends `Registry`: uploads, downloads, the data race, crashes |
| `FileService` | what the swarm promises its users, without peers or chunks; `Swarm` refines it |
| `Browse` | extends `Swarm`: a user lists the files of the known peers |
| `RemoteCall` | what a transport promises about one call |
| `Wire` | one framed call over TCP, byte by byte; refines `RemoteCall` |
| `AccountBook` | what the user store promises those who authenticate against it |
| `UserStore` | accounts and their file; refines `AccountBook` |
| `Sessions` | extends `AccountBook`: tokens, cookies, `RequireAuth`, login, logout, status |
| `MCRegistry`, `MCSwarm`, `MCBrowse`, `MCUserStore` | instances for TLC: command lines, passwords, digests, file versions |
| `ChunkOrderProofs`, `ChunkingProofs`, `RegistryProofs`, `SwarmProofs`, `UserStoreProofs`, `SessionsProofs`, `WireProofs` | the proofs about the module each is named after |
| `ServiceProofs` | proofs about `Swarm` and `Browse` that need both the registry's invariant and the swarm's: sources, load, the refinement of `FileService`, browsing |

### Registry

State: `running` and `incarnation` (processes), `boot` (what is left of the
loop of `main.go:80`), `listening` (which listeners are up), `registry`
(`registry.Peers` of each process), `registering` (the `RegisterWithPeer`
goroutines that have not ended).  Actions: `Boot`, `ListenTCP`, `DiscoverPeer`
(one turn of the loop: `AddPeer`, then `go RegisterWithPeer`), `ListenHTTP`
(after the loop), `RegisterPeer` and `RegisterFails` (the two ways a call can
end), `Crash`.

An address is a string: the registry, the self checks of `downloader.go:60` and
`distribute.go:47` and the registration request compare and pass on strings.
What a string leads to depends on the machine it is used on, so `Reaches[p][a]`
is the port that node p gets hold of when it dials a, and `LocalAddress` holds the
`localhost:<port>` strings, which every node uses for itself and announces
(`main.go:69-74`).  Several strings may lead to one node, and a string to
different nodes from different machines.  All that is assumed is that on its own
machine a node's `localhost` address leads to it and that no other `localhost`
address does (`LoopbackAssumption`).

Each node has a transport of its own (`Mode`).  It calls others over that
transport only, but the HTTP peer interface is served in TCP mode as well
(`main.go:124-129`), so a node in HTTP mode can talk to one in TCP mode and not
the other way round (`Serves`).

A password that bcrypt refuses to hash leaves the network open
(`network.go:25-29`), and the comparison looks at the first 72 bytes: `Compared`
is the part of a password that is looked at, `Guarded` says whether a node
checks at all.

### Swarm

State per node: `sharedFiles`, `chunkData`, `disk` (the downloads directory).
State per request: `upload[u]` and `download[d]`, records with a `pc` and the
handler's local variables.  Contents are sequences of blocks, one per chunk
(how bytes become chunks is `Chunking`'s subject); the digest of a block is a
constant function `Sum256`, assumed to have no collisions.

| Code | Actions |
|---|---|
| `UploadHandler`: parse and split; one locked map write per chunk; `AddFile` | `UploadBegin`, `UploadStore`, `UploadAdd` |
| `DownloadHandler`, `Download` | `DownloadBegin`, `FetchMeta`, `FetchMetaFails`, `FindPeers`, `ProbePeer`, `LaunchChunks` |
| a chunk goroutine: call, then verify, store, send | `FetchChunk` or `FetchChunkFails`, `DownloadChunk` |
| end of collection, `MergeChunks`, registering the file | `CollectResults`, `RegisterDownload` |
| `os.WriteFile` of the result | `SaveOpen` (truncates), `SaveWrite`, `SaveFails` |
| the end of a process | `CrashPeer` |

There is one action per section that the code runs under a lock, per remote
call, and per channel operation, so every interleaving the locks allow is a
behaviour.  Two simplifications: a remote handler's read and the
arrival of its answer are one step for metadata (nothing at the caller depends
on the time between) and two for chunks; and collecting results from the
channel while goroutines still run is folded into `CollectResults`, because the
loop keeps them in local variables until the channel is closed.

The data race.  `AddFile` runs without `Peer.Mu`.  An upload at `pc = "add"` is
inside `AddFile`, and an access to the map of the same node in that time races
with it: a metadata request (`FetchMetaRaces`), another `AddFile`
(`UploadAddRaces`), a finishing download (`RegisterDownloadRaces`).  The outcomes
are those the build can produce: old, new, or a `FileMeta` mixed word by word
(`Mixed`: the count of one and the slice of the other, a slice header of one
with the length of the other), a lost write, an entry without its value, a missed
entry, or the runtime's fatal error, which ends the process (`MapRace` in `CrashPeer`).  The history
variable `raced` records that the accesses did not happen one after the other;
properties that the race can break are stated under `~raced`, and the run
`torn` shows that the race is reachable.  The file list of another node reads the
same map and races in the same way (`FetchFileListRaces` in `Browse`).

Users are taken to be logged in; what that means is `Sessions`' subject.  Metadata
keeps the number of chunks and their digests; sizes and names for display are
left out.

### UserStore

`main.go:30` opens the directory `data` where the node was started, and README.md
(107-119) starts three nodes in one directory: they share `users.json`.  Each reads
it once, when it starts, and writes its whole map over it.  So the module has one
`file` and any number of nodes (`Node`), each with `up`, `users`, `dirty` and an
`autoSaveLoop`, which is the saver named after the node; `saver` has these and the
registration requests (`home` is the node a request was made at).  `SaveToFile`
is three steps, as the code gives up its lock after the copy: `Marshal`,
`SaveOpen` (truncate), `SaveWrite`; `SaveFails`, `Die`, the steps of other savers and
the starts of other nodes may come in between, and a node that starts while the
file is being written, or cannot read it, may start with nothing (`Reads`).

The file is abstracted to the document at its start and the extent of what was
written since it was truncated, which decides whether it parses; a document that
another has overwritten in part does not parse.  An account is the request that
created it.

Three history variables say what the properties depend on.  `stale[n]`: the file
is no longer what n has read or written, because another node opened it since.
`alone`: the save under way, if no other has overlapped it.  `exposed`: at some time
two saves overlapped, a write failed, a process died with the file truncated, or
a node saved from a stale map.  What is acknowledged is on disk and no name is
given twice as long as `exposed` is false; once it is true, accounts can be
lost, and what is left is said without it: `LoneSaveRepairs` (the next save that
none overlaps leaves a file that parses and has everybody its node knows),
`AccountsAreKept` and `AccountBookImplemented`.

### AccountBook and Sessions

`AccountBook` is the user store as `Sessions` needs it: `Grant` gives a free name
to a request, `Close` and `Open` are the end and the start of a process, and
what `Open` finds are some of the accounts granted before, each under its own
name, at this node or at one that shares the file (`GrantElsewhere`).  `UserStore`
implements it for each of its nodes (`Here`), whatever becomes of the saves.

State of `Sessions`: `sessions`, `activeUser`, `cookie` (in each browser), `now`,
and `visit[v]`, the requests under way, each with a `pc` and the locals of its
handler.  The locks are held for one statement each, so they are one action
each:

| Code | Actions |
|---|---|
| `AuthLoginHandler`: `AuthenticateUser`; `CreateSession`; `ActiveUser` | `LoginBegin`, `CreateSession`, `ShowUser` |
| `RequireAuth`, `AuthStatusHandler`: the cookie; `ValidateSession` (look-up, expiry, `DestroySession`); `GetUser` | `PageBegin`, `Lookup`, `CheckExpiry`, `DropExpired`, `GetUser` |
| `AuthLogoutHandler`: `DestroySession`; `ActiveUser` | `LogoutBegin`, `DestroySession`, `HideUser` |
| the answer reaches the browser, with its `Set-Cookie` | `Arrive` |
| `reapExpiredSessions` | `Reap` |
| start and end of the process, registrations | `BookStep`, `EndProcess` |

A browser may have several visits open and their answers may overtake each
other.  Tokens are 256 random bits; a new one is taken to be one nobody has had.
A session is a name and an expiry; an account is a registration request, as in
`UserStore`, so that "the same name, another owner" can be told apart.  History
variables keep whose login a token was made for, which tokens were ended and
which login set `activeUser`.

### RemoteCall and Wire

`RemoteCall` is the call that `Registry`, `Swarm` and `Browse` make: the handler
runs at most once, possibly after the caller gave up, and the caller is given
that answer or a failure.  `Wire` is one TCP call: `client` is the place in
`roundTrip`, `server` the place in `Start` and `handleConnection`, `up` and `down`
count the bytes sent and arrived in each direction.  `ClientWrite` and
`ServerWrite` hand over one byte, `Deliver` lets one arrive, `Break` cuts the
connection, `Deadline` is the caller's timer; `Readable` and `ReadError` are
`ReadMessage` (`io.ReadFull` of the header, the limit, `io.ReadFull` of the
payload).  Only lengths are modelled: TCP delivers bytes in order and
undamaged, and a message is read whole or not at all.  Every call has a
connection of its own, so one call is the whole of the protocol.

### Browse

`browse[w]` is the progress of one request: the addresses still to ask
(`GetPeers`, a copy), the names in the list just fetched, and per name the count
of peers and the first of them (`seenFiles`).  Actions: `BrowseBegin`, `SkipSelf`,
`FetchFileList` (or `FetchFileListRaces`, `FetchFileListFails`), `Tally`,
`BrowseEnd`.  The loop counts addresses, and skips one string as its own; so
`Offered` is a set of addresses, and only where a node's peers are listed under one
name each (`Unaliased`) is the count one of nodes.  A browse leaves the swarm unchanged; `BrowseNext` interleaves it
with every step of `Swarm`.  `disturbed` records that a peer was lost or a list
was missed or torn meanwhile, which is when the numbers may be off.

### Variants

A definition commented as a variant is not part of the model.  It is the
definition next to it with one plausible fault (a dropped guard, a missing
reset, a swapped order), and `PROJECT.json` (`mutants`) pairs every property
of a passing run with one: with the variant in place of the original, TLC finds
that property violated in that very run.

## 3. Runs

Each run finishes in under two minutes with two workers.  State counts are of
distinct states.

| Run | Instance | Shows |
|---|---|---|
| `round_trip` | all files of up to 5 bytes over two values, chunk sizes 0 to 4, all orders (17,874) | `RoundTrip`, `ChunksTile` |
| `discovery` | 3 nodes on two machines, two of them in TCP mode and one in HTTP mode, two lives each, crashes; command lines that give a node two names and repeat one; three passwords, of which one is too long to be hashed (56,752) | `RegistryInv` (the inductive invariant of the proofs; `UserSeesFlaggedPeers` is a conjunct), `NoDuplicatePeers`, `KnownPeersAdmitted`, `RegistryOnlyGrows`, `LateJoinerBecomesKnown` |
| `share` | 3 nodes, HTTP, one with two names, two that list themselves; damaged chunks, crashes; two uploads out of two overlapping versions, one download (1,957,436 up to symmetry) | `LoadBalanced`, `SelfProbedForCause`, `DownloadCorrect`, `PrimaryKeepsVersion`, `ChunksAccounted`, `StoreIsContentAddressed`, `NothingIsUnshared` |
| `relay` | 3 nodes, HTTP, crashes; one upload of a version or an empty file, two downloads, the second of which may use what the first relays (121,817) | `AdvertisedIsServable`, `DownloadFailsForCause`, `DownloadEnds`, `SingleVersionSucceeds` |
| `faults` | 2 nodes from their start over TCP, two lives, every fault (398,181) | `CauseInv` (the inductive invariant of the proofs; `SourcesInv`, `SafetyInv` with `TypeOK`, and `RegistryInv` are conjuncts of it), `ServiceImplemented` (refinement of `FileService`) |
| `browse` | 3 nodes, HTTP, crashes, one of them known under two names and one that starts late; one upload, one download, one browse (362,566) | `AvailabilityIsReal`, `BrowseComplete`, `BrowseEnds` |
| `wire` | one call, a header of 2 bytes, payloads from none to one over the limit, cuts, a deadline (3,240) | `WireInv` (inductive), `FailedForCause`, `CallImplemented` (refinement of `RemoteCall`), `CallEnds`, `HandlerEnds` |
| `durable` | 2 nodes that share the file, 3 registrations for 2 names, failing reads and writes, crashes, 4 starts (704,049 up to symmetry) | `StoreInv` (inductive), `AcknowledgedIsOnDisk`, `NameHasOneOwner`, `AccountsAreKept`, `LoneSaveRepairs`, `AccountBookImplemented` (refinement of `AccountBook`) |
| `sessions` | one name, two accounts, two tokens, one browser with two visits open, sessions of one tick on a clock of two (1,000,276) | `SessionInv` (inductive), `AcceptedWasLive`, `RefusedForCause`, `StatusNamesOwner`, `LoggedOutIsNotShown`, `ExpiredIsReaped` |

`SelfProbedForCause` says when a node asks itself for chunks, contrary to the
comment at `downloader.go:52`: under another spelling of its own that is on its
command line, or over TCP under its own TCP address, as the check at
`downloader.go:56` compares with the HTTP address whatever the transport.  `share` has a node
that lists itself under a second name and one that lists itself under its own;
the first is asked, the second is not.  It does no harm to what is downloaded.
The same aliases decide whether a browse counts nodes or only addresses
(`AvailabilityIsReal`, with p1 of `browse` listing one node twice).

`DownloadCorrect` is in `share` because there an answer may be damaged and peers
hold two versions that share a block: a blend is what it excludes.

`share` and `durable` use symmetry (upload requests; registration requests and
names), which is sound there: both check invariants and action properties only,
and the instances treat these values alike.

`faults` loses and damages answers, so what `CauseInv` says of a network that
does neither is empty there; `relay`, whose only fault is crashes, is where
`DownloadFailsForCause` has to hold for that reason (a download that is sent to
a peer without the file, as in the mutant of `HasFile`, breaks it).

Runs that end in a violation, each of one sentence the repository says of the
program (`findings` in `PROJECT.json` quotes it and tells the story):

| Run | Property | In short |
|---|---|---|
| `torn` | `MetadataIsOneVersion` | a download works from torn metadata |
| `disk` | `DiskHoldsOneVersion` | two downloads of one name blend on disk |
| `autosave` | `AutoSaveCatches` | `dirty` is cleared before the write succeeds |

Known divergences.  Reading the code for the models met nine more places where
it does not do what the repository says, or where nothing says what it should
do.  They are behaviours of the modules, and no run is spent on them:

* A node registers with each peer once, at start (`main.go:89`), and a failure is
  logged; README.md:70 presents the registration as what makes nodes known to
  each other.  If the other node's listener comes up a moment later the two stay
  strangers in that direction (`RegisterFails` in `Registry`;
  `LateJoinerBecomesKnown` states the part that does hold).
* README.md:27 speaks of peers that have the chunks; `findPeersWithFile` chooses
  them by name (`downloader.go:64`) and throws away the metadata they answer with.
  A peer with another version of that name fails its share and so the download,
  although the primary has every chunk.  `DownloadFailsForCause` and
  `SingleVersionSucceeds` state the success that is guaranteed.
* Two saves of the accounts may overlap (`auth.go:164` runs without a lock), and
  the older copy may be written last; `auth_handler.go:120` says "Save to disk
  immediately after registration".  `AcknowledgedIsOnDisk` names the condition.
* A download registers the file when it ends (`downloader.go:162`), over an
  entry that an upload of the same name made meanwhile.  Nothing says which of
  the two should stay.
* Every node announces `localhost:<port>` (`main.go:69-74`), although README.md:143
  speaks of a LAN.  On another machine the announced string names that machine's
  own port: the joiner does not become known there, and the node that listed it
  may call itself.  `Announced` in `LateJoinerBecomesKnown` is the condition under
  which registration works.
* A node listed under two spellings is two peers to its registry: it is given two
  shares of the chunks, and counted twice by a browse (`Unaliased`); under another
  spelling of its own a node also asks and counts itself (`SelfProbedForCause`).
* Nodes started in one directory share `users.json` and overwrite each other's
  accounts: A registers alice, B, which was up already, registers bob, and alice is
  gone from disk although nothing failed.  `stale` marks it.
* A network password over 72 bytes cannot be hashed, and the node goes on with an
  open network (`network.go:25-29`), while main's help text for the flag says that peers must
  provide it.
* The comment of `AuthRegisterHandler` (`auth_handler.go:82`) and the diagram in
  `docs/architecture.md` have a registration log the user in; the handler makes
  no session.

Bounds.  Three nodes are enough for a requester, a primary and a second
source, with a registry order that matters; two suffice where no third party
takes part.  Two uploads and two versions of a name give every relation between
versions (same, other, overlapping by a block, longer, empty); chunks of two or
three blocks spread over up to three peers give uneven shares and every order
of arrival.  Two lives of a node give every crash and restart once; a third adds
nothing that the empty memory of the second does not have.  Two machines, one
with two nodes, are the smallest place where an address means different nodes and
a node has different addresses.  Two nodes that share a file, with three
registrations for two names and four starts, let each lose what the other wrote and
read it again, with a third request to claim the lost name.  Two downloads are the
smallest number for which relaying and clashing on disk happen.  One name with two
accounts is what a restart that forgets an account can confuse; two tokens and
two visits let a login, a logout and an expiry overlap, in one browser whose
answers overtake each other; a session of one tick and a clock of two reach the
last instant of a session and the one after it.  Headers of two bytes and
payloads of zero to three bytes with a limit of two reach every boundary of
`ReadMessage`: half a header, no payload, half a payload, the limit and one
over.  The bounded quantities are constants: `MaxIncarnation`, `MaxStarts`,
`MaxTime`, `MaxLength`, `ChunkSizes`, and the finite sets of requests, visits
and tokens.  Runs of `MCSwarm` other than
`faults` start when all nodes are up and registered (`AllUp`), a state
`Registry` reaches.

`CHECK_DEADLOCK FALSE` is set in every run: requests are finitely many and
nodes may stop, so every instance comes to rest.

Fairness.  `Fairness` of `Swarm` is weak fairness of each accepted request's
steps: Go runs its goroutine, and a call returns because both transports time
out (`http_transport.go:26`, `tcp_transport.go:29`).  Nothing forces users to
make requests, nodes to start or crash, or a race to strike.
`RegistryFairness` is weak fairness of each step of a started process and of
each registration attempt, for the same reason.  `BrowseFairness` is that of a
browse.  `FairSessionSpec` asks only for the reaper's ticker; no visit is forced
to go on.  Of `Wire`, the specification has `ClientFairness` alone: the
caller's goroutine runs and its timers fire, while the other node and the
network may stall for ever, and `CallEnds` holds all the same.  `HandlerEnds`
needs two hypotheses, which it states: the listener's goroutines run, and what
was sent arrives unless the connection breaks (Go switches keep-alive on, so
the connection of a caller that vanished breaks).  `StoreFairness` is weak
fairness of the ticker and of each save once begun.

## 4. Proofs

| Module | Theorems | For any |
|---|---|---|
| `ChunkOrderProofs` | `SortRestoresOrder`: the sort puts the chunk with index k at place k | number of chunks, order of arrival |
| `ChunkingProofs` | `ChunkingInvHolds`, `SplitMergeRoundTrip`, `ChunksTileFile` | length of file, chunk size, order of arrival |
| `RegistryProofs` | `RegistryInvHolds`, `PeersAreDistinct`, `PeersAreAdmitted`, `UsersSeeAllFlags`, `RegistriesOnlyGrow` | nodes, transports, meanings of addresses, command lines, passwords, restarts |
| `SwarmProofs` | `SafetyInvHolds`, `TypeCorrect`, `StoresAreContentAddressed`, `AdvertisedFilesAreServable`, `ChunksAreAccounted`, `DownloadsAreCorrect` | nodes, transports, meanings of addresses, files, blocks, requests, restarts, command lines, set of faults |
| `ServiceProofs` | `SwarmKeepsRegistry`, `NothingUnshared`, `SourcesInvHolds`, `PrimariesKeepVersions`, `SelvesProbedForCause`, `LoadIsBalanced`, `SwarmImplementsService`, `CauseInvHolds`, `DownloadsFailForCause`, `DownloadsAdvance` | as `SwarmProofs` |
| `ServiceProofs` | `BrowsingIsHarmless`, `BrowseInvHolds`, `BrowsesAreComplete`, `AvailabilityShownIsReal`, `BrowsesAdvance` | as `SwarmProofs`, with finitely many nodes and any number of browses |
| `UserStoreProofs` | `StoreInvHolds`, `AcknowledgedAreOnDisk`, `NamesHaveOneOwner`, `AccountsStay`, `LoneSavesRepair`, `StoreImplementsBook` | nodes that share the file, names, requests, overlapping saves, failures, restarts |
| `SessionsProofs` | `SessionInvHolds`, `AcceptedVisitsWereLive`, `RefusalsHaveCause`, `StatusIsTheOwners`, `LogoutHidesTheName` | accounts, tokens, browsers, visits, durations, restarts |
| `WireProofs` | `WireInvHolds`, `CallsFailForCause`, `WireImplementsCall`, `CallsAdvance` | lengths of header and payload, limit |

Each `...Holds` is `Spec => []Inv` for the inductive invariant of its module; the
others state a property of a run by name.

Assumptions: those on the constants in the modules (the type of each constant,
`CollisionFree` for SHA-256, `SizeAssumption` that no payload has 4 GB,
`PeersFinite` for the counts of a browse, and that `None` is none of the values
it stands in for).  TLC evaluates them in every run.  No theorem has a
hypothesis of its own.

Chunking.  The order of arrival is dealt with by `SortRestoresOrder`: the
sorted chunks are those of `SplitFile` in order.  What remains is that cutting
a file at multiples of the chunk size and appending the pieces gives the file.
`FlattenSeq` is a recursive function, and an induction over it cannot be stated
for this prover; `FlattenByPrefixes` takes the least number of chunks at which
what is joined so far differs from the prefix of the file (there would be one,
as `<` is well-founded on the naturals) and shows that they differ one chunk
earlier already.  `ChunkingInv` says
what has arrived: chunks of the file, each once, and all of them once merged.

The swarm.  `DownloadCorrect` alone is not inductive: that a finished
download holds an uploaded version rests on what it held when it collected its
results, which rests on where its metadata came from, on the chunks being
counted exactly once, and on each result matching the digest of its place.
`SafetyInv` conjoins these:

* places and types (`TypeOK`, `UploadsTyped`, `DownloadsTyped`): which local
  variables hold what at each `pc`;
* `ChunksAccounted`: waiting goroutines, answers and results partition the
  positions of the file;
* `ResultsVerified`, `RegisteredIsStored`, `UploadsStored`: what a request has
  got through is in its node's store;
* `SharedIsUploaded`, `FetchedIsUploaded`, `ReassembledIsUploaded`: metadata
  and data trace back to an upload, unless the race struck;
* `StoreIsContentAddressed`, `AdvertisedIsServable`, `WritesOpened`.

The proof has two halves.  `TypesInv` is the first two groups; `SafetyInv2`
restates the others per request (`SafeDownload`, `SafeUpload`, `SafeMeta`) as
predicates of the stores, versions and disks, so that lemmas such as
`SafeDownloadStable` say once that they survive any step by which these only
grow.  Each action has a lemma in each half; `NextSafetyInv` puts them together.
`CollectResults` is the interesting step: by `CollectedIsComplete` the results
form a complete sequence, by `SortRestoresOrder` they merge in order, and by
`MergedIsVersion` (no collisions) the merged blocks are the version the metadata
was made from.

The sources of a download. `NothingUnshared` comes first: by `SafetyInv` the
records of requests under way are typed, so every write of `sharedFiles` and
`chunkData` puts something in place of something. `PrimaryKeepsVersion`
follows, as what an entry names is in the store when the metadata is read
(`AdvertisedIsServable`) and stays there as long as the process lives;
a download remembers which process each node was when the metadata came
(`epoch`, a history variable), and `EpochsPast` says that a later one is never
mistaken for it. `SourcesDistinct` holds because no registry lists an address twice
(`NoDuplicatePeers`) and a probed address leaves the list of those to probe. It
also says that what was probed came from the command line or from an announcement
(`Listable`), was not `Skipped` and answered over the node's own transport, which is
what `SelvesProbedForCause` needs: of the announced strings, only its own leads a
node to itself (`LoopbackAssumption`).
`SourcesInv` conjoins these with `SafetyInv` and `RegistryInv`.
`LoadIsBalanced` then is arithmetic: as the sources are distinct, the load of
one is the number of turns of its place in the list (`LoadIsTurns`), and every
turn of one place but the first is matched by a turn of any other place one
round earlier (`RoundRobin`).

The file service.  `SwarmImplementsService` maps a download to `idle`,
`pending`, `answered` or `refused` (`RequestOf`), and the versions a name has
had to those the service knows. Most steps stutter (`RequestOfRecord`); the
beginning of an upload is the service's `Publish`; a download that ends well
answers with an uploaded version because of `FetchedIsUploaded` and
`ReassembledIsUploaded`, unless the race struck, in which case the service
promises nothing either; everything else that ends a download, a crash of its
node included, is a refusal. `DownloadOutcome` shows this of each action of a
download, and `SwarmStepSimulates` of every step.

Why a download fails.  `DownloadFailsForCause` lists the causes: the node or one
of the sources stopped, an answer was lost or damaged, saving failed, the race
struck, or the file has several versions.  It is the safety half of
`SingleVersionSucceeds`, and what it excludes is a download that is sent to a
peer which cannot serve it.  `CauseInv` adds two things to `SourcesInv`.
`SourcesComplete`: a source that is still the process it was has every chunk.
For the primary that is `PrimaryKeepsVersion`; a peer found by the probe knows
the name, with one version that is the metadata in hand, so
`AdvertisedIsServable` gives the chunks, and `NothingIsUnshared` keeps them.
`ArrivedGood`: no answer under way is damaged, and none collected is missing,
while the download is `Undisturbed`.  A download cannot become undisturbed
again (`UndisturbedBefore`), so the second is inductive, and
`UndisturbedIsUsable` says that such a download passes `CollectResults`.

Getting nearer the end. `DownloadsAdvance` and `BrowsesAdvance` are the measures
behind `DownloadEnds` and `BrowseEnds`: a step of a download ends a stage, asks
one peer of a list that only shrinks, or takes one chunk from those waited for,
and no step of anybody else changes it otherwise; likewise for a browse.
`CallsAdvance` is that of `CallEnds` and `HandlerEnds`: on a connection every
step brings something forward, and the bytes are bounded by `BytesInOrder`. What
is left to model checking is that fairness makes these steps happen.

Browsing.  A browse changes nothing in the swarm (`BrowsingIsHarmless`), so all
theorems on `Spec` are available.  That the number shown at the end lies between
the addresses where the file was offered at first and those where it is now is not
inductive, as it says nothing of a browse under way.  `TallyBetween` says it of the
addresses that have been asked already: leaving out those in `Left`, the ones still to
be asked, the offers of the beginning are at most the count, and the count is at
most the present offers.  A turn of the loop takes one address out of `Left` and may
raise each of the three by one (`HeardIsShared` orders them; `BrowsePlaces` says
that no address is asked twice, and the node's own never); a step of the
swarm only adds offers (`OffersGrow`, from `NothingUnshared`), or ends a process, which
marks the browse as `disturbed`.  What is counted is finite because a registry is a
sequence (`KnownFinite`).  `GoodBrowse` states the invariant of one record, so that
both kinds of step are looked at once.  Where addresses are `Unaliased`, what each
leads to is an injection into the other nodes that share the file
(`OffersAreSharers`), and the bound on addresses becomes one on nodes.

The registries.  That every flagged address is known when users come
(`UserSeesFlaggedPeers`) needs `BootingFromFlags`: what the loop has not reached
is still in `boot`.  That every known address was admitted
(`KnownPeersAdmitted`) needs `RegistrationsFromFlags`: a registration under way
is from a node that has the other on its command line, whatever became of that
node since, and carries the string that node announces, whatever it means at the
other end.  `AddPeerFacts` says what `AddPeer` does to a list; its uses are one
lemma per action.

The user store.  The invariant is proved in three parts, each inductive on top of
the ones before.  `SourceInv` (types, and where accounts come from) holds
whatever happens to the file, and is what `StoreImplementsBook` rests on: a file
that parses holds accounts granted under these names, by whichever node wrote
it.  `KnownInv` says what a save has in its hands: a node knows whom it is
registering (`OwnAccountsKnown`), other nodes are stale once it has truncated the file
(`OthersStale`), and the copy of a save that is alone has everybody its node knows
(`LoneSave`), which gives `LoneSavesRepair`.  `DiskInv` (nobody acknowledged is missing)
holds while `exposed` is false, and needs one thing about each place an account
passes: `FreshComplete` for the maps that are not stale, `CopyComplete` for the copy
in the hands of a saver, `FileComplete` for the file, and `SavesTakeTurns` so that
there is one such copy.

The sessions.  A visit carries what it read before a lock was given up, so the
invariant says of every such value what remains true of it: the session in its
hand is the one its token was issued for and its name still belongs to the
account that logged in (`Owned`), or the visit was live when it began
(`VisitTraced`).  `VisitSafe` states this of one visit as a function of the
tables; `VisitStable` says once that it survives every step by which names stay
granted, sessions only go, and time only advances; each action then only has to
be looked at for the visit that takes it.  `LoggedOutIsNotShown` rests on
`FreshTokens`: nobody else has the token of a login that has not been answered,
so no logout of it can have been answered either.  The end of a process ends
every token (`ended`), so whatever accounts the next start brings back, no
session of the old process meets them.

The wire.  `FailedForCause` rests on `BytesInOrder` (no byte arrives that was not
sent, none is sent beyond the message) and `ClosedForCause` (a listener that
closed first had sent the whole answer, or had cause): a reader that has met the
other side's close has all bytes sent before it.  For the refinement,
`WholeRequestHandled` shows that the handler's step is `Execute`, and `PayloadIsWhole`
that what the caller returns has the length of what the handler answered.

Only model-checked: the liveness properties `LateJoinerBecomesKnown`,
`DownloadEnds`, `SingleVersionSucceeds`, `BrowseEnds`, `ExpiredIsReaped`,
`CallEnds` and `HandlerEnds`, because fairness and `ENABLED` are out of the
prover's reach. The other way round, `DownloadAdvances`, `BrowseAdvances` and
`CallAdvances` are proved and in no run. Every invariant and action property
that a passing run checks is also a theorem. Of the inductive invariants,
`RegistryInv`, `CauseInv` (with `SourcesInv` and `SafetyInv`), `StoreInv`,
`SessionInv` and `WireInv` are checked by a run as well; `ChunkingInv` and
`BrowseInv` are stated for the proofs, and what they are for (`RoundTrip`,
`ChunksTile`, `BrowseComplete`, `AvailabilityIsReal`) is in a run.

## 5. Plan

Done: registry, chunking, the swarm, the abstract service, the user store,
sessions, the wire, browsing; an inductive invariant of each; the refinements of
`FileService`, `AccountBook` and `RemoteCall`.  Still to do:

1. `AccountBook` as `Sessions` uses it and as `UserStore` implements it are the
   same module; a theorem that composes the two would say of `StatusNamesOwner`
   that it holds on top of the store's own steps.
2. That `AllUp`, from which four runs start, is a reachable state.

## 6. Not modelled

* The framing and the timeouts of HTTP, which are `net/http`'s: a call over HTTP
  is the call of `RemoteCall`, answered or failed.
* JSON encoding and the hexadecimal form of digests, which lose nothing and touch
  no state.  Of bcrypt, what is modelled is which passwords it tells apart and
  which it refuses (`Compared`).
* The age that the login handler gives the cookie (`auth_handler.go:63`): a browser of
  `Sessions` keeps its cookie until an answer replaces or clears it.  A browser that
  drops it earlier only sends no token.
* Documents of `users.json` that are overwritten in part and happen to parse.
* Sizes of files and names of peers and users for display (`FetchPeerInfo`'s
  answer is shown and not used).
* Request validation (methods, missing parameters, lengths of passwords), which
  changes no state.
* `ChunkMap`, `ReceivedChunks`, `AddChunkLocation` and `HasFile` of `Peer`, which
  no code uses.
* The 32-bit length field of a frame wraps at 4 GB; no message comes near that
  (`SizeAssumption`).
* The web pages, which call the handlers and keep no state that other
  components read.

Two sentences of the repository's README have no code behind them at all and
so nothing to model: that a registering node shares a catalogue of its files
(README.md:70) and that nodes gossip chunks in the background (README.md:72).

## 7. Running

    tlc -config MCSwarm_relay.cfg MCSwarm      # likewise for the other runs
    tlapm SwarmProofs.tla                      # likewise for the other proofs
