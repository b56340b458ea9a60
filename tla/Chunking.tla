------------------------------ MODULE Chunking ------------------------------
(***************************************************************************)
(* Splitting a file into chunks and putting it together again              *)
(* (file/chunking.go): the uploader calls SplitFile, the chunks reach the  *)
(* downloader in any order, and MergeChunks rebuilds the bytes.            *)
(*                                                                         *)
(* A definition introduced as a variant is not part of the model: it is    *)
(* the definition after it with one plausible fault, and stands in for it  *)
(* when a property is tested against that fault (README, "Variants").      *)
(***************************************************************************)
EXTENDS ChunkOrder, Integers

CONSTANTS
    Byte,          \* the bytes of the files considered
    MaxLength,     \* bound on the length of a file
    ChunkSizes     \* the chunk sizes SplitFile is called with

ASSUME ChunkingAssumption == MaxLength \in Nat /\ ChunkSizes \subseteq Int

VARIABLES
    content,       \* the bytes of the file
    chunkSize,     \* the chunk size asked for
    inTransit,     \* the chunks not yet received
    arrived,       \* the chunks received, in order of arrival
    merged,        \* the bytes MergeChunks returned
    stage          \* where the transfer stands

chunkingVars == <<content, chunkSize, inTransit, arrived, merged, stage>>

\* Variant: one chunk more than the full ones, needed or not.
TotalChunksFloor(data, size) == Len(data) \div size + 1

\* ceil(len(data) / chunkSize); the code computes it in float64, which is
\* exact for every length below 2^53.
TotalChunks(data, size) == (Len(data) + size - 1) \div size

\* The bytes [start, end) of chunk i, the last chunk cut at the end of data.
ChunkData(data, size, i) ==
    SubSeq(data, i * size + 1, Min({(i + 1) * size, Len(data)}))

SplitFile(data, size) ==
    [k \in 1 .. TotalChunks(data, size) |->
        [index |-> k - 1, data |-> ChunkData(data, size, k - 1)]]

\* Variant: the chunks are joined as they arrived.
MergeChunksUnsorted(chunks) == FlattenSeq([k \in DOMAIN chunks |-> chunks[k].data])

MergeChunks(chunks) ==
    FlattenSeq([k \in DOMAIN chunks |-> SortByIndex(chunks)[k].data])

-----------------------------------------------------------------------------
ChunkingInit ==
    /\ content \in SeqOf(Byte, MaxLength)
    /\ chunkSize \in ChunkSizes
    /\ inTransit = {}
    /\ arrived = <<>>
    /\ merged = <<>>
    /\ stage = "read"

\* SplitFile refuses a chunk size that is not positive.
Split ==
    /\ stage = "read"
    /\ IF chunkSize <= 0
       THEN /\ stage' = "refused"
            /\ UNCHANGED inTransit
       ELSE /\ stage' = "transfer"
            /\ inTransit' = Range(SplitFile(content, chunkSize))
    /\ UNCHANGED <<content, chunkSize, arrived, merged>>

Receive(c) ==
    /\ stage = "transfer"
    /\ inTransit' = inTransit \ {c}
    /\ arrived' = Append(arrived, c)
    /\ UNCHANGED <<content, chunkSize, merged, stage>>

Merge ==
    /\ stage = "transfer"
    /\ inTransit = {}
    /\ merged' = MergeChunks(arrived)
    /\ stage' = "merged"
    /\ UNCHANGED <<content, chunkSize, inTransit, arrived>>

ChunkingNext == Split \/ Merge \/ \E c \in inTransit : Receive(c)

ChunkingSpec == ChunkingInit /\ [][ChunkingNext]_chunkingVars
-----------------------------------------------------------------------------
\* What MergeChunks returns is the file SplitFile was given, whatever the
\* order in which the chunks arrived (chunking.go, chunking_test.go).
RoundTrip == stage = "merged" => merged = content

\* Every byte is in exactly one chunk: all chunks but the last are full and
\* the last is not empty, so a download never fetches an empty chunk and
\* TotalChunks never counts one.
ChunksTile ==
    stage = "transfer" =>
        LET all == inTransit \cup Range(arrived)
            n   == TotalChunks(content, chunkSize)
        IN  /\ {c.index : c \in all} = 0 .. n - 1
            /\ Cardinality(all) = n
            /\ \A c \in all : IF c.index < n - 1 THEN Len(c.data) = chunkSize
                              ELSE Len(c.data) \in 1 .. chunkSize

-----------------------------------------------------------------------------
(***************************************************************************)
(* What the invariants rest on.                                            *)
(***************************************************************************)
ChunkingTypeOK ==
    /\ content \in Seq(Byte)
    /\ chunkSize \in Int
    /\ merged \in Seq(Byte)
    /\ stage \in {"read", "refused", "transfer", "merged"}

\* Each chunk of the file is under way or has arrived, exactly once.
NoChunkLost ==
    LET chunks == Range(SplitFile(content, chunkSize)) IN
    stage \in {"transfer", "merged"} =>
        /\ chunkSize > 0
        /\ arrived \in Seq(chunks)
        /\ inTransit = chunks \ Range(arrived)
        /\ \A j, k \in DOMAIN arrived : arrived[j] = arrived[k] => j = k

\* The inductive invariant of the proofs in ChunkingProofs.
ChunkingInv ==
    /\ ChunkingTypeOK
    /\ stage = "read" => arrived = <<>>
    /\ stage = "merged" => inTransit = {}
    /\ NoChunkLost
    /\ RoundTrip
=============================================================================
