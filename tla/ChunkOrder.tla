----------------------------- MODULE ChunkOrder -----------------------------
(***************************************************************************)
(* The order MergeChunks (file/chunking.go) puts chunks in.  A chunk is a  *)
(* record with an index and data; chunks arrive in any order, each index   *)
(* once.                                                                   *)
(***************************************************************************)
EXTENDS Naturals, SequencesExt

\* How many of the chunks come before position index of the file.
Rank(chunks, index) == Cardinality({c \in Range(chunks) : c.index < index})

\* sort.Slice by Index: the chunk at place k is the one with k - 1 before it.
SortByIndex(chunks) ==
    [k \in 1 .. Len(chunks) |->
        CHOOSE c \in Range(chunks) : Rank(chunks, c.index) = k - 1]
=============================================================================
