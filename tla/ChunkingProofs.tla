--------------------------- MODULE ChunkingProofs ---------------------------
(***************************************************************************)
(* Splitting and merging are inverse, for files of any bytes and length,   *)
(* every chunk size and every order of arrival.                            *)
(*                                                                         *)
(* Three facts carry the proof.  The chunks tile the file (ChunkBounds);   *)
(* sorting a complete set of chunks gives them back in the order of the    *)
(* file (SortRestoresOrder); and what is joined after each of them is the  *)
(* prefix of the file that ends where the chunk ends (JoinRestoresFile).   *)
(* FlattenSeq is a recursive function of the community modules: that no    *)
(* other function satisfies its equation is proved with the least place    *)
(* at which two could differ.                                              *)
(***************************************************************************)
EXTENDS Chunking, ChunkOrderProofs, SequenceTheorems, WellFoundedInduction

\* The number of chunks is the least that covers the file
\* (file/chunking.go, math.Ceil of len(data) / chunkSize).
LEMMA TotalChunksBounds ==
    ASSUME NEW S, NEW data \in Seq(S), NEW size \in Nat \ {0}
    PROVE  /\ TotalChunks(data, size) \in Nat
           /\ (TotalChunks(data, size) - 1) * size < Len(data)
           /\ Len(data) <= TotalChunks(data, size) * size
<1> DEFINE len == Len(data)
           n == (len + size - 1) \div size
<1>1. len \in Nat
  OBVIOUS
<1> HIDE DEF len
<1>2. n \in Nat /\ (n - 1) * size < len /\ len <= n * size
  BY <1>1, SMTT(60)
<1> QED
  BY <1>2 DEF TotalChunks, len

\* Multiplication by a chunk size is monotone.
LEMMA TimesMonotone ==
    ASSUME NEW a \in Int, NEW b \in Int, NEW size \in Nat, a <= b
    PROVE  a * size <= b * size
BY SMTT(60)

\* The next multiple of a chunk size.
LEMMA TimesNext ==
    ASSUME NEW a \in Nat, NEW size \in Nat
    PROVE  a * size \in Nat /\ (a + 1) * size = a * size + size
BY SMTT(60)

\* The smaller of two lengths.
LEMMA MinOfTwo ==
    ASSUME NEW a \in Int, NEW b \in Int
    PROVE  Min({a, b}) = IF a <= b THEN a ELSE b
<1> DEFINE IsMin(x) == \A y \in {a, b} : x =< y
           least == IF a <= b THEN a ELSE b
<1>1. least \in {a, b} /\ IsMin(least)
  OBVIOUS
<1>2. \A x \in {a, b} : IsMin(x) => x = least
  OBVIOUS
<1>3. Min({a, b}) = CHOOSE x \in {a, b} : IsMin(x)
  BY DEF Min
<1> HIDE DEF IsMin
<1> QED
  BY <1>1, <1>2, <1>3

\* Where the first k chunks of a file end.
ChunkEnd(data, size, k) == IF k * size <= Len(data) THEN k * size ELSE Len(data)

\* Chunk i begins inside the file, where the chunks before it end; it is full
\* unless it is the last, and never empty (chunking.go, SplitFile).
LEMMA ChunkBounds ==
    ASSUME NEW S, NEW data \in Seq(S), NEW size \in Nat \ {0},
           NEW n, n = TotalChunks(data, size), NEW i \in 0 .. n - 1
    PROVE  /\ ChunkEnd(data, size, i) = i * size
           /\ i * size \in Nat /\ i * size < Len(data)
           /\ ChunkEnd(data, size, i + 1) \in i * size + 1 .. Len(data)
           /\ ChunkData(data, size, i)
                = SubSeq(data, i * size + 1, ChunkEnd(data, size, i + 1))
           /\ ChunkData(data, size, i) \in Seq(S)
           /\ IF i < n - 1 THEN Len(ChunkData(data, size, i)) = size
              ELSE Len(ChunkData(data, size, i)) \in 1 .. size
<1> DEFINE len == Len(data)
           low == i * size
           high == (i + 1) * size
           end == IF high <= len THEN high ELSE len
<1>1. len \in Nat /\ n \in Nat /\ (n - 1) * size < len /\ len <= n * size
  BY TotalChunksBounds
<1>2. low \in Nat /\ high = low + size
  BY <1>1, TimesNext
<1>3. low <= (n - 1) * size
  BY <1>1, TimesMonotone
<1>4. (n - 1) * size \in Int /\ n * size \in Int
  BY <1>1
<1>5. low < len
  BY <1>1, <1>2, <1>3, <1>4
<1>6. i < n - 1 => high <= (n - 1) * size
  <2> SUFFICES ASSUME i < n - 1 PROVE (i + 1) * size <= (n - 1) * size
    OBVIOUS
  <2>1. i + 1 \in Int /\ n - 1 \in Int /\ i + 1 <= n - 1
    BY <1>1
  <2> QED
    BY <2>1, TimesMonotone
<1>7. ChunkData(data, size, i) = SubSeq(data, low + 1, end)
  <2>1. high \in Int /\ len \in Int
    BY <1>1, <1>2
  <2>2. Min({high, len}) = end
    <3> HIDE DEF high, len
    <3> QED
      BY <2>1, MinOfTwo
  <2> QED
    BY <2>2 DEF ChunkData
<1>8. ChunkEnd(data, size, i) = low /\ ChunkEnd(data, size, i + 1) = end
  BY <1>5 DEF ChunkEnd
<1> HIDE DEF low, high
<1>9. end \in low + 1 .. len
  BY <1>1, <1>2, <1>5
<1>10. /\ SubSeq(data, low + 1, end) \in Seq(S)
       /\ Len(SubSeq(data, low + 1, end)) = end - low
  <2>1. \A j \in low + 1 .. end : data[j] \in S
    BY <1>2, <1>9
  <2>2. low + 1 \in Int /\ end \in Int /\ low + 1 <= end
    BY <1>2, <1>9
  <2> HIDE DEF end
  <2> QED
    BY <1>2, <2>1, <2>2, SubSeqProperties
<1>11. IF i < n - 1 THEN end - low = size ELSE end - low \in 1 .. size
  BY <1>1, <1>2, <1>4, <1>5, <1>6
<1> QED
  BY <1>2, <1>5, <1>7, <1>8, <1>9, <1>10, <1>11 DEF low

\* The chunks of a file, one for each index (chunking.go, SplitFile).
LEMMA SplitChunks ==
    ASSUME NEW data, NEW size
    PROVE  Range(SplitFile(data, size)) =
              {[index |-> i, data |-> ChunkData(data, size, i)] :
                  i \in {k - 1 : k \in 1 .. TotalChunks(data, size)}}
BY DEF SplitFile, Range

-----------------------------------------------------------------------------
\* What a recursive concatenation has joined after each sequence.
RunningJoin(joined, seqs) ==
    joined = [i \in 1 .. Len(seqs) |->
                IF i = 1 THEN seqs[i] ELSE joined[i-1] \o seqs[i]]

\* One step of the concatenation.
LEMMA PrefixesStep ==
    ASSUME NEW seqs, NEW joined, RunningJoin(joined, seqs), NEW i \in 1 .. Len(seqs)
    PROVE  joined[i] = IF i = 1 THEN seqs[i] ELSE joined[i-1] \o seqs[i]
<1> DEFINE body == [j \in 1 .. Len(seqs) |->
                      IF j = 1 THEN seqs[j] ELSE joined[j-1] \o seqs[j]]
<1>1. body[i] = IF i = 1 THEN seqs[i] ELSE joined[i-1] \o seqs[i]
  OBVIOUS
<1>2. joined = body
  BY DEF RunningJoin
<1> HIDE DEF body
<1> QED
  BY <1>1, <1>2

\* Whatever joins the sequences one by one ends at their concatenation, which
\* is how MergeChunks appends each chunk's data (chunking.go, MergeChunks).
LEMMA FlattenByPrefixes ==
    ASSUME NEW seqs, Len(seqs) \in Nat \ {0}, NEW joined, RunningJoin(joined, seqs)
    PROVE  FlattenSeq(seqs) = joined[Len(seqs)]
<1> DEFINE n == Len(seqs)
           flat == CHOOSE f : RunningJoin(f, seqs)
           wrong == {i \in 1 .. n : flat[i] # joined[i]}
           R == OpToRel(<, Nat)
<1>1. FlattenSeq(seqs) = flat[n]
  BY DEF FlattenSeq, RunningJoin
<1>2. RunningJoin(flat, seqs)
  OBVIOUS
<1> HIDE DEF flat
<1>3. \A i \in 1 .. n : flat[i] = IF i = 1 THEN seqs[i] ELSE flat[i-1] \o seqs[i]
  BY <1>2, PrefixesStep
<1>4. \A i \in 1 .. n : joined[i] = IF i = 1 THEN seqs[i] ELSE joined[i-1] \o seqs[i]
  BY PrefixesStep
<1>5. ASSUME wrong # {} PROVE FALSE
  <2>1. IsWellFoundedOn(R, Nat)
    BY NatLessThanWellFounded
  <2>2. wrong \subseteq Nat
    OBVIOUS
  <2>3. PICK i \in wrong : \A j \in wrong : <<j, i>> \notin R
    <3> HIDE DEF wrong, R
    <3> QED
      BY <1>5, <2>1, <2>2, WFMin
  <2>4. \A j \in wrong : ~(j < i)
    <3>1. \A j \in Nat : j < i => <<j, i>> \in R
      BY <2>2 DEF OpToRel
    <3> QED
      BY <2>2, <2>3, <3>1
  <2>5. i \in 2 .. n
    BY <1>3, <1>4
  <2>6. i - 1 \in 1 .. n /\ i - 1 \notin wrong
    BY <2>4, <2>5
  <2>7. flat[i - 1] = joined[i - 1]
    BY <2>6
  <2> QED
    BY <1>3, <1>4, <2>5, <2>7
<1>6. n \in 1 .. n
  OBVIOUS
<1> QED
  BY <1>1, <1>5, <1>6

\* The data of the chunks, joined in the order of the file, is the file.
LEMMA JoinRestoresFile ==
    ASSUME NEW S, NEW data \in Seq(S), NEW size \in Nat \ {0},
           NEW n, n = TotalChunks(data, size),
           NEW seqs, seqs = [k \in 1 .. n |-> ChunkData(data, size, k - 1)]
    PROVE  FlattenSeq(seqs) = data
<1> DEFINE prefix(k) == SubSeq(data, 1, ChunkEnd(data, size, k))
           joined == [k \in 1 .. n |-> prefix(k)]
<1>1. n \in Nat /\ (n - 1) * size < Len(data) /\ Len(data) <= n * size
  BY TotalChunksBounds
<1>2. Len(data) \in Nat /\ Len(seqs) = n
  BY <1>1
<1>3. CASE n = 0
  <2>1. seqs = <<>> /\ Len(data) = 0
    BY <1>1, <1>2, <1>3
  <2>2. data = <<>>
    BY <2>1
  <2> QED
    BY <2>1, <2>2 DEF FlattenSeq
<1>4. CASE n # 0
  <2>1. ASSUME NEW k \in 1 .. n
        PROVE  prefix(k) = IF k = 1 THEN seqs[k] ELSE prefix(k - 1) \o seqs[k]
    <3> DEFINE low == (k - 1) * size
               end == ChunkEnd(data, size, k)
    <3>1. k - 1 \in 0 .. n - 1 /\ (k - 1) + 1 = k
      BY <1>1
    <3>2. /\ ChunkEnd(data, size, k - 1) = low
          /\ low \in Nat /\ low < Len(data)
          /\ end \in low + 1 .. Len(data)
          /\ seqs[k] = SubSeq(data, low + 1, end)
      <4>1. seqs[k] = ChunkData(data, size, k - 1)
        OBVIOUS
      <4> QED
        BY <3>1, <4>1, ChunkBounds
    <3>3. k = 1 => low = 0
      BY SMTT(30)
    <3> HIDE DEF low, end
    <3>4. CASE k = 1
      BY <3>2, <3>3, <3>4 DEF end
    <3>5. CASE k # 1
      <4>1. prefix(k - 1) = SubSeq(data, 1, low)
        BY <3>2
      <4>2. /\ 1 \in 1 .. Len(data) + 1
            /\ low \in 1 - 1 .. Len(data)
            /\ end \in low .. Len(data)
        BY <1>2, <3>2
      <4>3. SubSeq(data, 1, low) \o SubSeq(data, low + 1, end) = SubSeq(data, 1, end)
        BY <4>2, ConcatAdjacentSubSeq
      <4> QED
        BY <3>2, <3>5, <4>1, <4>3 DEF end
    <3> QED
      BY <3>4, <3>5
  <2>2. RunningJoin(joined, seqs)
    <3>1. ASSUME NEW k \in 1 .. n
          PROVE  prefix(k) = IF k = 1 THEN seqs[k] ELSE joined[k-1] \o seqs[k]
      <4>1. k = 1 \/ k - 1 \in 1 .. n
        BY <1>1
      <4>2. k = 1 \/ joined[k-1] = prefix(k - 1)
        BY <4>1
      <4> HIDE DEF prefix, joined
      <4> QED
        BY <2>1, <4>2
    <3> QED
      BY <1>2, <3>1 DEF RunningJoin
  <2>3. FlattenSeq(seqs) = joined[n]
    BY <1>1, <1>2, <1>4, <2>2, FlattenByPrefixes
  <2>4. joined[n] = SubSeq(data, 1, Len(data))
    <3>1. ChunkEnd(data, size, n) = Len(data)
      BY <1>1, <1>2 DEF ChunkEnd
    <3> QED
      BY <1>1, <1>4, <3>1
  <2> QED
    BY <2>3, <2>4, SubSeqFull
<1> QED
  BY <1>3, <1>4

\* MergeChunks returns the file when it is given each of its chunks once, in
\* any order.
LEMMA MergeRestoresFile ==
    ASSUME NEW S, NEW data \in Seq(S), NEW size \in Nat \ {0},
           NEW chunks, chunks \in Seq(Range(SplitFile(data, size))),
           Range(chunks) = Range(SplitFile(data, size)),
           \A j, k \in DOMAIN chunks : chunks[j] = chunks[k] => j = k
    PROVE  MergeChunks(chunks) = data
<1> DEFINE n == TotalChunks(data, size)
           all == Range(SplitFile(data, size))
           part(i) == ChunkData(data, size, i)
<1>1. n \in Nat
  BY TotalChunksBounds
<1>2. /\ \A c \in all : c.index \in 0 .. n - 1 /\ c.data = part(c.index)
      /\ \A i \in 0 .. n - 1 : \E c \in all : c.index = i
      /\ \A c, e \in all : c.index = e.index => c = e
  <2>1. all = {[index |-> i, data |-> part(i)] : i \in {k - 1 : k \in 1 .. n}}
    BY SplitChunks
  <2>2. {k - 1 : k \in 1 .. n} = 0 .. n - 1
    <3>1. \A i \in 0 .. n - 1 : i + 1 \in 1 .. n /\ i = (i + 1) - 1
      BY <1>1
    <3> QED
      BY <1>1, <3>1
  <2>3. all = {[index |-> i, data |-> part(i)] : i \in 0 .. n - 1}
    BY <2>1, <2>2
  <2> HIDE DEF all, part, n
  <2>4. \A c \in all : \E i \in 0 .. n - 1 : c = [index |-> i, data |-> part(i)]
    BY <2>3
  <2>5. \A i \in 0 .. n - 1 : [index |-> i, data |-> part(i)] \in all
    BY <2>3
  <2>6. \A c \in all : /\ c.index \in 0 .. n - 1
                     /\ c = [index |-> c.index, data |-> part(c.index)]
    BY <2>4
  <2>7. \A i \in 0 .. n - 1 : \E c \in all : c.index = i
    BY <2>5
  <2> QED
    BY <2>6, <2>7
<1>3. \A j \in DOMAIN chunks : chunks[j] \in all
  OBVIOUS
<1>4. \A c \in all : \E j \in DOMAIN chunks : chunks[j] = c
  BY DEF Range
<1>5. Complete(chunks, 0, n)
  <2> HIDE DEF all, part, n
  <2>1. \A k \in 0 .. n - 1 : \E j \in DOMAIN chunks : chunks[j].index = k
    BY <1>2, <1>4
  <2>2. 0 + n - 1 = n - 1
    BY <1>1
  <2> QED
    BY <1>2, <1>3, <2>1, <2>2 DEF Complete
<1>6. Len(chunks) = n /\ DOMAIN chunks = 1 .. n
  BY <1>1, <1>5, CompleteLen
<1> DEFINE sorted == SortByIndex(chunks)
           seqs == [k \in DOMAIN chunks |-> sorted[k].data]
<1>7. \A k \in 1 .. n : sorted[k] \in all /\ sorted[k].index = k - 1
  <2>1. \A k \in 1 .. n : sorted[k] \in Range(chunks) /\ sorted[k].index = 0 + k - 1
    BY <1>1, <1>5, SortRestoresOrder
  <2> QED
    BY <2>1
<1>8. seqs = [k \in 1 .. n |-> part(k - 1)]
  <2> HIDE DEF all, part, n, sorted
  <2> QED
    BY <1>2, <1>6, <1>7
<1>9. FlattenSeq(seqs) = data
  <2> HIDE DEF seqs
  <2> QED
    BY <1>8, JoinRestoresFile
<1> QED
  BY <1>9 DEF MergeChunks

-----------------------------------------------------------------------------
\* Every file and chunk size is a legal start.
LEMMA ChunkingInitInv == ChunkingInit => ChunkingInv
<1> SUFFICES ASSUME ChunkingInit PROVE ChunkingInv
  OBVIOUS
<1>1. content \in Seq(Byte)
  BY ChunkingAssumption DEF ChunkingInit, SeqOf
<1>2. chunkSize \in Int
  BY ChunkingAssumption DEF ChunkingInit
<1> QED
  BY <1>1, <1>2
     DEF ChunkingInit, ChunkingInv, ChunkingTypeOK, NoChunkLost, RoundTrip

\* SplitFile puts every chunk on its way, or refuses the chunk size.
LEMMA SplitInv ==
    ASSUME ChunkingInv, Split
    PROVE  ChunkingInv'
<1>1. CASE chunkSize <= 0
  BY <1>1 DEF Split, ChunkingInv, ChunkingTypeOK, NoChunkLost, RoundTrip
<1>2. CASE ~(chunkSize <= 0)
  <2>1. Range(arrived) = {} /\ arrived = <<>>
    BY DEF Split, ChunkingInv, Range
  <2> QED
    BY <1>2, <2>1 DEF Split, ChunkingInv, ChunkingTypeOK, NoChunkLost, RoundTrip
<1> QED
  BY <1>1, <1>2

\* A chunk that arrives is under way no longer, and had not arrived before.
LEMMA ReceiveInv ==
    ASSUME ChunkingInv, NEW c \in inTransit, Receive(c)
    PROVE  ChunkingInv'
<1> DEFINE chunks == Range(SplitFile(content, chunkSize))
<1>1. /\ chunkSize > 0 /\ arrived \in Seq(chunks)
      /\ inTransit = chunks \ Range(arrived)
      /\ \A j, k \in DOMAIN arrived : arrived[j] = arrived[k] => j = k
  BY DEF Receive, ChunkingInv, NoChunkLost
<1>2. c \in chunks /\ \A j \in DOMAIN arrived : arrived[j] # c
  BY <1>1 DEF Range
<1>3. arrived' = Append(arrived, c) /\ UNCHANGED chunks
  BY DEF Receive
<1> HIDE DEF chunks
<1>4. /\ arrived' \in Seq(chunks)
      /\ DOMAIN arrived' = 1 .. Len(arrived) + 1
      /\ \A j \in DOMAIN arrived : arrived'[j] = arrived[j]
      /\ arrived'[Len(arrived) + 1] = c
      /\ DOMAIN arrived = 1 .. Len(arrived) /\ Len(arrived) \in Nat
  BY <1>1, <1>2, <1>3
<1>5. Range(arrived') = Range(arrived) \cup {c}
  BY <1>4 DEF Range
<1>6. inTransit' = chunks \ Range(arrived')
  BY <1>1, <1>5 DEF Receive
<1>7. \A j, k \in DOMAIN arrived' : arrived'[j] = arrived'[k] => j = k
  BY <1>1, <1>2, <1>4
<1>8. NoChunkLost'
  <2>1. arrived' \in Seq(chunks')
    BY <1>3, <1>4
  <2> QED
    BY <1>1, <1>3, <1>6, <1>7, <2>1 DEF NoChunkLost, Receive, chunks
<1> QED
  BY <1>8 DEF Receive, ChunkingInv, ChunkingTypeOK, RoundTrip

\* When nothing is under way, MergeChunks returns the file.
LEMMA MergeInv ==
    ASSUME ChunkingInv, Merge
    PROVE  ChunkingInv'
<1> DEFINE chunks == Range(SplitFile(content, chunkSize))
<1>1. /\ content \in Seq(Byte) /\ chunkSize \in Nat \ {0}
      /\ arrived \in Seq(chunks) /\ inTransit = chunks \ Range(arrived)
      /\ inTransit = {}
      /\ \A j, k \in DOMAIN arrived : arrived[j] = arrived[k] => j = k
  BY DEF Merge, ChunkingInv, ChunkingTypeOK, NoChunkLost
<1>2. Range(arrived) = chunks
  <2>1. Range(arrived) \subseteq chunks
    BY <1>1 DEF Range
  <2> QED
    BY <1>1, <2>1
<1>3. merged' = content
  BY <1>1, <1>2, MergeRestoresFile DEF Merge
<1> QED
  BY <1>1, <1>3 DEF Merge, ChunkingInv, ChunkingTypeOK, NoChunkLost, RoundTrip

\* The inductive invariant holds in every reachable state.
THEOREM ChunkingInvHolds == ChunkingSpec => []ChunkingInv
<1>1. ChunkingInv /\ [ChunkingNext]_chunkingVars => ChunkingInv'
  <2> SUFFICES ASSUME ChunkingInv, [ChunkingNext]_chunkingVars PROVE ChunkingInv'
    OBVIOUS
  <2>1. CASE ChunkingNext
    BY <2>1, SplitInv, ReceiveInv, MergeInv DEF ChunkingNext
  <2>2. CASE UNCHANGED chunkingVars
    BY <2>2 DEF chunkingVars, ChunkingInv, ChunkingTypeOK, NoChunkLost, RoundTrip
  <2> QED
    BY <2>1, <2>2
<1> QED
  BY <1>1, ChunkingInitInv, PTL DEF ChunkingSpec

\* MergeChunks returns the bytes SplitFile was given, for every file, every
\* chunk size and every order of arrival (chunking.go).
THEOREM SplitMergeRoundTrip == ChunkingSpec => []RoundTrip
<1>1. ChunkingInv => RoundTrip
  BY DEF ChunkingInv
<1> QED
  BY <1>1, ChunkingInvHolds, PTL

\* Every byte is in exactly one chunk, all chunks but the last are full, and
\* none is empty, at every moment of the transfer (chunking.go, SplitFile).
THEOREM ChunksTileFile == ChunkingSpec => []ChunksTile
<1>1. ChunkingInv => ChunksTile
  <2> SUFFICES ASSUME ChunkingInv, stage = "transfer" PROVE ChunksTile
    BY DEF ChunksTile
  <2> DEFINE n == TotalChunks(content, chunkSize)
             chunks == Range(SplitFile(content, chunkSize))
             part(i) == ChunkData(content, chunkSize, i)
             chunk(i) == [index |-> i, data |-> part(i)]
             all == inTransit \cup Range(arrived)
  <2>1. /\ content \in Seq(Byte) /\ chunkSize \in Nat \ {0}
        /\ arrived \in Seq(chunks) /\ inTransit = chunks \ Range(arrived)
    BY DEF ChunkingInv, ChunkingTypeOK, NoChunkLost
  <2>2. all = chunks
    <3>1. Range(arrived) \subseteq chunks
      BY <2>1 DEF Range
    <3> QED
      BY <2>1, <3>1
  <2>3. n \in Nat
    BY <2>1, TotalChunksBounds
  <2>4. {k - 1 : k \in 1 .. n} = 0 .. n - 1
    <3>1. \A i \in 0 .. n - 1 : i + 1 \in 1 .. n /\ i = (i + 1) - 1
      BY <2>3
    <3> QED
      BY <2>3, <3>1
  <2>5. all = {chunk(i) : i \in 0 .. n - 1}
    BY <2>2, <2>4, SplitChunks
  <2>6. \A i \in 0 .. n - 1 : IF i < n - 1 THEN Len(part(i)) = chunkSize
                              ELSE Len(part(i)) \in 1 .. chunkSize
    BY <2>1, ChunkBounds
  <2> HIDE DEF n, part, all
  <2>7. {c.index : c \in all} = 0 .. n - 1
    <3>1. \A c \in all : c.index \in 0 .. n - 1
      BY <2>5
    <3>2. \A i \in 0 .. n - 1 : chunk(i) \in all /\ chunk(i).index = i
      BY <2>5
    <3> HIDE DEF chunk
    <3> QED
      BY <3>1, <3>2
  <2>8. Cardinality(all) = n
    <3> DEFINE f == [i \in 0 .. n - 1 |-> chunk(i)]
    <3>1. f \in Bijection(0 .. n - 1, all)
      BY <2>5 DEF Bijection, Injection, Surjection, IsInjective
    <3>2. IsFiniteSet(0 .. 0 + n - 1) /\ Cardinality(0 .. 0 + n - 1) = n
      BY <2>3, ShiftedIntervalFinite
    <3>3. 0 + n - 1 = n - 1
      BY <2>3
    <3> QED
      BY <3>1, <3>2, <3>3, FS_Bijection DEF ExistsBijection
  <2>9. \A c \in all : IF c.index < n - 1 THEN Len(c.data) = chunkSize
                       ELSE Len(c.data) \in 1 .. chunkSize
    BY <2>5, <2>6
  <2> QED
    BY <2>7, <2>8, <2>9 DEF ChunksTile, n, all
<1> QED
  BY <1>1, ChunkingInvHolds, PTL
=============================================================================
