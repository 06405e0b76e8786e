------------------------ MODULE LayerStoreReadProofs ------------------------
(***************************************************************************)
(* Proofs about what LayerStore's reads return.                            *)
(***************************************************************************)
EXTENDS LayerStoreProofs

----------------------------------------------------------------------------
(* The choices a read makes are determined by the chunks                   *)

\* HighestEnd, of any chunks with natural ends and a bound on them.
LEMMA HighestEndIs ==
    ASSUME NEW f, NEW chunks, NEW bound \in Nat,
           \A p \in chunks : ChunkAt(f, p).fileRange[2] \in 0..bound
    PROVE  /\ HighestEnd(f, chunks) \in 0..bound
           /\ HighestEnd(f, chunks) \in {0} \cup {ChunkAt(f, p).fileRange[2] : p \in chunks}
           /\ \A p \in chunks : ChunkAt(f, p).fileRange[2] <= HighestEnd(f, chunks)
<1> DEFINE ends == {0} \cup {ChunkAt(f, p).fileRange[2] : p \in chunks}
<1>1. ends \subseteq 0..bound
    OBVIOUS
<1>2. \E x \in ends : \A y \in ends : y <= x
    <2>1. ends \subseteq Nat /\ ends # {} /\ \A y \in ends : y <= bound
        BY <1>1
    <2> HIDE DEF ends
    <2> QED BY <2>1, NatHasMax
<1>3. \E x \in ends : \A p \in chunks : ChunkAt(f, p).fileRange[2] <= x
    BY <1>2
<1>4. /\ HighestEnd(f, chunks) \in ends
      /\ \A p \in chunks : ChunkAt(f, p).fileRange[2] <= HighestEnd(f, chunks)
    BY <1>3 DEF HighestEnd
<1> QED BY <1>1, <1>4

\* Of a set of chunk ids one is the newest, if the layers are bounded and the
\* positions within each of them.
LEMMA NewestExists ==
    ASSUME NEW S, S \subseteq Nat \X Nat, S # {}, NEW bound \in Nat,
           \A p \in S : p[1] <= bound,
           \A i \in Nat : \E length \in Nat : \A p \in S : p[1] = i => p[2] <= length
    PROVE  \E p \in S : \A q \in S : ~Newer(q, p)
<1> DEFINE firsts == {p[1] : p \in S}
<1>1. firsts \subseteq Nat /\ firsts # {} /\ \A y \in firsts : y <= bound
    OBVIOUS
<1>2. PICK i \in firsts : \A y \in firsts : y <= i
    <2> HIDE DEF firsts
    <2> QED BY <1>1, NatHasMax
<1> DEFINE seconds == {p[2] : p \in {q \in S : q[1] = i}}
<1>3. seconds \subseteq Nat /\ seconds # {}
    OBVIOUS
<1>4. PICK j \in seconds : \A y \in seconds : y <= j
    <2>1. PICK length \in Nat : \A p \in S : p[1] = i => p[2] <= length
        BY <1>1
    <2>2. \A y \in seconds : y <= length
        BY <2>1
    <2> HIDE DEF seconds
    <2> QED BY <1>3, <2>1, <2>2, NatHasMax
<1>5. PICK p \in S : p[1] = i /\ p[2] = j
    OBVIOUS
<1>6. \A q \in S : ~Newer(q, p)
    <2> TAKE q \in S
    <2>1. q[1] <= i /\ (q[1] = i => q[2] <= j)
        BY <1>2, <1>4
    <2>2. q[1] \in Nat /\ q[2] \in Nat /\ i \in Nat /\ j \in Nat
        BY <1>1, <1>3
    <2> QED BY <1>5, <2>1, <2>2 DEF Newer
<1> QED BY <1>6

\* And no other.
LEMMA NewestUnique ==
    ASSUME NEW p \in Nat \X Nat, NEW q \in Nat \X Nat, ~Newer(q, p), ~Newer(p, q)
    PROVE  p = q
<1>1. p[1] = q[1] /\ p[2] = q[2]
    BY DEF Newer
<1> QED BY <1>1

\* p is the newest of the chunks that cover an offset.
IsNewest(f, chunks, at, p) ==
    /\ p \in chunks
    /\ ChunkAt(f, p).fileRange[1] <= at /\ at < ChunkAt(f, p).fileRange[2]
    /\ \A q \in chunks :
          ChunkAt(f, q).fileRange[1] <= at /\ at < ChunkAt(f, q).fileRange[2] => ~Newer(q, p)

NewestDecides ==
    \A f, at : \A chunks \in SUBSET (Nat \X Nat) : \A p \in chunks :
        IsNewest(f, chunks, at, p) => ByteAt(f, chunks, at) = ByteFrom(f, p, at)

\* A byte is the newest covering chunk's.
LEMMA ByteAtIs == NewestDecides
<1> SUFFICES ASSUME NEW f, NEW at, NEW chunks \in SUBSET (Nat \X Nat), NEW p \in chunks,
                    IsNewest(f, chunks, at, p)
             PROVE  ByteAt(f, chunks, at) = ByteFrom(f, p, at)
    BY DEF NewestDecides
<1> DEFINE covering == {q \in chunks : ChunkAt(f, q).fileRange[1] <= at
                                         /\ at < ChunkAt(f, q).fileRange[2]}
           newest == CHOOSE q \in covering : \A r \in covering : ~Newer(r, q)
<1>1. p \in covering /\ \A r \in covering : ~Newer(r, p)
    BY DEF IsNewest
<1>2. newest = p
    <2>1. newest \in covering /\ \A r \in covering : ~Newer(r, newest)
        <3> HIDE DEF covering
        <3> QED BY <1>1
    <2>2. newest \in Nat \X Nat /\ p \in Nat \X Nat
        BY <1>1, <2>1
    <2> HIDE DEF newest, covering
    <2> QED BY <1>1, <2>1, <2>2, NewestUnique
<1>3. ByteAt(f, chunks, at) = [q \in covering |-> ByteFrom(f, q, at)][newest]
    BY <1>1 DEF ByteAt
<1> HIDE DEF covering, newest
<1> QED BY <1>1, <1>2, <1>3

----------------------------------------------------------------------------
(* A version reads the same for ever                                       *)

\* What the chunks of a version's layers are, in any state.
LEMMA SeenLayers ==
    ASSUME CatalogInv, NEW f \in Files, NEW i \in DOMAIN layers
    PROVE  /\ LayersSeen(f, i) = {j \in DOMAIN layers : layers[j].file = f /\ j <= i}
           /\ DOMAIN layers = 1..Len(layers)
           /\ Len(layers) \in Nat
           /\ \A j \in DOMAIN layers : j # ActiveId
<1>1. layers \in Seq(Layer) /\ versionSeq \in 0..MaxVersions /\ Len(layers) <= versionSeq
    BY DEF CatalogInv, TypeOK
<1>2. i > 0 /\ DOMAIN layers = 1..Len(layers) /\ Len(layers) \in Nat
    BY <1>1
<1>3. \A j \in DOMAIN layers : j # ActiveId
    BY <1>1, <1>2, BoundsAssumption DEF ActiveId
<1> QED BY <1>2, <1>3 DEF LayersSeen, LayerIdsOf

\* The part of a state that a read of version i of file f depends on.
LEMMA SeenKept ==
    ASSUME CatalogInv, CatalogInv', Kept,
           NEW f \in Files, NEW i \in DOMAIN layers
    PROVE  /\ LayersSeen(f, i)' = LayersSeen(f, i)
           /\ \A j \in LayersSeen(f, i) :
                 /\ j \in DOMAIN layers /\ j # ActiveId
                 /\ ChunksOf(f, j)' = ChunksOf(f, j)
                 /\ layers'[j] = layers[j]
                 /\ objects'[layers[j].key] = objects[layers[j].key]
                 /\ layers[j].key \in DOMAIN objects
                 /\ layers[j].key \in DOMAIN objects'
<1>1. /\ LayersSeen(f, i) = {j \in DOMAIN layers : layers[j].file = f /\ j <= i}
      /\ DOMAIN layers = 1..Len(layers)
      /\ Len(layers) \in Nat
      /\ \A j \in DOMAIN layers : j # ActiveId
    BY SeenLayers
<1>2. DOMAIN layers' = 1..Len(layers') /\ Len(layers') \in Nat
    BY DEF CatalogInv, TypeOK
<1>3. LayersSeen(f, i)' = {j \in DOMAIN layers' : layers'[j].file = f /\ j <= i}
    BY <1>1 DEF LayersSeen, LayerIdsOf
<1>4. \A j \in DOMAIN layers :
          j \in DOMAIN layers' /\ layers'[j] = layers[j]
    BY <1>1, <1>2 DEF Kept
<1>5. LayersSeen(f, i)' = LayersSeen(f, i)
    BY <1>1, <1>2, <1>3, <1>4
<1>6. ASSUME NEW j \in LayersSeen(f, i)
      PROVE  /\ j \in DOMAIN layers /\ j # ActiveId
             /\ ChunksOf(f, j)' = ChunksOf(f, j)
             /\ layers'[j] = layers[j]
             /\ objects'[layers[j].key] = objects[layers[j].key]
             /\ layers[j].key \in DOMAIN objects
             /\ layers[j].key \in DOMAIN objects'
    <2>1. j \in DOMAIN layers /\ j # ActiveId
        BY <1>1
    <2>2. layers'[j] = layers[j] /\ j \in DOMAIN layers'
        BY <1>4, <2>1
    <2>3. ChunksOf(f, j)' = ChunksOf(f, j)
        BY <2>1, <2>2 DEF ChunksOf, ActiveId
    <2>4. /\ layers[j].key \in DOMAIN objects
          /\ layers'[j].key \in DOMAIN objects'
        BY <2>1, <2>2 DEF CatalogInv
    <2> QED BY <2>1, <2>2, <2>3, <2>4 DEF Kept
<1> QED BY <1>5, <1>6

\* Chunks by which a read of version i of file f is assembled.
Seen(f, i) == ChunkIds(f, LayersSeen(f, i))

\* The chunks themselves, and all that is asked of them.
LEMMA SeenChunksKept ==
    ASSUME CatalogInv, CatalogInv', Kept,
           NEW f \in Files, NEW i \in DOMAIN layers
    PROVE  /\ Seen(f, i)' = Seen(f, i)
           /\ \A p \in Seen(f, i) :
                 /\ p \in Nat \X Nat /\ p[1] \in DOMAIN layers
                 /\ p[2] \in DOMAIN layers[p[1]].chunks
                 /\ ChunkAt(f, p) \in Chunk
                 /\ ChunkAt(f, p)' = ChunkAt(f, p)
                 /\ ChunkReadable(f, p)' = ChunkReadable(f, p)
                 /\ \A at \in Nat : ByteFrom(f, p, at)' = ByteFrom(f, p, at)
<1>1. /\ LayersSeen(f, i)' = LayersSeen(f, i)
      /\ \A j \in LayersSeen(f, i) :
                 /\ j \in DOMAIN layers /\ j # ActiveId
                 /\ ChunksOf(f, j)' = ChunksOf(f, j)
                 /\ layers'[j] = layers[j]
                 /\ objects'[layers[j].key] = objects[layers[j].key]
                 /\ layers[j].key \in DOMAIN objects
                 /\ layers[j].key \in DOMAIN objects'
    BY SeenKept
<1>2. Seen(f, i)' = Seen(f, i)
    BY <1>1 DEF Seen, ChunkIds
<1>3. ASSUME NEW p \in Seen(f, i)
      PROVE  /\ p \in Nat \X Nat /\ p[1] \in DOMAIN layers
             /\ p[2] \in DOMAIN layers[p[1]].chunks
             /\ ChunkAt(f, p) \in Chunk
             /\ ChunkAt(f, p)' = ChunkAt(f, p)
             /\ ChunkReadable(f, p)' = ChunkReadable(f, p)
             /\ \A at \in Nat : ByteFrom(f, p, at)' = ByteFrom(f, p, at)
    <2>1. PICK j \in LayersSeen(f, i) : \E k \in DOMAIN ChunksOf(f, j) : p = <<j, k>>
        BY DEF Seen, ChunkIds
    <2>2. PICK k \in DOMAIN ChunksOf(f, j) : p = <<j, k>>
        BY <2>1
    <2>3. p[1] = j /\ p[2] = k
        BY <2>2
    <2>4. /\ j \in DOMAIN layers /\ j # ActiveId
          /\ ChunksOf(f, j)' = ChunksOf(f, j)
          /\ layers'[j] = layers[j]
          /\ objects'[layers[j].key] = objects[layers[j].key]
          /\ layers[j].key \in DOMAIN objects
          /\ layers[j].key \in DOMAIN objects'
        BY <1>1
    <2>5. ChunksOf(f, j) = layers[j].chunks
        BY <2>4 DEF ChunksOf
    <2>6. j \in Nat /\ layers[j].chunks \in Seq(Chunk)
        BY <2>4, LayerFields DEF CatalogInv, TypeOK
    <2>7. k \in Nat /\ ChunkAt(f, p) \in Chunk
        BY <2>2, <2>3, <2>5, <2>6 DEF ChunkAt
    <2>8. ChunkAt(f, p)' = ChunkAt(f, p)
        BY <2>3, <2>4 DEF ChunkAt
    <2>9. ChunkReadable(f, p)' = ChunkReadable(f, p)
        BY <2>3, <2>4, <2>8 DEF ChunkReadable, ObjectReadable, ActiveId
    <2>10. \A at \in Nat : ByteFrom(f, p, at)' = ByteFrom(f, p, at)
        BY <2>3, <2>4, <2>8 DEF ByteFrom, ActiveId
    <2> QED BY <2>2, <2>3, <2>4, <2>5, <2>6, <2>7, <2>8, <2>9, <2>10
<1> QED BY <1>2, <1>3

\* The same bytes at every offset: the newest covering chunk is the same.
LEMMA ByteKept ==
    ASSUME CatalogInv, CatalogInv', Kept,
           NEW f \in Files, NEW i \in DOMAIN layers,
           NEW chunks \in SUBSET Seen(f, i), NEW at \in Nat
    PROVE  ByteAt(f, chunks, at)' = ByteAt(f, chunks, at)
<1> DEFINE covering == {p \in chunks : ChunkAt(f, p).fileRange[1] <= at
                                         /\ at < ChunkAt(f, p).fileRange[2]}
<1>1. \A p \in chunks :
          /\ p \in Nat \X Nat /\ p[1] \in DOMAIN layers
          /\ p[2] \in DOMAIN layers[p[1]].chunks
          /\ ChunkAt(f, p)' = ChunkAt(f, p)
          /\ ByteFrom(f, p, at)' = ByteFrom(f, p, at)
    BY SeenChunksKept
<1>2. CASE covering = {}
    BY <1>1, <1>2 DEF ByteAt
<1>3. CASE covering # {}
    <2>1. covering \subseteq Nat \X Nat
        BY <1>1
    <2>2. Len(layers) \in Nat /\ \A p \in covering : p[1] <= Len(layers)
        BY <1>1, SeenLayers
    <2>3. ASSUME NEW j \in Nat
          PROVE  \E length \in Nat : \A p \in covering : p[1] = j => p[2] <= length
        <3>1. CASE j \in DOMAIN layers
            <4>1. layers[j].chunks \in Seq(Chunk)
                BY <3>1, LayerFields DEF CatalogInv
            <4>2. \A p \in covering : p[1] = j => p[2] \in 1..Len(layers[j].chunks)
                BY <1>1, <4>1
            <4> HIDE DEF covering
            <4> QED BY <4>1, <4>2
        <3>2. CASE j \notin DOMAIN layers
            BY <1>1, <3>2
        <3> QED BY <3>1, <3>2
    <2>4. \E p \in covering : \A q \in covering : ~Newer(q, p)
        <3> HIDE DEF covering
        <3> QED BY <1>3, <2>1, <2>2, <2>3, NewestExists
    <2>5. PICK p \in chunks : IsNewest(f, chunks, at, p)
        BY <2>4 DEF IsNewest
    <2>6. IsNewest(f, chunks, at, p)'
        BY <1>1, <2>5 DEF IsNewest
    <2>7. NewestDecides'
        BY ByteAtIs, PTL
    <2>8. ByteAt(f, chunks, at)' = ByteFrom(f, p, at)'
        BY <1>1, <2>6, <2>7 DEF NewestDecides
    <2>9. ByteAt(f, chunks, at) = ByteFrom(f, p, at)
        BY <1>1, <2>5, ByteAtIs DEF NewestDecides
    <2> QED BY <1>1, <2>8, <2>9
<1> QED BY <1>2, <1>3

LEMMA HighestKept ==
    ASSUME CatalogInv, CatalogInv', Kept,
           NEW f \in Files, NEW i \in DOMAIN layers,
           NEW chunks \in SUBSET Seen(f, i)
    PROVE  /\ HighestEnd(f, chunks)' = HighestEnd(f, chunks)
           /\ HighestEnd(f, chunks) \in Nat
<1> DEFINE ends == {0} \cup {ChunkAt(f, p).fileRange[2] : p \in chunks}
<1>1. \A p \in chunks :
          /\ ChunkAt(f, p).fileRange[2] \in 0..MaxFileSize
          /\ ChunkAt(f, p)' = ChunkAt(f, p)
    BY SeenChunksKept DEF Chunk
<1>2. /\ HighestEnd(f, chunks) \in 0..MaxFileSize
      /\ HighestEnd(f, chunks) \in ends
      /\ \A p \in chunks : ChunkAt(f, p).fileRange[2] <= HighestEnd(f, chunks)
    BY <1>1, HighestEndIs, BoundsAssumption
<1>3. ends' = ends
    BY <1>1
<1>4. HighestEnd(f, chunks)' \in ends'
      /\ \A p \in chunks : ChunkAt(f, p).fileRange[2]' <= HighestEnd(f, chunks)'
    <2>1. \E end \in ends' : \A p \in chunks : ChunkAt(f, p).fileRange[2]' <= end
        BY <1>1, <1>2, <1>3
    <2> QED BY <2>1 DEF HighestEnd
<1>5. ends \subseteq Nat
    BY <1>1, BoundsAssumption
<1>6. HighestEnd(f, chunks)' <= HighestEnd(f, chunks)
    <2>1. HighestEnd(f, chunks)' \in ends
        BY <1>3, <1>4
    <2> QED BY <1>2, <1>5, <2>1
<1>7. HighestEnd(f, chunks) <= HighestEnd(f, chunks)'
    <2>1. HighestEnd(f, chunks)' \in ends
        BY <1>3, <1>4
    <2>2. \A p \in chunks : ChunkAt(f, p).fileRange[2] <= HighestEnd(f, chunks)'
        BY <1>1, <1>4
    <2> QED BY <1>2, <1>5, <2>1, <2>2
<1>8. HighestEnd(f, chunks) \in Nat /\ HighestEnd(f, chunks)' \in Nat
    BY <1>2, <1>3, <1>4, <1>5
<1> QED BY <1>6, <1>7, <1>8

LEMMA ReadWholeKept ==
    ASSUME CatalogInv, CatalogInv', Kept,
           NEW f \in Files, NEW i \in DOMAIN layers
    PROVE  ReadWhole(f, i)' = ReadWhole(f, i)
<1> DEFINE window == <<0, 0 + MaxFileSize>>
<1>1. /\ Seen(f, i)' = Seen(f, i)
      /\ \A p \in Seen(f, i) : /\ p \in Nat \X Nat
                               /\ ChunkAt(f, p)' = ChunkAt(f, p)
                               /\ ChunkReadable(f, p)' = ChunkReadable(f, p)
    BY SeenChunksKept
<1>2. PICK chunks \in SUBSET Seen(f, i) : chunks = OverlappingChunks(f, i, window)
    BY DEF OverlappingChunks, Seen
<1>3. chunks = OverlappingChunks(f, i, window)'
    BY <1>1, <1>2 DEF OverlappingChunks, Seen
<1>4. chunks \in SUBSET (Nat \X Nat)
    BY <1>1
<1>5. HighestEnd(f, chunks)' = HighestEnd(f, chunks) /\ HighestEnd(f, chunks) \in Nat
    BY HighestKept
<1>6. \A p \in chunks : ChunkReadable(f, p)' = ChunkReadable(f, p)
    BY <1>1
<1> DEFINE bytes == [k \in 1..(HighestEnd(f, chunks) - 0) |-> ByteAt(f, chunks, 0 + k - 1)]
           answer == IF HighestEnd(f, chunks) < 0 THEN [status |-> "panic", data |-> << >>]
                     ELSE IF \E p \in chunks : ~ChunkReadable(f, p)
                          THEN [status |-> "error", data |-> << >>]
                     ELSE [status |-> "ok",
                           data |-> SubSeq(bytes, 1,
                                        Min({MaxFileSize, HighestEnd(f, chunks) - 0}))]
<1>7. bytes' = bytes
    <2>1. \A k \in 1..(HighestEnd(f, chunks) - 0) :
              ByteAt(f, chunks, 0 + k - 1)' = ByteAt(f, chunks, 0 + k - 1)
        <3> TAKE k \in 1..(HighestEnd(f, chunks) - 0)
        <3>1. 0 + k - 1 \in Nat
            BY <1>5
        <3> QED BY <3>1, ByteKept
    <2> QED BY <1>5, <2>1
<1>8. answer' = answer
    <2> HIDE DEF bytes
    <2> QED BY <1>5, <1>6, <1>7
<1>9. ReadWhole(f, i) = answer
    BY <1>2, <1>4 DEF ReadWhole, ReadLayers, Assemble
<1>10. ReadWhole(f, i)' = answer'
    BY <1>3, <1>4 DEF ReadWhole, ReadLayers, Assemble
<1> QED BY <1>8, <1>9, <1>10

\* Once committed, a version reads as it does for ever, whatever is written,
\* checkpointed, pinned or restarted (chunks.sql, storage.go:204-232).
THEOREM VersionsReadStable == Spec => VersionReadsStable
<1> DEFINE Stable == \A i \in DOMAIN layers :
                        ReadWhole(layers[i].file, i)' = ReadWhole(layers[i].file, i)
<1>1. CatalogInv /\ CatalogInv' /\ [Next]_vars => [Stable]_vars
    <2> SUFFICES ASSUME CatalogInv, CatalogInv', [Next]_vars, NEW i \in DOMAIN layers
                 PROVE  ReadWhole(layers[i].file, i)' = ReadWhole(layers[i].file, i)
        OBVIOUS
    <2>1. Kept
        BY KeptStep
    <2>2. PICK f \in Files : f = layers[i].file
        BY LayerFields DEF CatalogInv
    <2>3. f = layers'[i].file
        BY <2>1, <2>2 DEF Kept
    <2>4. ReadWhole(f, i)' = ReadWhole(f, i)
        BY <2>1, ReadWholeKept
    <2>5. ReadWhole(layers[i].file, i)' = ReadWhole(f, i)'
        BY <2>3 DEF ReadWhole, ReadLayers
    <2> QED BY <2>2, <2>4, <2>5
<1>2. Spec => []CatalogInv
    BY CatalogCorrect
<1>3. Spec => [][Stable]_vars
    BY <1>1, <1>2, PTL DEF Spec
<1> QED BY <1>3 DEF VersionReadsStable

----------------------------------------------------------------------------
(* Pictures: the bytes that chunks place, by their offsets in the file     *)

Covers(chunk, at) == chunk.fileRange[1] <= at /\ at < chunk.fileRange[2]

\* The last chunk of a layer that covers an offset, and the byte it has there.
LastCovering(chunks, at) ==
    CHOOSE j \in DOMAIN chunks :
        Covers(chunks[j], at) /\ \A k \in DOMAIN chunks : Covers(chunks[k], at) => k <= j

ByteOf(chunks, data, at) ==
    LET chunk == chunks[LastCovering(chunks, at)]
    IN  data[chunk.layerRange[1] + (at - chunk.fileRange[1]) + 1]

LayerPicture(chunks, data) ==
    [at \in {a \in Nat : \E j \in DOMAIN chunks : Covers(chunks[j], a)} |->
        ByteOf(chunks, data, at)]

\* One picture laid over another.
Over(p, q) == [at \in DOMAIN p \cup DOMAIN q |-> IF at \in DOMAIN p THEN p[at] ELSE q[at]]

\* Bytes laid at an offset.
Laid(offset, bytes) ==
    [at \in offset..(offset + Len(bytes) - 1) |-> bytes[at - offset + 1]]

\* Every chunk takes its bytes from the data.
Fits(chunks, data) ==
    \A j \in DOMAIN chunks :
        /\ chunks[j].layerRange[2] <= Len(data)
        /\ chunks[j].layerRange[2] - chunks[j].layerRange[1] =
               chunks[j].fileRange[2] - chunks[j].fileRange[1]
        /\ chunks[j].fileRange[1] < chunks[j].fileRange[2]

LEMMA LastCoveringIs ==
    ASSUME NEW chunks \in Seq(Chunk), NEW at,
           NEW j \in DOMAIN chunks, Covers(chunks[j], at),
           \A k \in DOMAIN chunks : Covers(chunks[k], at) => k <= j
    PROVE  LastCovering(chunks, at) = j
<1> DEFINE last == LastCovering(chunks, at)
<1>1. /\ last \in DOMAIN chunks /\ Covers(chunks[last], at)
      /\ \A k \in DOMAIN chunks : Covers(chunks[k], at) => k <= last
    BY DEF LastCovering
<1>2. DOMAIN chunks \subseteq Nat
    OBVIOUS
<1> HIDE DEF last
<1> QED BY <1>1, <1>2 DEF last

LEMMA LastCoveringType ==
    ASSUME NEW chunks \in Seq(Chunk), NEW at, \E j \in DOMAIN chunks : Covers(chunks[j], at)
    PROVE  LET last == LastCovering(chunks, at)
           IN  /\ last \in DOMAIN chunks /\ Covers(chunks[last], at)
               /\ \A k \in DOMAIN chunks : Covers(chunks[k], at) => k <= last
<1> DEFINE covering == {j \in DOMAIN chunks : Covers(chunks[j], at)}
<1>1. /\ covering \subseteq Nat /\ covering # {} /\ Len(chunks) \in Nat
      /\ \A j \in covering : j <= Len(chunks)
    OBVIOUS
<1>2. PICK j \in covering : \A k \in covering : k <= j
    <2> HIDE DEF covering
    <2> QED BY <1>1, NatHasMax
<1>3. LastCovering(chunks, at) = j
    BY <1>2, LastCoveringIs
<1> QED BY <1>2, <1>3

LEMMA ChunkEnds ==
    ASSUME NEW chunk \in Chunk
    PROVE  /\ chunk.layerRange[1] \in Nat /\ chunk.layerRange[2] \in Nat
           /\ chunk.fileRange[1] \in Nat /\ chunk.fileRange[2] \in Nat
           /\ chunk.fileRange[1] <= MaxFileSize /\ chunk.fileRange[2] <= MaxFileSize
<1>1. chunk.layerRange \in Nat \X Nat /\ chunk.fileRange \in (0..MaxFileSize) \X (0..MaxFileSize)
    BY DEF Chunk
<1> QED BY <1>1, BoundsAssumption

\* A log's chunks take their bytes from its data.
LEMMA TilesFit ==
    ASSUME NEW chunks \in Seq(Chunk), NEW data \in Seq(Nat), Tiles(chunks, data)
    PROVE  Fits(chunks, data)
<1> SUFFICES ASSUME NEW j \in DOMAIN chunks
             PROVE  /\ chunks[j].layerRange[2] <= Len(data)
                    /\ chunks[j].layerRange[2] - chunks[j].layerRange[1] =
                           chunks[j].fileRange[2] - chunks[j].fileRange[1]
                    /\ chunks[j].fileRange[1] < chunks[j].fileRange[2]
    BY DEF Fits
<1>1. \A k \in DOMAIN chunks :
          /\ chunks[k].layerRange[1] \in Nat /\ chunks[k].layerRange[2] \in Nat
          /\ chunks[k].fileRange[1] \in Nat /\ chunks[k].fileRange[2] \in Nat
    <2>1. \A k \in DOMAIN chunks : chunks[k] \in Chunk
        OBVIOUS
    <2> QED BY <2>1, ChunkEnds
<1>2. \A k \in DOMAIN chunks :
          /\ chunks[k].layerRange[1] < chunks[k].layerRange[2]
          /\ chunks[k].layerRange[2] - chunks[k].layerRange[1] =
                 chunks[k].fileRange[2] - chunks[k].fileRange[1]
    BY DEF Tiles, ChunkFollows
<1>3. chunks[j].fileRange[1] < chunks[j].fileRange[2]
    <2>1. \A a, b, c, d \in Nat : a < b /\ b - a = d - c => c < d
        OBVIOUS
    <2> QED BY <1>1, <1>2, <2>1
<1> DEFINE n == Len(chunks)
<1>4. n \in DOMAIN chunks /\ chunks[n].layerRange[2] = Len(data) /\ j <= n /\ n \in Nat
    <2>1. chunks # << >> /\ j \in 1..n
        OBVIOUS
    <2>2. chunks[n].layerRange[2] = Len(data)
        BY <2>1 DEF Tiles
    <2> QED BY <2>1, <2>2
<1>5. chunks[j].layerRange[2] <= Len(data)
    <2>1. CASE j = n
        BY <1>1, <1>4, <2>1
    <2>2. CASE j # n
        <3>1. j < n
            BY <1>4, <2>2
        <3>2. chunks[j].layerRange[2] <= chunks[n].layerRange[1]
            BY <1>4, <3>1, TilesOrdered
        <3> HIDE DEF n
        <3> QED BY <1>1, <1>2, <1>4, <3>2
    <2> QED BY <2>1, <2>2
<1> QED BY <1>2, <1>3, <1>5

\* The picture of a layer with bytes appended is the bytes laid over the layer's.
LEMMA AppendPicture ==
    ASSUME NEW chunks \in Seq(Chunk), NEW data \in Seq(Nat), Fits(chunks, data),
           NEW bytes \in Seq(Nat), NEW chunk \in Chunk, NEW offset \in Nat,
           chunk.layerRange = <<Len(data), Len(data) + Len(bytes)>>,
           chunk.fileRange = <<offset, offset + Len(bytes)>>
    PROVE  LayerPicture(Append(chunks, chunk), data \o bytes) =
               Over(Laid(offset, bytes), LayerPicture(chunks, data))
<1> DEFINE longer == Append(chunks, chunk)
           n == Len(chunks)
           more == data \o bytes
           new == Laid(offset, bytes)
           old == LayerPicture(chunks, data)
           whole == LayerPicture(longer, more)
<1>1. /\ n \in Nat /\ DOMAIN chunks = 1..n /\ DOMAIN longer = 1..(n + 1)
      /\ longer \in Seq(Chunk) /\ longer[n + 1] = chunk
      /\ \A j \in 1..n : longer[j] = chunks[j]
    OBVIOUS
<1>2. /\ Len(data) \in Nat /\ Len(bytes) \in Nat /\ Len(more) = Len(data) + Len(bytes)
      /\ \A k \in 1..Len(data) : more[k] = data[k]
      /\ \A k \in 1..Len(bytes) : more[Len(data) + k] = bytes[k]
    OBVIOUS
<1> HIDE DEF longer, n, more
<1>3. \A at \in Nat : Covers(chunk, at) <=> at \in DOMAIN new
    BY <1>2 DEF Covers, Laid
<1>4. DOMAIN new \subseteq Nat
    BY <1>2 DEF Laid
<1>5. DOMAIN whole = DOMAIN new \cup DOMAIN old
    <2>1. \A at \in Nat : (\E j \in DOMAIN longer : Covers(longer[j], at))
                             <=> (Covers(chunk, at) \/ \E j \in DOMAIN chunks : Covers(chunks[j], at))
        <3> SUFFICES ASSUME NEW at \in Nat
                     PROVE  (\E j \in 1..(n + 1) : Covers(longer[j], at))
                               <=> (Covers(chunk, at) \/ \E j \in 1..n : Covers(chunks[j], at))
            BY <1>1
        <3>1. \A j \in 1..(n + 1) : j \in 1..n \/ j = n + 1
            BY <1>1
        <3>2. 1..n \subseteq 1..(n + 1) /\ n + 1 \in 1..(n + 1)
            BY <1>1
        <3>3. longer[n + 1] = chunk /\ \A j \in 1..n : longer[j] = chunks[j]
            BY <1>1
        <3> QED BY <3>1, <3>2, <3>3
    <2> QED BY <1>3, <1>4, <2>1 DEF LayerPicture
<1>6. ASSUME NEW at \in DOMAIN new PROVE whole[at] = new[at]
    <2>1. at \in Nat /\ at \in offset..(offset + Len(bytes) - 1)
        BY <1>2, <1>6 DEF Laid
    <2>2. LastCovering(longer, at) = n + 1
        <3>1. n + 1 \in DOMAIN longer /\ Covers(longer[n + 1], at)
            BY <1>1, <1>3, <1>6, <2>1
        <3>2. \A k \in DOMAIN longer : k <= n + 1
            BY <1>1
        <3> QED BY <1>1, <3>1, <3>2, LastCoveringIs
    <2>3. whole[at] = more[Len(data) + (at - offset) + 1]
        <3>1. at \in DOMAIN whole
            BY <1>5, <1>6
        <3>2. whole[at] = ByteOf(longer, more, at)
            BY <3>1 DEF LayerPicture
        <3> QED BY <1>1, <2>2, <3>2 DEF ByteOf
    <2>4. at - offset + 1 \in 1..Len(bytes)
        BY <1>2, <2>1
    <2>5. more[Len(data) + (at - offset + 1)] = bytes[at - offset + 1]
        BY <1>2, <2>4
    <2>6. Len(data) + (at - offset) + 1 = Len(data) + (at - offset + 1)
        BY <1>2, <2>1
    <2>7. new[at] = bytes[at - offset + 1]
        BY <2>1 DEF Laid
    <2> QED BY <2>3, <2>5, <2>6, <2>7
<1>7. ASSUME NEW at \in DOMAIN old, at \notin DOMAIN new PROVE whole[at] = old[at]
    <2>1. at \in Nat /\ ~Covers(chunk, at) /\ \E j \in DOMAIN chunks : Covers(chunks[j], at)
        BY <1>3, <1>7 DEF LayerPicture
    <2>2. PICK j \in DOMAIN chunks : /\ j = LastCovering(chunks, at) /\ Covers(chunks[j], at)
                                     /\ \A k \in DOMAIN chunks : Covers(chunks[k], at) => k <= j
        BY <2>1, LastCoveringType
    <2>3. LastCovering(longer, at) = j
        <3>1. j \in DOMAIN longer /\ Covers(longer[j], at)
            BY <1>1, <2>2
        <3>2. \A k \in DOMAIN longer : Covers(longer[k], at) => k <= j
            BY <1>1, <2>1, <2>2
        <3> QED BY <1>1, <3>1, <3>2, LastCoveringIs
    <2>4. longer[j] = chunks[j]
        BY <1>1, <2>2
    <2> DEFINE c == chunks[j]
               pos == c.layerRange[1] + (at - c.fileRange[1]) + 1
    <2>5. whole[at] = more[pos]
        <3>1. at \in DOMAIN whole
            BY <1>5, <1>7
        <3>2. whole[at] = ByteOf(longer, more, at)
            BY <3>1 DEF LayerPicture
        <3> QED BY <2>3, <2>4, <3>2 DEF ByteOf
    <2>6. old[at] = data[pos]
        BY <2>2, <1>7 DEF LayerPicture, ByteOf
    <2>7. pos \in 1..Len(data)
        <3>1. c \in Chunk /\ c.fileRange[1] <= at /\ at < c.fileRange[2]
            BY <2>2 DEF Covers
        <3>2. /\ c.layerRange[2] <= Len(data)
              /\ c.layerRange[2] - c.layerRange[1] = c.fileRange[2] - c.fileRange[1]
            BY <2>2 DEF Fits
        <3>3. /\ c.layerRange[1] \in Nat /\ c.layerRange[2] \in Nat
              /\ c.fileRange[1] \in Nat /\ c.fileRange[2] \in Nat
            BY <3>1, ChunkEnds
        <3> HIDE DEF c
        <3>4. \A a, b, x, y \in Nat : /\ b <= Len(data) /\ b - a = y - x
                                      /\ x <= at /\ at < y
                                      => a + (at - x) + 1 \in 1..Len(data)
            BY <1>2, <2>1
        <3> QED BY <3>1, <3>2, <3>3, <3>4
    <2> QED BY <1>2, <2>5, <2>6, <2>7
<1>8. whole = Over(new, old)
    <2>1. DOMAIN whole = DOMAIN Over(new, old)
        BY <1>5 DEF Over
    <2>2. \A at \in DOMAIN whole : whole[at] = Over(new, old)[at]
        BY <1>5, <1>6, <1>7 DEF Over
    <2>3. whole = [at \in DOMAIN whole |-> whole[at]]
        BY DEF LayerPicture
    <2>4. Over(new, old) = [at \in DOMAIN whole |-> Over(new, old)[at]]
        BY <2>1 DEF Over
    <2> HIDE DEF whole, new, old
    <2> QED BY <2>1, <2>2, <2>3, <2>4
<1> QED BY <1>8 DEF longer, more

\* Layers laid over each other by their ids: each byte is the greatest's that has
\* one.  pictures[i] is the picture of layer i.
TopOf(ids, pictures, at) ==
    CHOOSE i \in ids : at \in DOMAIN pictures[i]
                         /\ \A k \in ids : at \in DOMAIN pictures[k] => k <= i

Stacked(ids, pictures) ==
    [at \in UNION {DOMAIN pictures[i] : i \in ids} |-> pictures[TopOf(ids, pictures, at)][at]]

LEMMA TopIs ==
    ASSUME NEW ids \in SUBSET Nat, NEW pictures, NEW at, NEW i \in ids,
           at \in DOMAIN pictures[i],
           \A k \in ids : at \in DOMAIN pictures[k] => k <= i
    PROVE  TopOf(ids, pictures, at) = i
<1> DEFINE top == TopOf(ids, pictures, at)
<1>1. /\ top \in ids /\ at \in DOMAIN pictures[top]
      /\ \A k \in ids : at \in DOMAIN pictures[k] => k <= top
    BY DEF TopOf
<1> HIDE DEF top
<1>2. top <= i /\ i <= top /\ top \in Nat /\ i \in Nat
    BY <1>1
<1> QED BY <1>2 DEF top

LEMMA TopType ==
    ASSUME NEW ids \in SUBSET Nat, NEW pictures, NEW at, NEW bound \in Nat,
           \A i \in ids : i <= bound, \E i \in ids : at \in DOMAIN pictures[i]
    PROVE  LET top == TopOf(ids, pictures, at)
           IN  /\ top \in ids /\ at \in DOMAIN pictures[top]
               /\ \A k \in ids : at \in DOMAIN pictures[k] => k <= top
<1> DEFINE having == {i \in ids : at \in DOMAIN pictures[i]}
<1>1. having \subseteq Nat /\ having # {} /\ \A i \in having : i <= bound
    OBVIOUS
<1>2. PICK i \in having : \A k \in having : k <= i
    <2> HIDE DEF having
    <2> QED BY <1>1, NatHasMax
<1>3. TopOf(ids, pictures, at) = i
    BY <1>2, TopIs
<1> QED BY <1>2, <1>3

\* A layer above all others is laid over them.
LEMMA StackedAbove ==
    ASSUME NEW ids \in SUBSET Nat, NEW bound \in Nat, \A i \in ids : i < bound,
           NEW pictures, pictures[bound] = [at \in DOMAIN pictures[bound] |-> pictures[bound][at]]
    PROVE  Stacked(ids \cup {bound}, pictures) = Over(pictures[bound], Stacked(ids, pictures))
<1> DEFINE new == pictures[bound]
           old == Stacked(ids, pictures)
           all == Stacked(ids \cup {bound}, pictures)
<1>1. \A i \in ids : i \in Nat /\ i < bound
    OBVIOUS
<1>2. DOMAIN all = DOMAIN new \cup DOMAIN old
    BY DEF Stacked
<1>3. ASSUME NEW at \in DOMAIN new PROVE all[at] = new[at]
    <2>1. TopOf(ids \cup {bound}, pictures, at) = bound
        <3>1. \A k \in ids \cup {bound} : k <= bound
            BY <1>1
        <3>2. ids \cup {bound} \in SUBSET Nat
            OBVIOUS
        <3> QED BY <3>1, <3>2, <1>3, TopIs
    <2> QED BY <1>2, <1>3, <2>1 DEF Stacked
<1>4. ASSUME NEW at \in DOMAIN old, at \notin DOMAIN new PROVE all[at] = old[at]
    <2>1. \E i \in ids : at \in DOMAIN pictures[i]
        BY <1>4 DEF Stacked
    <2>2. \A i \in ids : i <= bound
        BY <1>1
    <2>3. PICK top \in ids : /\ top = TopOf(ids, pictures, at) /\ at \in DOMAIN pictures[top]
                             /\ \A k \in ids : at \in DOMAIN pictures[k] => k <= top
        BY <2>1, <2>2, TopType
    <2>4. TopOf(ids \cup {bound}, pictures, at) = top
        <3>1. \A k \in ids \cup {bound} : at \in DOMAIN pictures[k] => k <= top
            BY <1>4, <2>3
        <3>2. ids \cup {bound} \in SUBSET Nat /\ top \in ids \cup {bound}
            OBVIOUS
        <3> QED BY <2>3, <3>1, <3>2, TopIs
    <2> QED BY <1>2, <1>4, <2>3, <2>4 DEF Stacked
<1>5. all = [at \in DOMAIN new \cup DOMAIN old |-> all[at]]
    BY <1>2 DEF Stacked
<1> HIDE DEF all, new, old
<1>6. all = Over(new, old)
    BY <1>3, <1>4, <1>5 DEF Over
<1> QED BY <1>6 DEF all, new, old

\* Only the pictures of the layers matter.
LEMMA StackedSame ==
    ASSUME NEW ids \in SUBSET Nat, NEW bound \in Nat, \A i \in ids : i <= bound,
           NEW pictures, NEW others, \A i \in ids : pictures[i] = others[i]
    PROVE  Stacked(ids, pictures) = Stacked(ids, others)
<1> DEFINE having == UNION {DOMAIN pictures[i] : i \in ids}
<1>1. having = UNION {DOMAIN others[i] : i \in ids}
    OBVIOUS
<1>2. ASSUME NEW at \in having
      PROVE  pictures[TopOf(ids, pictures, at)][at] = others[TopOf(ids, others, at)][at]
    <2>1. \E i \in ids : at \in DOMAIN pictures[i]
        OBVIOUS
    <2>2. PICK top \in ids : /\ top = TopOf(ids, pictures, at) /\ at \in DOMAIN pictures[top]
                             /\ \A k \in ids : at \in DOMAIN pictures[k] => k <= top
        BY <2>1, TopType
    <2>3. at \in DOMAIN others[top] /\ \A k \in ids : at \in DOMAIN others[k] => k <= top
        BY <2>2
    <2>4. TopOf(ids, others, at) = top
        BY <2>3, TopIs
    <2> QED BY <2>2, <2>4
<1> HIDE DEF having
<1>3. Stacked(ids, pictures) = [at \in having |-> pictures[TopOf(ids, pictures, at)][at]]
    BY DEF Stacked, having
<1>4. Stacked(ids, others) = [at \in having |-> others[TopOf(ids, others, at)][at]]
    BY <1>1 DEF Stacked
<1> QED BY <1>2, <1>3, <1>4

----------------------------------------------------------------------------
(* What a read returns is the picture of the layers it sees                *)

DataOf(f, i) == IF i = ActiveId THEN memtable[f].data ELSE objects[layers[i].key]

\* The picture of some layers of f.
Picture(f, ids) == Stacked(ids, [i \in ids |-> LayerPicture(ChunksOf(f, i), DataOf(f, i))])

\* A layer above the others is laid over them.
PicturesStack ==
    \A f : \A ids \in SUBSET Nat : \A bound \in Nat :
        (\A i \in ids : i < bound) =>
            Picture(f, ids \cup {bound}) =
                Over(LayerPicture(ChunksOf(f, bound), DataOf(f, bound)), Picture(f, ids))

LEMMA PicturesAreStacked == PicturesStack
<1> SUFFICES ASSUME NEW f, NEW ids \in SUBSET Nat, NEW bound \in Nat, \A i \in ids : i < bound
             PROVE  Picture(f, ids \cup {bound}) =
                        Over(LayerPicture(ChunksOf(f, bound), DataOf(f, bound)), Picture(f, ids))
    BY DEF PicturesStack
<1> DEFINE new == LayerPicture(ChunksOf(f, bound), DataOf(f, bound))
           all == [i \in ids \cup {bound} |-> LayerPicture(ChunksOf(f, i), DataOf(f, i))]
           lower == [i \in ids |-> LayerPicture(ChunksOf(f, i), DataOf(f, i))]
<1>1. new = [at \in DOMAIN new |-> new[at]]
    BY DEF LayerPicture
<1>2. all[bound] = new /\ \A i \in ids : all[i] = lower[i]
    OBVIOUS
<1>3. \A i \in ids : i <= bound
    OBVIOUS
<1> HIDE DEF all, lower, new
<1>4. Stacked(ids \cup {bound}, all) = Over(all[bound], Stacked(ids, all))
    BY <1>1, <1>2, StackedAbove
<1>5. Stacked(ids, all) = Stacked(ids, lower)
    BY <1>2, <1>3, StackedSame
<1> QED BY <1>2, <1>4, <1>5 DEF Picture, all, lower, new

\* What is known of the layers of a file.
LEMMA LayerOf ==
    ASSUME CatalogInv, ChunksTileData, NEW f \in Files, NEW i \in LayerIdsOf(f) \cup {ActiveId}
    PROVE  /\ i \in Nat /\ i <= ActiveId /\ ActiveId \in Nat
           /\ ChunksOf(f, i) \in Seq(Chunk) /\ DataOf(f, i) \in Seq(Nat)
           /\ Tiles(ChunksOf(f, i), DataOf(f, i))
           /\ Fits(ChunksOf(f, i), DataOf(f, i))
<1>1. ActiveId \in Nat /\ MaxVersions \in Nat
    BY BoundsAssumption DEF ActiveId
<1>2. TypeOK /\ layers \in Seq(Layer) /\ Len(layers) <= MaxVersions
    <2>1. versionSeq \in 0..MaxVersions /\ Len(layers) <= versionSeq /\ layers \in Seq(Layer)
        BY DEF CatalogInv, TypeOK
    <2> QED BY <1>1, <2>1 DEF CatalogInv
<1>3. CASE i = ActiveId
    <2>1. ChunksOf(f, i) = memtable[f].chunks /\ DataOf(f, i) = memtable[f].data
        BY <1>3 DEF ChunksOf, DataOf
    <2>2. memtable[f].chunks \in Seq(Chunk) /\ memtable[f].data \in Seq(Nat)
        BY <1>2 DEF TypeOK, ActiveLayer
    <2>3. Tiles(memtable[f].chunks, memtable[f].data)
        BY DEF ChunksTileData
    <2> QED BY <1>1, <1>3, <2>1, <2>2, <2>3, TilesFit
<1>4. CASE i # ActiveId
    <2>1. i \in DOMAIN layers
        BY <1>4 DEF LayerIdsOf
    <2>2. ChunksOf(f, i) = layers[i].chunks /\ DataOf(f, i) = objects[layers[i].key]
        BY <1>4 DEF ChunksOf, DataOf
    <2>3. layers[i].chunks \in Seq(Chunk)
        BY <1>2, <2>1, LayerFields
    <2>4. objects[layers[i].key] \in Seq(Nat)
        BY <1>2, <2>1 DEF CatalogInv, TypeOK
    <2>5. Tiles(layers[i].chunks, objects[layers[i].key])
        BY <2>1 DEF ChunksTileData
    <2>6. i \in Nat /\ i <= ActiveId
        BY <1>1, <1>2, <2>1 DEF ActiveId
    <2> QED BY <1>1, <2>2, <2>3, <2>4, <2>5, <2>6, TilesFit
<1> QED BY <1>3, <1>4

\* The offsets of a picture are those that a chunk covers.
LEMMA PictureDomain ==
    ASSUME NEW f, NEW ids, NEW at
    PROVE  at \in DOMAIN Picture(f, ids)
               <=> at \in Nat /\ \E p \in ChunkIds(f, ids) : Covers(ChunkAt(f, p), at)
<1>1. at \in DOMAIN Picture(f, ids)
          <=> \E i \in ids : at \in DOMAIN LayerPicture(ChunksOf(f, i), DataOf(f, i))
    BY DEF Picture, Stacked
<1>2. at \in DOMAIN Picture(f, ids)
          <=> at \in Nat /\ \E i \in ids : \E j \in DOMAIN ChunksOf(f, i) : Covers(ChunksOf(f, i)[j], at)
    BY <1>1 DEF LayerPicture
<1> DEFINE Has(p) == Covers(ChunkAt(f, p), at)
<1>3. \A i, j : Has(<<i, j>>) <=> Covers(ChunksOf(f, i)[j], at)
    BY DEF ChunkAt
<1> HIDE DEF Has
<1>4. (\E p \in ChunkIds(f, ids) : Has(p))
          <=> \E i \in ids : \E j \in DOMAIN ChunksOf(f, i) : Has(<<i, j>>)
    <2>1. ASSUME NEW p \in ChunkIds(f, ids), Has(p)
          PROVE  \E i \in ids : \E j \in DOMAIN ChunksOf(f, i) : Has(<<i, j>>)
        <3>1. PICK i \in ids : \E j \in DOMAIN ChunksOf(f, i) : p = <<i, j>>
            BY DEF ChunkIds
        <3> QED BY <2>1, <3>1
    <2>2. ASSUME NEW i \in ids, NEW j \in DOMAIN ChunksOf(f, i)
          PROVE  <<i, j>> \in ChunkIds(f, ids)
        BY DEF ChunkIds
    <2> QED BY <2>1, <2>2
<1> QED BY <1>2, <1>3, <1>4 DEF Has

\* A byte assembled from all chunks that cover its offset is the picture's.
LEMMA PictureByte ==
    ASSUME CatalogInv, ChunksTileData, NEW f \in Files,
           NEW ids \in SUBSET (LayerIdsOf(f) \cup {ActiveId}),
           NEW at \in DOMAIN Picture(f, ids), NEW chunks \in SUBSET ChunkIds(f, ids),
           \A p \in ChunkIds(f, ids) : Covers(ChunkAt(f, p), at) => p \in chunks
    PROVE  ByteAt(f, chunks, at) = Picture(f, ids)[at]
<1> DEFINE pictures == [i \in ids |-> LayerPicture(ChunksOf(f, i), DataOf(f, i))]
<1>1. \A i \in ids : /\ i \in Nat /\ i <= ActiveId /\ ActiveId \in Nat
                     /\ ChunksOf(f, i) \in Seq(Chunk)
    BY LayerOf
<1>2. PICK i \in ids : /\ i = TopOf(ids, pictures, at) /\ at \in DOMAIN pictures[i]
                       /\ \A k \in ids : at \in DOMAIN pictures[k] => k <= i
    <2>1. \E i \in ids : at \in DOMAIN pictures[i]
        BY DEF Picture, Stacked
    <2>2. ids \in SUBSET Nat /\ ActiveId \in Nat /\ \A i \in ids : i <= ActiveId
        BY <1>1, <2>1
    <2> HIDE DEF pictures
    <2> QED BY <2>1, <2>2, TopType
<1>3. at \in Nat
    BY PictureDomain
<1>4. \A k \in ids : at \in DOMAIN pictures[k]
                         <=> \E j \in DOMAIN ChunksOf(f, k) : Covers(ChunksOf(f, k)[j], at)
    BY <1>3 DEF LayerPicture
<1>5. PICK j \in DOMAIN ChunksOf(f, i) :
            /\ j = LastCovering(ChunksOf(f, i), at) /\ Covers(ChunksOf(f, i)[j], at)
            /\ \A k \in DOMAIN ChunksOf(f, i) : Covers(ChunksOf(f, i)[k], at) => k <= j
    BY <1>1, <1>2, <1>4, LastCoveringType
<1> DEFINE p == <<i, j>>
<1>6. ChunkIds(f, ids) \subseteq Nat \X Nat
    BY <1>1 DEF ChunkIds
<1>7. p \in ChunkIds(f, ids) /\ ChunkAt(f, p) = ChunksOf(f, i)[j] /\ p[1] = i /\ p[2] = j
    BY DEF ChunkIds, ChunkAt
<1>8. IsNewest(f, chunks, at, p)
    <2>1. p \in chunks /\ Covers(ChunkAt(f, p), at)
        BY <1>5, <1>7
    <2>2. ASSUME NEW q \in chunks, Covers(ChunkAt(f, q), at) PROVE ~Newer(q, p)
        <3>1. PICK k \in ids : \E m \in DOMAIN ChunksOf(f, k) : q = <<k, m>>
            BY DEF ChunkIds
        <3>2. PICK m \in DOMAIN ChunksOf(f, k) : q = <<k, m>>
            BY <3>1
        <3>3. q[1] = k /\ q[2] = m /\ Covers(ChunksOf(f, k)[m], at)
            BY <2>2, <3>2 DEF ChunkAt
        <3>4. k <= i
            BY <1>2, <1>4, <3>3
        <3>5. k = i => m <= j
            BY <1>5, <3>3
        <3>6. k \in Nat /\ i \in Nat /\ m \in Nat /\ j \in Nat
            BY <1>1
        <3> HIDE DEF p
        <3> QED BY <1>7, <3>3, <3>4, <3>5, <3>6 DEF Newer
    <2> QED BY <2>1, <2>2 DEF IsNewest, Covers
<1>9. ByteAt(f, chunks, at) = ByteFrom(f, p, at)
    <2>1. chunks \in SUBSET (Nat \X Nat) /\ p \in chunks
        BY <1>6, <1>8 DEF IsNewest
    <2> HIDE DEF p
    <2> QED BY <1>8, <2>1, ByteAtIs DEF NewestDecides
<1>10. ByteFrom(f, p, at) = ByteOf(ChunksOf(f, i), DataOf(f, i), at)
    BY <1>5, <1>7 DEF ByteFrom, ByteOf, DataOf
<1>11. Picture(f, ids)[at] = pictures[i][at]
    BY <1>2 DEF Picture, Stacked
<1>12. pictures[i][at] = ByteOf(ChunksOf(f, i), DataOf(f, i), at)
    BY <1>2 DEF LayerPicture
<1> QED BY <1>9, <1>10, <1>11, <1>12

\* Where the chunks of the files may begin and end, and the hypothesis on the
\* client that a chunk never has a single byte: the store's range request cannot
\* ask for one (s3store.go:41-65).
Marks ==
    {0} \cup Offsets \cup
        UNION {{offset + Len(data) : data \in Payloads[offset]} : offset \in Offsets}
MarksApart == \A m, n \in Marks : m < n => m + 1 < n

\* No hole below a covered offset.
NoHoles(picture) == \A at \in DOMAIN picture : \A lower \in Nat : lower < at => lower \in DOMAIN picture

\* The layers of f up to the n-th row; all there is of f.
UpTo(f, n) == {i \in LayerIdsOf(f) : i <= n}
Now(f) == LayerIdsOf(f) \cup {ActiveId}

AtMarks(chunks) ==
    \A j \in DOMAIN chunks : chunks[j].fileRange[1] \in Marks /\ chunks[j].fileRange[2] \in Marks

MarksInv ==
    /\ \A f \in Files : AtMarks(memtable[f].chunks)
    /\ \A i \in DOMAIN layers : AtMarks(layers[i].chunks)

HolesInv ==
    \A f \in Files :
        /\ NoHoles(Picture(f, Now(f)))
        /\ \A n \in 0..Len(layers) : NoHoles(Picture(f, UpTo(f, n)))

\* What makes the reads right.
ReadInv == CatalogInv /\ ChunksTileData /\ MarksInv /\ HolesInv

LEMMA ChunkNotEmpty ==
    ASSUME CatalogInv, ChunksTileData, NEW f \in Files,
           NEW ids \in SUBSET (LayerIdsOf(f) \cup {ActiveId}), NEW p \in ChunkIds(f, ids)
    PROVE  /\ ChunkAt(f, p) \in Chunk
           /\ ChunkAt(f, p).fileRange[1] < ChunkAt(f, p).fileRange[2]
<1>1. PICK i \in ids : \E j \in DOMAIN ChunksOf(f, i) : p = <<i, j>>
    BY DEF ChunkIds
<1>2. PICK j \in DOMAIN ChunksOf(f, i) : p = <<i, j>>
    BY <1>1
<1>3. ChunkAt(f, p) = ChunksOf(f, i)[j]
    BY <1>2 DEF ChunkAt
<1>4. ChunksOf(f, i) \in Seq(Chunk) /\ Fits(ChunksOf(f, i), DataOf(f, i))
    BY LayerOf
<1> QED BY <1>3, <1>4 DEF Fits

LEMMA MinOfTwo ==
    ASSUME NEW a \in Nat, NEW b \in Nat
    PROVE  Min({a, b}) = IF a < b THEN a ELSE b
<1>1. \E x \in {a, b} : \A y \in {a, b} : x <= y
    OBVIOUS
<1>2. Min({a, b}) \in {a, b} /\ \A y \in {a, b} : Min({a, b}) <= y
    BY <1>1 DEF Min
<1> QED BY <1>2

\* A picture without holes has the bytes below the highest end.
LEMMA PictureBelowEnd ==
    ASSUME CatalogInv, ChunksTileData, NEW f \in Files,
           NEW ids \in SUBSET (LayerIdsOf(f) \cup {ActiveId}), NoHoles(Picture(f, ids))
    PROVE  LET highest == HighestEnd(f, ChunkIds(f, ids))
           IN  highest \in 0..MaxFileSize /\ DOMAIN Picture(f, ids) = 0..(highest - 1)
<1> DEFINE chunks == ChunkIds(f, ids)
           highest == HighestEnd(f, chunks)
           picture == Picture(f, ids)
<1>1. \A p \in chunks : ChunkAt(f, p) \in Chunk
    BY ChunkAtType DEF CatalogInv
<1>2. /\ highest \in 0..MaxFileSize
      /\ highest \in {0} \cup {ChunkAt(f, p).fileRange[2] : p \in chunks}
      /\ \A p \in chunks : ChunkAt(f, p).fileRange[2] <= highest
    <2>1. \A p \in chunks : ChunkAt(f, p).fileRange[2] \in 0..MaxFileSize
        BY <1>1, ChunkEnds, BoundsAssumption
    <2> HIDE DEF chunks
    <2> QED BY <2>1, HighestEndIs, BoundsAssumption
<1>3. \A p \in chunks : ChunkAt(f, p).fileRange[1] < ChunkAt(f, p).fileRange[2]
    BY ChunkNotEmpty
<1> HIDE DEF chunks, highest
<1>4. highest \in Nat
    BY <1>2, BoundsAssumption
<1>5. ASSUME NEW at \in DOMAIN picture PROVE at \in 0..(highest - 1)
    <2>1. at \in Nat /\ \E p \in chunks : Covers(ChunkAt(f, p), at)
        BY <1>5, PictureDomain DEF chunks
    <2>2. PICK p \in chunks : Covers(ChunkAt(f, p), at)
        BY <2>1
    <2>3. at < ChunkAt(f, p).fileRange[2] /\ ChunkAt(f, p).fileRange[2] <= highest
        BY <1>2, <2>2 DEF Covers
    <2>4. ChunkAt(f, p).fileRange[2] \in Nat
        BY <1>1, <2>2, ChunkEnds
    <2> QED BY <1>4, <2>1, <2>3, <2>4
<1>6. ASSUME NEW at \in 0..(highest - 1) PROVE at \in DOMAIN picture
    <2>1. PICK p \in chunks : ChunkAt(f, p).fileRange[2] = highest
        BY <1>2, <1>4, <1>6
    <2> DEFINE last == highest - 1
    <2>2. last \in Nat /\ Covers(ChunkAt(f, p), last)
        <3>1. /\ ChunkAt(f, p).fileRange[1] \in Nat
              /\ ChunkAt(f, p).fileRange[1] < ChunkAt(f, p).fileRange[2]
            BY <1>1, <1>3, <2>1, ChunkEnds
        <3> QED BY <1>4, <1>6, <2>1, <3>1 DEF Covers
    <2>3. last \in DOMAIN picture
        BY <2>1, <2>2, PictureDomain DEF chunks
    <2>4. at \in Nat /\ (at < last \/ at = last)
        BY <1>4, <1>6
    <2> HIDE DEF last, picture
    <2> QED BY <2>3, <2>4 DEF NoHoles, picture
<1>7. DOMAIN picture = 0..(highest - 1)
    BY <1>5, <1>6
<1> QED BY <1>2, <1>7 DEF highest, chunks

\* No chunk is refused by the store or reaches beyond its data.
LEMMA ChunksReadable ==
    ASSUME CatalogInv, ChunksTileData, MarksInv, MarksApart, NEW f \in Files,
           NEW ids \in SUBSET (LayerIdsOf(f) \cup {ActiveId}), NEW p \in ChunkIds(f, ids)
    PROVE  ChunkReadable(f, p)
<1>1. PICK i \in ids : \E j \in DOMAIN ChunksOf(f, i) : p = <<i, j>>
    BY DEF ChunkIds
<1>2. PICK j \in DOMAIN ChunksOf(f, i) : p = <<i, j>>
    BY <1>1
<1> DEFINE chunk == ChunksOf(f, i)[j]
<1>3. p[1] = i /\ ChunkAt(f, p) = chunk
    BY <1>2 DEF ChunkAt
<1>4. /\ ChunksOf(f, i) \in Seq(Chunk) /\ DataOf(f, i) \in Seq(Nat)
      /\ Fits(ChunksOf(f, i), DataOf(f, i))
    BY LayerOf
<1>5. /\ chunk.layerRange[2] <= Len(DataOf(f, i))
      /\ chunk.layerRange[2] - chunk.layerRange[1] = chunk.fileRange[2] - chunk.fileRange[1]
      /\ chunk.fileRange[1] < chunk.fileRange[2]
    BY <1>4 DEF Fits
<1>6. CASE i = ActiveId
    BY <1>3, <1>5, <1>6 DEF ChunkReadable, DataOf
<1>7. CASE i # ActiveId
    <2>1. i \in DOMAIN layers
        BY <1>7 DEF LayerIdsOf
    <2>2. ChunksOf(f, i) = layers[i].chunks /\ DataOf(f, i) = objects[layers[i].key]
        BY <1>7 DEF ChunksOf, DataOf
    <2>3. chunk.fileRange[1] \in Marks /\ chunk.fileRange[2] \in Marks
        BY <2>1, <2>2 DEF MarksInv, AtMarks
    <2>4. chunk.fileRange[1] + 1 < chunk.fileRange[2]
        BY <1>5, <2>3 DEF MarksApart
    <2>5. /\ chunk.layerRange[1] \in Nat /\ chunk.layerRange[2] \in Nat
          /\ chunk.fileRange[1] \in Nat /\ chunk.fileRange[2] \in Nat
        <3>1. chunk \in Chunk
            BY <1>4
        <3> QED BY <3>1, ChunkEnds
    <2>6. chunk.layerRange[1] < chunk.layerRange[2] - 1
        <3>1. \A a, b, x, y \in Nat : x + 1 < y /\ b - a = y - x => a < b - 1
            OBVIOUS
        <3> HIDE DEF chunk
        <3> QED BY <1>5, <2>4, <2>5, <3>1
    <2>7. layers[i].key \in DOMAIN objects
        BY <2>1 DEF CatalogInv
    <2> QED BY <1>3, <1>5, <1>7, <2>2, <2>6, <2>7 DEF ChunkReadable, ObjectReadable
<1> QED BY <1>6, <1>7

\* The bytes of a picture below an end, as a sequence.
Bytes(picture, end) == [k \in 1..end |-> picture[k - 1]]

\* The answer with the bytes of a picture from an offset up to its end.
Window(picture, end, offset, size) ==
    [status |-> "ok",
     data |-> [k \in 1..(IF size < end - offset THEN size ELSE end - offset) |->
                  picture[offset + k - 1]]]

\* What a read of size bytes at offset returns, if it begins inside the picture
\* or at 0: the picture's bytes, up to its end.
LEMMA ReadIs ==
    ASSUME CatalogInv, ChunksTileData, MarksInv, MarksApart, NEW f \in Files, NEW layer,
           LayersSeen(f, layer) \in SUBSET (LayerIdsOf(f) \cup {ActiveId}),
           NoHoles(Picture(f, LayersSeen(f, layer))),
           NEW end \in Nat, DOMAIN Picture(f, LayersSeen(f, layer)) = 0..(end - 1),
           NEW offset \in Nat, NEW size \in Nat, offset = 0 \/ (offset < end /\ size > 0)
    PROVE  ReadLayers(f, layer, offset, size) =
               Window(Picture(f, LayersSeen(f, layer)), end, offset, size)
<1> DEFINE ids == LayersSeen(f, layer)
           all == ChunkIds(f, ids)
           picture == Picture(f, ids)
           window == <<offset, offset + size>>
           n == IF size < end - offset THEN size ELSE end - offset
<1>1. PICK chunks \in SUBSET all : chunks = OverlappingChunks(f, layer, window)
    BY DEF OverlappingChunks
<1>2. /\ n \in Nat /\ n <= size /\ n <= end - offset
      /\ (n = size \/ n = end - offset)
      /\ offset + n <= end /\ offset + n <= offset + size
    OBVIOUS
<1> DEFINE highest == HighestEnd(f, chunks)
<1>3. /\ highest \in 0..MaxFileSize
      /\ highest \in {0} \cup {ChunkAt(f, p).fileRange[2] : p \in chunks}
      /\ \A p \in chunks : ChunkAt(f, p).fileRange[2] <= highest
    <2>1. \A p \in all : ChunkAt(f, p) \in Chunk
        BY ChunkAtType DEF CatalogInv
    <2>2. \A p \in chunks : ChunkAt(f, p).fileRange[2] \in 0..MaxFileSize
        BY <2>1, ChunkEnds, BoundsAssumption
    <2> QED BY <2>2, HighestEndIs, BoundsAssumption
<1>4. \A p \in all : /\ ChunkAt(f, p).fileRange[1] \in Nat
                     /\ ChunkAt(f, p).fileRange[2] \in Nat
                     /\ ChunkAt(f, p).fileRange[1] < ChunkAt(f, p).fileRange[2]
                     /\ ChunkAt(f, p).fileRange[2] <= end
    <2> SUFFICES ASSUME NEW p \in all
                 PROVE  /\ ChunkAt(f, p).fileRange[1] \in Nat
                        /\ ChunkAt(f, p).fileRange[2] \in Nat
                        /\ ChunkAt(f, p).fileRange[1] < ChunkAt(f, p).fileRange[2]
                        /\ ChunkAt(f, p).fileRange[2] <= end
        OBVIOUS
    <2>1. /\ ChunkAt(f, p).fileRange[1] \in Nat
          /\ ChunkAt(f, p).fileRange[2] \in Nat
          /\ ChunkAt(f, p).fileRange[1] < ChunkAt(f, p).fileRange[2]
        BY ChunkNotEmpty, ChunkEnds
    <2> DEFINE last == ChunkAt(f, p).fileRange[2] - 1
    <2>2. last \in Nat /\ Covers(ChunkAt(f, p), last)
        BY <2>1 DEF Covers
    <2>3. last \in DOMAIN picture
        <3> HIDE DEF last
        <3> QED BY <2>2, PictureDomain
    <2> QED BY <2>1, <2>3
<1>5. ASSUME NEW at \in Nat, offset <= at, at < offset + n
      PROVE  /\ at \in DOMAIN picture
             /\ \A p \in all : Covers(ChunkAt(f, p), at) => p \in chunks
             /\ \E p \in chunks : Covers(ChunkAt(f, p), at)
    <2>1. at \in DOMAIN picture
        BY <1>2, <1>5
    <2>2. ASSUME NEW p \in all, Covers(ChunkAt(f, p), at) PROVE p \in chunks
        <3>1. ChunkAt(f, p).fileRange[1] < offset + size
            BY <1>2, <1>4, <1>5, <2>2 DEF Covers
        <3>2. offset < ChunkAt(f, p).fileRange[2]
            BY <1>4, <1>5, <2>2 DEF Covers
        <3> QED BY <1>1, <3>1, <3>2 DEF OverlappingChunks, RangesOverlap
    <2>3. \E p \in all : Covers(ChunkAt(f, p), at)
        BY <2>1, PictureDomain
    <2> QED BY <2>1, <2>2, <2>3
<1>6. highest \in Nat /\ offset + n <= highest /\ highest <= end /\ offset <= highest
    <2>1. highest \in Nat /\ highest <= end
        BY <1>3, <1>4, BoundsAssumption
    <2>2. offset + n <= highest
        <3>1. CASE n = 0
            BY <1>2, <2>1, <3>1
        <3>2. CASE n # 0
            <4> DEFINE last == offset + n - 1
            <4>1. last \in Nat /\ offset <= last /\ last < offset + n
                BY <1>2, <3>2
            <4>2. PICK p \in chunks : Covers(ChunkAt(f, p), last)
                <5> HIDE DEF last
                <5> QED BY <1>5, <4>1
            <4>3. last < ChunkAt(f, p).fileRange[2] /\ ChunkAt(f, p).fileRange[2] \in Nat
                BY <1>4, <4>2 DEF Covers
            <4>4. ChunkAt(f, p).fileRange[2] <= highest
                BY <1>3
            <4> HIDE DEF highest, n
            <4> QED BY <1>2, <2>1, <4>1, <4>3, <4>4
        <3> QED BY <3>1, <3>2
    <2> HIDE DEF highest, n
    <2> QED BY <1>2, <2>1, <2>2
<1>7. \A p \in chunks : ChunkReadable(f, p)
    BY ChunksReadable
<1> DEFINE bytes == [k \in 1..(highest - offset) |-> ByteAt(f, chunks, offset + k - 1)]
<1>8. Min({size, highest - offset}) = n
    <2>1. highest - offset \in Nat
        BY <1>6
    <2>2. Min({size, highest - offset}) =
              IF size < highest - offset THEN size ELSE highest - offset
        BY <2>1, MinOfTwo
    <2> HIDE DEF highest, n
    <2> QED BY <1>2, <1>6, <2>2
<1>9. SubSeq(bytes, 1, n) = [k \in 1..n |-> picture[offset + k - 1]]
    <2>1. \A k \in 1..n : bytes[k] = picture[offset + k - 1]
        <3> SUFFICES ASSUME NEW k \in 1..n PROVE bytes[k] = picture[offset + k - 1]
            OBVIOUS
        <3> DEFINE at == offset + k - 1
        <3>1. k \in 1..(highest - offset) /\ at \in Nat /\ offset <= at /\ at < offset + n
            BY <1>2, <1>6
        <3>2. ByteAt(f, chunks, at) = picture[at]
            <4> HIDE DEF at
            <4> QED BY <1>5, <3>1, PictureByte
        <3> QED BY <3>1, <3>2
    <2>2. SubSeq(bytes, 1, n) = [k \in 1..n |-> bytes[k]]
        <3>1. SubSeq(bytes, 1, n) = [k \in 1..(1 + n - 1) |-> bytes[k + 1 - 1]]
            OBVIOUS
        <3> QED BY <1>2, <3>1
    <2> QED BY <2>1, <2>2
<1>10. ReadLayers(f, layer, offset, size) =
           [status |-> "ok", data |-> SubSeq(bytes, 1, Min({size, highest - offset}))]
    <2>1. chunks \in SUBSET (Nat \X Nat)
        <3>1. \A i \in ids : i \in Nat /\ ChunksOf(f, i) \in Seq(Chunk)
            BY LayerOf
        <3> QED BY <3>1 DEF ChunkIds
    <2>2. ~(highest < offset)
        BY <1>6
    <2> QED BY <1>1, <1>7, <2>1, <2>2 DEF ReadLayers, Assemble
<1> QED BY <1>8, <1>9, <1>10 DEF Window

----------------------------------------------------------------------------
(* What the steps do to the pictures                                       *)

LEMMA OverAssociative ==
    ASSUME NEW p, NEW q, NEW r
    PROVE  Over(Over(p, q), r) = Over(p, Over(q, r))
<1>1. \A at \in DOMAIN p \cup DOMAIN q \cup DOMAIN r :
          (IF at \in DOMAIN Over(p, q) THEN Over(p, q)[at] ELSE r[at]) =
              (IF at \in DOMAIN p THEN p[at] ELSE Over(q, r)[at])
    BY DEF Over
<1>2. /\ DOMAIN Over(p, q) \cup DOMAIN r = DOMAIN p \cup DOMAIN q \cup DOMAIN r
      /\ DOMAIN p \cup DOMAIN Over(q, r) = DOMAIN p \cup DOMAIN q \cup DOMAIN r
    BY DEF Over
<1>3. Over(Over(p, q), r) =
          [at \in DOMAIN p \cup DOMAIN q \cup DOMAIN r |->
              IF at \in DOMAIN Over(p, q) THEN Over(p, q)[at] ELSE r[at]]
    BY <1>2 DEF Over
<1>4. Over(p, Over(q, r)) =
          [at \in DOMAIN p \cup DOMAIN q \cup DOMAIN r |->
              IF at \in DOMAIN p THEN p[at] ELSE Over(q, r)[at]]
    BY <1>2 DEF Over
<1> QED BY <1>1, <1>3, <1>4

LEMMA OverFacts ==
    ASSUME NEW p, NEW q
    PROVE  /\ DOMAIN Over(p, q) = DOMAIN p \cup DOMAIN q
           /\ Over(p, Over(p, q)) = Over(p, q)
           /\ DOMAIN p = {} /\ q = [at \in DOMAIN q |-> q[at]] => Over(p, q) = q
BY DEF Over

LEMMA PictureIsFunction ==
    ASSUME NEW f, NEW ids
    PROVE  Picture(f, ids) = [at \in DOMAIN Picture(f, ids) |-> Picture(f, ids)[at]]
BY DEF Picture, Stacked

ActivePicture(f) == LayerPicture(memtable[f].chunks, memtable[f].data)

\* All there is of a file is the active layer over the committed ones.
NowStacked == \A f \in Files : Picture(f, Now(f)) = Over(ActivePicture(f), Picture(f, LayerIdsOf(f)))

LEMMA NowIs == CatalogInv => NowStacked
<1> SUFFICES ASSUME CatalogInv, NEW f \in Files
             PROVE  Picture(f, Now(f)) = Over(ActivePicture(f), Picture(f, LayerIdsOf(f)))
    BY DEF NowStacked
<1>1. versionSeq \in 0..MaxVersions /\ Len(layers) <= versionSeq /\ layers \in Seq(Layer)
    BY DEF CatalogInv, TypeOK
<1>2. /\ LayerIdsOf(f) \in SUBSET Nat /\ ActiveId \in Nat
      /\ \A i \in LayerIdsOf(f) : i < ActiveId
    BY <1>1, BoundsAssumption DEF LayerIdsOf, ActiveId
<1>3. ChunksOf(f, ActiveId) = memtable[f].chunks /\ DataOf(f, ActiveId) = memtable[f].data
    BY DEF ChunksOf, DataOf
<1> QED BY <1>2, <1>3, PicturesAreStacked DEF PicturesStack, Now, ActivePicture

LEMMA EmptyPicture ==
    ASSUME NEW f, memtable[f] = EmptyLayer
    PROVE  DOMAIN ActivePicture(f) = {}
BY DEF EmptyLayer, ActivePicture, LayerPicture

\* Committed layers keep their pictures.
LEMMA CommittedPictures ==
    ASSUME CatalogInv, CatalogInv', Kept, NEW f \in Files
    PROVE  /\ \A ids \in SUBSET LayerIdsOf(f) : Picture(f, ids)' = Picture(f, ids)
           /\ \A n \in 0..Len(layers) : UpTo(f, n)' = UpTo(f, n) /\ UpTo(f, n) \in SUBSET LayerIdsOf(f)
           /\ LayerIdsOf(f) = UpTo(f, Len(layers))
           /\ LayerIdsOf(f)' = UpTo(f, Len(layers))'
<1>1. /\ versionSeq \in 0..MaxVersions /\ Len(layers) <= versionSeq
      /\ Len(layers) \in Nat /\ DOMAIN layers = 1..Len(layers)
      /\ Len(layers') \in Nat /\ DOMAIN layers' = 1..Len(layers')
    BY DEF CatalogInv, TypeOK
<1>2. \A j \in DOMAIN layers :
          /\ j \in Nat /\ j # ActiveId /\ j \in DOMAIN layers' /\ layers'[j] = layers[j]
          /\ objects'[layers[j].key] = objects[layers[j].key]
    BY <1>1, BoundsAssumption DEF Kept, ActiveId
<1>3. ASSUME NEW ids \in SUBSET LayerIdsOf(f) PROVE Picture(f, ids)' = Picture(f, ids)
    <2>1. \A j \in ids : j \in DOMAIN layers
        BY DEF LayerIdsOf
    <2>2. \A j \in ids : ChunksOf(f, j)' = ChunksOf(f, j) /\ DataOf(f, j)' = DataOf(f, j)
        BY <1>2, <2>1 DEF ChunksOf, DataOf, ActiveId
    <2>3. [i \in ids |-> LayerPicture(ChunksOf(f, i), DataOf(f, i))]' =
              [i \in ids |-> LayerPicture(ChunksOf(f, i), DataOf(f, i))]
        BY <2>2
    <2> QED BY <2>3 DEF Picture
<1>4. ASSUME NEW n \in 0..Len(layers)
      PROVE  UpTo(f, n)' = UpTo(f, n) /\ UpTo(f, n) \in SUBSET LayerIdsOf(f)
    BY <1>1, <1>2 DEF UpTo, LayerIdsOf
<1>5. LayerIdsOf(f) = UpTo(f, Len(layers)) /\ LayerIdsOf(f)' = UpTo(f, Len(layers))'
    BY <1>1 DEF UpTo, LayerIdsOf
<1> QED BY <1>3, <1>4, <1>5

\* If no layer is committed, a file's picture changes with its active layer only.
LEMMA QuietPictures ==
    ASSUME CatalogInv, CatalogInv', Kept, UNCHANGED layers, NEW f \in Files
    PROVE  /\ LayerIdsOf(f)' = LayerIdsOf(f)
           /\ Picture(f, LayerIdsOf(f))' = Picture(f, LayerIdsOf(f))
           /\ Picture(f, Now(f))' = Over(ActivePicture(f)', Picture(f, LayerIdsOf(f)))
<1>1. LayerIdsOf(f)' = LayerIdsOf(f)
    BY DEF LayerIdsOf
<1>2. Picture(f, LayerIdsOf(f))' = Picture(f, LayerIdsOf(f))
    <2>1. PICK ids \in SUBSET LayerIdsOf(f) : ids = LayerIdsOf(f)
        OBVIOUS
    <2>2. Picture(f, ids)' = Picture(f, ids)
        BY CommittedPictures
    <2>3. Picture(f, LayerIdsOf(f))' = Picture(f, ids)'
        BY <1>1, <2>1 DEF Picture
    <2> QED BY <2>1, <2>2, <2>3
<1>3. NowStacked'
    BY NowIs, PTL
<1> QED BY <1>1, <1>2, <1>3 DEF NowStacked

\* A commit makes a layer whose picture is all there was; what the file shows
\* stays, whether the active layer is dropped or kept.
LEMMA CommitPictures ==
    ASSUME CatalogInv, CatalogInv', ChunksTileData, Kept,
           NEW f \in Files, NEW tag \in Tags, CommitLayer(f, tag),
           memtable' = memtable \/ memtable' = [memtable EXCEPT ![f] = EmptyLayer],
           NEW g \in Files
    PROVE  /\ Len(layers') = Len(layers) + 1
           /\ LayerIdsOf(g)' = IF g = f THEN LayerIdsOf(g) \cup {Len(layers) + 1} ELSE LayerIdsOf(g)
           /\ Picture(g, Now(g))' = Picture(g, Now(g))
           /\ Picture(g, LayerIdsOf(g))' =
                  IF g = f THEN Picture(g, Now(g)) ELSE Picture(g, LayerIdsOf(g))
<1>1. /\ layers \in Seq(Layer) /\ Len(layers) \in Nat /\ DOMAIN layers = 1..Len(layers)
      /\ memtable \in [Files -> ActiveLayer]
    BY DEF CatalogInv, TypeOK
<1> PICK n \in Nat : n = Len(layers) + 1
    BY <1>1
<1>2. PICK new : /\ layers' = Append(layers, new) /\ new.file = f
                 /\ new.key = ObjectKey(f, versionSeq + 1) /\ new.chunks = memtable[f].chunks
    BY DEF CommitLayer
<1>3. /\ Len(layers') = n /\ DOMAIN layers' = 1..n /\ layers'[n] = new
      /\ \A i \in DOMAIN layers : layers'[i] = layers[i]
    BY <1>1, <1>2
<1>4. objects'[new.key] = memtable[f].data
    BY <1>2 DEF CommitLayer, PutObject
<1>5. LayerIdsOf(g)' = IF g = f THEN LayerIdsOf(g) \cup {n} ELSE LayerIdsOf(g)
    BY <1>1, <1>2, <1>3 DEF LayerIdsOf
<1>6. PICK ids \in SUBSET LayerIdsOf(g) : ids = LayerIdsOf(g)
    OBVIOUS
<1>7. Picture(g, ids)' = Picture(g, LayerIdsOf(g))
    BY <1>6, CommittedPictures
<1>8. NowStacked /\ NowStacked'
    BY NowIs, PTL
<1>9. Picture(g, Now(g)) = Over(ActivePicture(g), Picture(g, LayerIdsOf(g)))
    BY <1>8 DEF NowStacked
<1>10. Picture(g, Now(g))' = Over(ActivePicture(g)', Picture(g, LayerIdsOf(g))')
    BY <1>8 DEF NowStacked
<1>11. CASE g # f
    <2>1. Picture(g, LayerIdsOf(g))' = Picture(g, LayerIdsOf(g))
        BY <1>5, <1>6, <1>7, <1>11 DEF Picture
    <2>2. ActivePicture(g)' = ActivePicture(g)
        BY <1>1, <1>11 DEF ActivePicture
    <2> QED BY <1>3, <1>5, <1>9, <1>10, <1>11, <2>1, <2>2
<1>12. CASE g = f
    <2>1. /\ n \in Nat /\ ids \in SUBSET Nat /\ \A i \in ids : i < n
        BY <1>1, <1>6 DEF LayerIdsOf
    <2>2. PicturesStack'
        BY PicturesAreStacked, PTL
    <2>3. Picture(g, ids \cup {n})' =
              Over(LayerPicture(ChunksOf(g, n), DataOf(g, n))', Picture(g, ids)')
        BY <1>1, <2>1, <2>2 DEF PicturesStack
    <2>4. LayerPicture(ChunksOf(g, n), DataOf(g, n))' = ActivePicture(g)
        <3>1. n # ActiveId /\ n \in DOMAIN layers'
            <4>1. n <= versionSeq' /\ versionSeq' \in 0..MaxVersions
                BY <1>3 DEF CatalogInv, TypeOK
            <4> QED BY <1>3, <4>1, BoundsAssumption DEF ActiveId
        <3>2. ChunksOf(g, n)' = memtable[g].chunks
            BY <1>2, <1>3, <1>12, <3>1 DEF ChunksOf, ActiveId
        <3>3. DataOf(g, n)' = memtable[g].data
            BY <1>3, <1>4, <1>12, <3>1 DEF DataOf, ActiveId
        <3> QED BY <3>2, <3>3 DEF ActivePicture
    <2>5. Picture(g, LayerIdsOf(g))' = Picture(g, Now(g))
        BY <1>5, <1>6, <1>7, <1>9, <1>12, <2>3, <2>4 DEF Picture
    <2>6. Picture(g, Now(g))' = Picture(g, Now(g))
        <3>1. CASE memtable' = memtable
            <4>1. ActivePicture(g)' = ActivePicture(g)
                BY <3>1 DEF ActivePicture
            <4>2. Over(ActivePicture(g), Over(ActivePicture(g), Picture(g, LayerIdsOf(g)))) =
                      Over(ActivePicture(g), Picture(g, LayerIdsOf(g)))
                BY OverFacts
            <4>3. Picture(g, Now(g))' = Over(ActivePicture(g), Picture(g, Now(g)))
                BY <1>10, <2>5, <4>1
            <4> QED BY <1>9, <4>2, <4>3
        <3>2. CASE memtable' = [memtable EXCEPT ![f] = EmptyLayer]
            <4>1. memtable'[g] = EmptyLayer
                BY <1>1, <1>12, <3>2
            <4>2. DOMAIN ActivePicture(g)' = {}
                BY <4>1 DEF ActivePicture, LayerPicture, EmptyLayer
            <4>3. Picture(g, Now(g)) =
                      [at \in DOMAIN Picture(g, Now(g)) |-> Picture(g, Now(g))[at]]
                BY PictureIsFunction
            <4> QED BY <1>10, <2>5, <4>2, <4>3, OverFacts
        <3> QED BY <3>1, <3>2
    <2> QED BY <1>3, <1>5, <1>12, <2>5, <2>6
<1> QED BY <1>11, <1>12

\* Bytes appended at the end of an active layer.
LEMMA AppendedPicture ==
    ASSUME NEW layer \in ActiveLayer, Tiles(layer.chunks, layer.data),
           NEW layerStart, layerStart = Len(layer.data), NEW fileStart \in Nat,
           NEW bytes \in Seq(Nat), bytes # << >>, fileStart + Len(bytes) <= MaxFileSize
    PROVE  LET appended == AppendChunk(layer, layerStart, fileStart, bytes)
           IN  /\ LayerPicture(appended.chunks, appended.data) =
                      Over(Laid(fileStart, bytes), LayerPicture(layer.chunks, layer.data))
               /\ appended \in ActiveLayer
               /\ Tiles(appended.chunks, appended.data)
<1> DEFINE chunk == [layerRange |-> <<layerStart, layerStart + Len(bytes)>>,
                     fileRange |-> <<fileStart, fileStart + Len(bytes)>>]
<1>1. layer.chunks \in Seq(Chunk) /\ layer.data \in Seq(Nat)
    BY DEF ActiveLayer
<1>2. chunk \in Chunk
    BY <1>1, BoundsAssumption DEF Chunk
<1>3. /\ chunk.layerRange = <<Len(layer.data), Len(layer.data) + Len(bytes)>>
      /\ chunk.fileRange = <<fileStart, fileStart + Len(bytes)>>
    OBVIOUS
<1>4. Fits(layer.chunks, layer.data)
    BY <1>1, TilesFit
<1> HIDE DEF chunk
<1>5. LayerPicture(Append(layer.chunks, chunk), layer.data \o bytes) =
          Over(Laid(fileStart, bytes), LayerPicture(layer.chunks, layer.data))
    BY <1>1, <1>2, <1>3, <1>4, AppendPicture
<1>6. AppendChunk(layer, layerStart, fileStart, bytes) =
          [chunks |-> Append(layer.chunks, chunk), data |-> layer.data \o bytes]
    BY DEF AppendChunk, chunk
<1>7. layerStart \in Nat
    BY <1>1
<1>8. AppendChunk(layer, layerStart, fileStart, bytes) \in ActiveLayer
    BY <1>7, AppendChunkType
<1> DEFINE appended == AppendChunk(layer, layerStart, fileStart, bytes)
<1>9. Tiles(appended.chunks, appended.data)
    BY AppendChunkTiles
<1>10. LayerPicture(appended.chunks, appended.data) =
           Over(Laid(fileStart, bytes), LayerPicture(layer.chunks, layer.data))
    BY <1>5, <1>6
<1> QED BY <1>8, <1>9, <1>10

\* What a write makes of the active layer: the data over the padding over it.
LEMMA WrittenPicture ==
    ASSUME NEW layer \in ActiveLayer, Tiles(layer.chunks, layer.data),
           NEW fileSize \in 0..MaxFileSize, NEW offset \in Offsets, NEW data \in Payloads[offset],
           layer.chunks = << >> \/ offset <= fileSize
    PROVE  LET written == Written(layer, fileSize, offset, data)
               old == LayerPicture(layer.chunks, layer.data)
           IN  LayerPicture(written.chunks, written.data) =
                   Over(Laid(offset, data),
                        IF offset > fileSize
                        THEN Over(Laid(fileSize, Zeroes(offset - fileSize)), old) ELSE old)
<1> DEFINE padded == Padded(layer, fileSize, offset)
           old == LayerPicture(layer.chunks, layer.data)
<1>1. /\ offset \in Nat /\ fileSize \in Nat /\ data \in Seq(Nat) /\ data # << >>
      /\ offset + Len(data) <= MaxFileSize /\ offset <= MaxFileSize
    BY OffsetsAssumption, PayloadsAssumption, FileSizeAssumption, BoundsAssumption
<1>2. /\ padded \in ActiveLayer
      /\ Tiles(padded.chunks, padded.data)
      /\ LayerPicture(padded.chunks, padded.data) =
             IF offset > fileSize
             THEN Over(Laid(fileSize, Zeroes(offset - fileSize)), old) ELSE old
    <2>1. CASE offset > fileSize
        <3>1. layer.chunks = << >> /\ layer.data = << >>
            BY <1>1, <2>1 DEF Tiles
        <3>2. LastFileEnd(layer) = Len(layer.data)
            BY <3>1 DEF LastFileEnd
        <3>3. offset - fileSize \in Nat /\ offset - fileSize # 0
            BY <1>1, <2>1
        <3>4. /\ Zeroes(offset - fileSize) \in Seq(Nat)
              /\ Len(Zeroes(offset - fileSize)) = offset - fileSize
            BY <3>3, ZeroesType
        <3>5. Zeroes(offset - fileSize) # << >>
            BY <3>3, <3>4
        <3>6. fileSize + Len(Zeroes(offset - fileSize)) <= MaxFileSize
            BY <1>1, <3>4, BoundsAssumption
        <3> DEFINE appended == AppendChunk(layer, LastFileEnd(layer), fileSize,
                                           Zeroes(offset - fileSize))
        <3>7. /\ appended \in ActiveLayer /\ Tiles(appended.chunks, appended.data)
              /\ LayerPicture(appended.chunks, appended.data) =
                     Over(Laid(fileSize, Zeroes(offset - fileSize)), old)
            BY <1>1, <3>2, <3>4, <3>5, <3>6, AppendedPicture
        <3> QED BY <2>1, <3>7 DEF Padded
    <2>2. CASE ~(offset > fileSize)
        BY <2>2 DEF Padded
    <2> QED BY <2>1, <2>2
<1>3. LastLayerEnd(padded) = Len(padded.data)
    BY <1>2, LastLayerEndOfTiles
<1> HIDE DEF padded, old
<1> DEFINE written == AppendChunk(padded, LastLayerEnd(padded), offset, data)
<1>4. LayerPicture(written.chunks, written.data) =
          Over(Laid(offset, data), LayerPicture(padded.chunks, padded.data))
    BY <1>1, <1>2, <1>3, AppendedPicture
<1> QED BY <1>2, <1>4 DEF Written, padded, old

LEMMA SameEnd ==
    ASSUME NEW m \in Nat, NEW n \in Nat, 0..(m - 1) = 0..(n - 1)
    PROVE  m = n
<1>1. \A k \in Nat : k < m <=> k < n
    <2>1. \A k \in Nat : k < m <=> k \in 0..(m - 1)
        OBVIOUS
    <2>2. \A k \in Nat : k < n <=> k \in 0..(n - 1)
        OBVIOUS
    <2> QED BY <2>1, <2>2
<1> QED BY <1>1

\* A picture of the bytes below an end with data laid over it, and zeroes between.
Rewritten(picture, end, offset, data) ==
    Over(Laid(offset, data),
         IF offset > end THEN Over(Laid(end, Zeroes(offset - end)), picture) ELSE picture)

\* What a write makes of the picture of its file: the data over it, and zeroes
\* between its end and the data.  The size the code pads from is that end
\* whenever it pads, although it looks at one kind of layer only.
LEMMA WritePictures ==
    ASSUME Dense, ReadInv, CatalogInv', Kept,
           NEW f \in Files, NEW offset \in Offsets, NEW data \in Payloads[offset],
           WriteFile(f, offset, data),
           NEW end \in Nat, DOMAIN Picture(f, Now(f)) = 0..(end - 1)
    PROVE  Picture(f, Now(f))' = Rewritten(Picture(f, Now(f)), end, offset, data)
<1> USE DEF ReadInv
<1> DEFINE active == memtable[f]
           committed == Picture(f, LayerIdsOf(f))
           size == SizeOf(f)
<1>1. /\ active \in ActiveLayer /\ Tiles(active.chunks, active.data)
      /\ size \in 0..MaxFileSize /\ size \in Nat
      /\ memtable \in [Files -> ActiveLayer]
    BY SizeOfType, BoundsAssumption DEF CatalogInv, TypeOK, ChunksTileData
<1>2. active.chunks = << >> \/ offset <= size
    BY DEF WriteFile, LeavesNoGap
<1>3. Picture(f, Now(f)) = Over(ActivePicture(f), committed)
    BY NowIs DEF NowStacked
<1>4. Picture(f, Now(f))' = Over(ActivePicture(f)', committed)
    BY QuietPictures DEF WriteFile
<1>5. ActivePicture(f)' =
          Over(Laid(offset, data),
               IF offset > size
               THEN Over(Laid(size, Zeroes(offset - size)), ActivePicture(f))
               ELSE ActivePicture(f))
    <2>1. memtable'[f] = Written(active, size, offset, data)
        BY <1>1 DEF WriteFile
    <2>2. ActivePicture(f)' = LayerPicture(Written(active, size, offset, data).chunks,
                                           Written(active, size, offset, data).data)
        BY <2>1 DEF ActivePicture
    <2> QED BY <1>1, <1>2, <2>2, WrittenPicture DEF ActivePicture
<1>6. \/ size = end
      \/ ~(offset > size) /\ ~(offset > end)
    <2>1. CASE active.chunks = << >>
        <3>1. size = HighestEnd(f, ChunkIds(f, LayerIdsOf(f)))
            BY <2>1 DEF SizeOf, CalcFileSize
        <3>2. NoHoles(committed)
            <4>1. Len(layers) \in 0..Len(layers)
                BY DEF CatalogInv, TypeOK
            <4>2. LayerIdsOf(f) = UpTo(f, Len(layers))
                BY CommittedPictures
            <4> QED BY <4>1, <4>2 DEF HolesInv
        <3>3. DOMAIN committed = 0..(size - 1)
            <4>1. LayerIdsOf(f) \in SUBSET (LayerIdsOf(f) \cup {ActiveId})
                OBVIOUS
            <4> QED BY <3>1, <3>2, <4>1, PictureBelowEnd
        <3>4. DOMAIN ActivePicture(f) = {}
            BY <2>1 DEF ActivePicture, LayerPicture
        <3>5. 0..(size - 1) = 0..(end - 1)
            BY <1>3, <3>3, <3>4, OverFacts
        <3> QED BY <1>1, <3>5, SameEnd
    <2>2. CASE active.chunks # << >>
        <3>1. size = HighestEnd(f, ChunkIds(f, {ActiveId}))
            BY <2>2 DEF SizeOf
        <3>2. size <= end
            <4> DEFINE ids == {ActiveId}
                       chunks == ChunkIds(f, ids)
            <4>1. \A p \in chunks : /\ ChunkAt(f, p) \in Chunk
                                    /\ ChunkAt(f, p).fileRange[1] < ChunkAt(f, p).fileRange[2]
                                    /\ p \in ChunkIds(f, Now(f))
                <5>1. \A p \in chunks : /\ ChunkAt(f, p) \in Chunk
                                        /\ ChunkAt(f, p).fileRange[1] < ChunkAt(f, p).fileRange[2]
                    BY ChunkNotEmpty
                <5> QED BY <5>1 DEF ChunkIds, Now
            <4>2. \A p \in chunks : ChunkAt(f, p).fileRange[2] \in 0..MaxFileSize
                BY <4>1, ChunkEnds, BoundsAssumption
            <4>3. size \in {0} \cup {ChunkAt(f, p).fileRange[2] : p \in chunks}
                <5> HIDE DEF chunks
                <5>1. HighestEnd(f, chunks) \in {0} \cup {ChunkAt(f, p).fileRange[2] : p \in chunks}
                    BY <4>2, HighestEndIs, BoundsAssumption
                <5> QED BY <3>1, <5>1 DEF chunks
            <4>4. ASSUME NEW p \in chunks, size = ChunkAt(f, p).fileRange[2] PROVE size <= end
                <5>1. /\ ChunkAt(f, p).fileRange[1] \in Nat
                      /\ ChunkAt(f, p).fileRange[1] < size
                    BY <4>1, <4>4, ChunkEnds
                <5>2. size - 1 \in Nat /\ Covers(ChunkAt(f, p), size - 1)
                    <6> HIDE DEF size
                    <6> QED BY <1>1, <4>4, <5>1 DEF Covers
                <5>3. size - 1 \in DOMAIN Picture(f, Now(f))
                    BY <4>1, <5>2, PictureDomain
                <5> HIDE DEF size
                <5> QED BY <1>1, <5>3
            <4> HIDE DEF chunks, size
            <4> QED BY <4>3, <4>4
        <3>3. offset \in Nat
            BY OffsetsAssumption
        <3> QED BY <1>1, <1>2, <2>2, <3>2, <3>3
    <2> QED BY <2>1, <2>2
<1>7. Over(Over(Laid(offset, data),
                IF offset > end
                THEN Over(Laid(end, Zeroes(offset - end)), ActivePicture(f))
                ELSE ActivePicture(f)), committed) =
      Over(Laid(offset, data),
           IF offset > end
           THEN Over(Laid(end, Zeroes(offset - end)), Over(ActivePicture(f), committed))
           ELSE Over(ActivePicture(f), committed))
    <2> DEFINE laid == Laid(offset, data)
               zeroes == Laid(end, Zeroes(offset - end))
    <2> HIDE DEF laid, zeroes, committed
    <2>1. /\ Over(Over(laid, Over(zeroes, ActivePicture(f))), committed) =
                 Over(laid, Over(Over(zeroes, ActivePicture(f)), committed))
          /\ Over(Over(zeroes, ActivePicture(f)), committed) =
                 Over(zeroes, Over(ActivePicture(f), committed))
          /\ Over(Over(laid, ActivePicture(f)), committed) =
                 Over(laid, Over(ActivePicture(f), committed))
        BY OverAssociative
    <2>2. CASE offset > end
        BY <2>1, <2>2 DEF laid, zeroes
    <2>3. CASE ~(offset > end)
        BY <2>1, <2>3 DEF laid
    <2> QED BY <2>2, <2>3
<1> QED BY <1>3, <1>4, <1>5, <1>6, <1>7 DEF Rewritten

\* The bytes below the end stay without holes; the end moves to the data's.
LEMMA LaidDomain ==
    ASSUME NEW picture, NEW end \in Nat, DOMAIN picture = 0..(end - 1),
           NEW offset \in Nat, NEW data \in Seq(Nat), data # << >>,
           NEW reach \in Nat, reach = offset + Len(data)
    PROVE  DOMAIN Rewritten(picture, end, offset, data) =
               0..((IF reach > end THEN reach ELSE end) - 1)
<1>1. Len(data) \in Nat /\ Len(data) > 0
    OBVIOUS
<1>2. DOMAIN Laid(offset, data) = offset..(reach - 1) /\ reach > offset
    BY <1>1 DEF Laid
<1>3. CASE offset > end
    <2>1. Len(Zeroes(offset - end)) = offset - end
        <3>1. offset - end \in Nat
            BY <1>3
        <3> QED BY <3>1, ZeroesType
    <2>2. DOMAIN Laid(end, Zeroes(offset - end)) = end..(offset - 1)
        BY <1>3, <2>1 DEF Laid
    <2> DEFINE padded == Over(Laid(end, Zeroes(offset - end)), picture)
    <2>3. DOMAIN padded = (end..(offset - 1)) \cup (0..(end - 1))
        BY <2>2, OverFacts
    <2>4. DOMAIN Over(Laid(offset, data), padded) =
              (offset..(reach - 1)) \cup ((end..(offset - 1)) \cup (0..(end - 1)))
        BY <1>2, <2>3, OverFacts
    <2>5. (offset..(reach - 1)) \cup ((end..(offset - 1)) \cup (0..(end - 1))) = 0..(reach - 1)
        BY <1>2, <1>3
    <2>6. DOMAIN Over(Laid(offset, data), padded) = 0..(reach - 1)
        BY <2>4, <2>5, Zenon
    <2>7. reach > end
        BY <1>2, <1>3
    <2> HIDE DEF padded
    <2>8. DOMAIN Over(Laid(offset, data), IF offset > end THEN padded ELSE picture) =
              0..((IF reach > end THEN reach ELSE end) - 1)
        BY <1>3, <2>6, <2>7
    <2> QED BY <2>8 DEF padded, Rewritten
<1>4. CASE ~(offset > end)
    <2>1. DOMAIN Over(Laid(offset, data), picture) = (offset..(reach - 1)) \cup (0..(end - 1))
        BY <1>2, OverFacts
    <2>2. (offset..(reach - 1)) \cup (0..(end - 1)) =
              0..((IF reach > end THEN reach ELSE end) - 1)
        BY <1>2, <1>4
    <2>3. Rewritten(picture, end, offset, data) = Over(Laid(offset, data), picture)
        BY <1>4 DEF Rewritten
    <2> QED BY <2>1, <2>2, <2>3, Zenon
<1> QED BY <1>3, <1>4

LEMMA IntervalHasNoHoles ==
    ASSUME NEW picture, NEW end \in Nat, DOMAIN picture = 0..(end - 1)
    PROVE  NoHoles(picture)
BY DEF NoHoles

----------------------------------------------------------------------------
(* Every chunk begins and ends at a mark                                   *)

LEMMA SizeIsMark ==
    ASSUME CatalogInv, MarksInv, NEW f \in Files
    PROVE  SizeOf(f) \in Marks
<1>1. ASSUME NEW ids \in SUBSET (LayerIdsOf(f) \cup {ActiveId})
      PROVE  HighestEnd(f, ChunkIds(f, ids)) \in Marks
    <2> DEFINE chunks == ChunkIds(f, ids)
    <2>1. \A p \in chunks : ChunkAt(f, p) \in Chunk
        BY ChunkAtType DEF CatalogInv
    <2>2. \A p \in chunks : ChunkAt(f, p).fileRange[2] \in 0..MaxFileSize
        BY <2>1, ChunkEnds, BoundsAssumption
    <2>3. ASSUME NEW p \in chunks PROVE ChunkAt(f, p).fileRange[2] \in Marks
        <3>1. PICK i \in ids : \E j \in DOMAIN ChunksOf(f, i) : p = <<i, j>>
            BY DEF ChunkIds
        <3>2. PICK j \in DOMAIN ChunksOf(f, i) : p = <<i, j>>
            BY <3>1
        <3>3. ChunkAt(f, p) = ChunksOf(f, i)[j]
            BY <3>2 DEF ChunkAt
        <3>4. AtMarks(ChunksOf(f, i))
            BY DEF MarksInv, ChunksOf, LayerIdsOf
        <3> QED BY <3>3, <3>4 DEF AtMarks
    <2> HIDE DEF chunks
    <2>4. HighestEnd(f, chunks) \in {0} \cup {ChunkAt(f, p).fileRange[2] : p \in chunks}
        BY <2>2, HighestEndIs, BoundsAssumption
    <2>5. 0 \in Marks
        BY DEF Marks
    <2> QED BY <2>3, <2>4, <2>5 DEF chunks
<1> QED BY <1>1 DEF SizeOf, CalcFileSize

LEMMA AppendAtMarks ==
    ASSUME NEW layer \in ActiveLayer, AtMarks(layer.chunks), NEW layerStart,
           NEW fileStart \in Marks, NEW bytes, fileStart + Len(bytes) \in Marks
    PROVE  AtMarks(AppendChunk(layer, layerStart, fileStart, bytes).chunks)
<1> DEFINE chunk == [layerRange |-> <<layerStart, layerStart + Len(bytes)>>,
                     fileRange |-> <<fileStart, fileStart + Len(bytes)>>]
           longer == Append(layer.chunks, chunk)
<1>1. layer.chunks \in Seq(Chunk)
    BY DEF ActiveLayer
<1>2. chunk.fileRange[1] \in Marks /\ chunk.fileRange[2] \in Marks
    OBVIOUS
<1> HIDE DEF chunk
<1>3. \A j \in DOMAIN longer :
          \/ j \in DOMAIN layer.chunks /\ longer[j] = layer.chunks[j]
          \/ longer[j] = chunk
    BY <1>1
<1>4. AtMarks(longer)
    <2> HIDE DEF longer
    <2> QED BY <1>2, <1>3 DEF AtMarks
<1> QED BY <1>4 DEF AppendChunk, chunk

LEMMA WrittenAtMarks ==
    ASSUME NEW layer \in ActiveLayer, AtMarks(layer.chunks),
           NEW fileSize \in 0..MaxFileSize, fileSize \in Marks,
           NEW offset \in Offsets, NEW data \in Payloads[offset]
    PROVE  AtMarks(Written(layer, fileSize, offset, data).chunks)
<1>1. /\ offset \in Nat /\ fileSize \in Nat /\ offset <= MaxFileSize
      /\ offset \in Marks /\ offset + Len(data) \in Marks
    <2>1. offset + Len(data) \in Marks
        BY DEF Marks
    <2> QED BY <2>1, OffsetsAssumption, PayloadsAssumption, FileSizeAssumption, BoundsAssumption
            DEF Marks
<1>2. Padded(layer, fileSize, offset) \in ActiveLayer
    BY <1>1, PaddedType
<1>3. AtMarks(Padded(layer, fileSize, offset).chunks)
    <2>1. CASE offset > fileSize
        <3>1. fileSize + Len(Zeroes(offset - fileSize)) = offset
            <4>1. offset - fileSize \in Nat
                BY <1>1, <2>1
            <4>2. Len(Zeroes(offset - fileSize)) = offset - fileSize
                BY <4>1, ZeroesType
            <4> QED BY <1>1, <4>2
        <3> QED BY <1>1, <2>1, <3>1, AppendAtMarks DEF Padded
    <2>2. CASE ~(offset > fileSize)
        BY <2>2 DEF Padded
    <2> QED BY <2>1, <2>2
<1> QED BY <1>1, <1>2, <1>3, AppendAtMarks DEF Written

LEMMA MarksStep == CatalogInv /\ MarksInv /\ [Next]_vars => MarksInv'
<1> SUFFICES ASSUME CatalogInv, MarksInv, [Next]_vars PROVE MarksInv'
    OBVIOUS
<1>1. layers \in Seq(Layer) /\ memtable \in [Files -> ActiveLayer] /\ TypeOK
    BY DEF CatalogInv, TypeOK
<1>2. ASSUME UNCHANGED <<memtable, layers>> PROVE MarksInv'
    BY <1>2 DEF MarksInv
<1>3. AtMarks(EmptyLayer.chunks)
    BY DEF AtMarks, EmptyLayer
<1>4. ASSUME NEW f \in Files, NEW offset \in Offsets, NEW data \in Payloads[offset],
             WriteFile(f, offset, data)
      PROVE  MarksInv'
    <2> DEFINE written == Written(memtable[f], SizeOf(f), offset, data)
    <2>1. AtMarks(written.chunks)
        BY <1>1, SizeOfType, SizeIsMark, WrittenAtMarks DEF MarksInv
    <2>2. memtable' = [memtable EXCEPT ![f] = written] /\ UNCHANGED layers
        BY <1>4 DEF WriteFile
    <2> HIDE DEF written
    <2>3. \A g \in Files : memtable'[g] = IF g = f THEN written ELSE memtable[g]
        BY <1>1, <2>2
    <2> QED BY <2>1, <2>2, <2>3 DEF MarksInv
<1>5. ASSUME NEW f \in Files, NEW tag \in Tags, CommitLayer(f, tag),
             \A g \in Files : memtable'[g] = memtable[g] \/ memtable'[g] = EmptyLayer
      PROVE  MarksInv'
    <2>1. PICK new : layers' = Append(layers, new) /\ new.chunks = memtable[f].chunks
        BY <1>5 DEF CommitLayer
    <2>2. \A i \in DOMAIN layers' :
              \/ i \in DOMAIN layers /\ layers'[i] = layers[i]
              \/ layers'[i] = new
        BY <1>1, <2>1
    <2>3. \A g \in Files : AtMarks(memtable'[g].chunks)
        BY <1>3, <1>5 DEF MarksInv
    <2> QED BY <2>1, <2>2, <2>3 DEF MarksInv
<1>6. ASSUME NEW f \in Files, NEW tag \in Tags, Checkpoint(f, tag) PROVE MarksInv'
    BY <1>1, <1>5, <1>6 DEF Checkpoint
<1>7. ASSUME NEW f \in Files, NEW tag \in Tags, CheckpointUnacknowledged(f, tag)
      PROVE  MarksInv'
    BY <1>5, <1>7 DEF CheckpointUnacknowledged
<1>8. CASE Restart
    BY <1>3, <1>8 DEF Restart, MarksInv
<1>9. CASE UNCHANGED vars
    BY <1>2, <1>9 DEF vars
<1>10. CASE Next
    BY <1>2, <1>4, <1>6, <1>7, <1>8, <1>10
       DEF Next, InsertFile, DeleteHead, SetHead, CheckpointFails
<1> QED BY <1>9, <1>10

----------------------------------------------------------------------------
(* No file has a hole: a write below the end leaves none and one beyond it  *)
(* is padded from the end                                                  *)

LEMMA InitRead == Init => ReadInv
<1> SUFFICES ASSUME Init PROVE ReadInv
    OBVIOUS
<1>1. CatalogInv /\ ChunksTileData
    BY InitCatalog, InitTiles
<1>2. MarksInv
    BY DEF Init, MarksInv, AtMarks, EmptyLayer
<1>3. ASSUME NEW f \in Files, NEW ids \in SUBSET (LayerIdsOf(f) \cup {ActiveId})
      PROVE  NoHoles(Picture(f, ids))
    <2>1. ids \subseteq {ActiveId} /\ ChunksOf(f, ActiveId) = << >>
        BY DEF Init, LayerIdsOf, ChunksOf, EmptyLayer
    <2>2. ChunkIds(f, ids) = {}
        BY <2>1 DEF ChunkIds
    <2> QED BY <2>2, PictureDomain DEF NoHoles
<1>4. HolesInv
    BY <1>3 DEF HolesInv, Now, UpTo
<1> QED BY <1>1, <1>2, <1>4 DEF ReadInv

\* A file's bytes are those below an end, and so are those of its layers up to one.
LEMMA NowEnds ==
    ASSUME ReadInv, NEW f \in Files
    PROVE  \E end \in 0..MaxFileSize : DOMAIN Picture(f, Now(f)) = 0..(end - 1)
<1>1. NoHoles(Picture(f, Now(f))) /\ Now(f) \in SUBSET (LayerIdsOf(f) \cup {ActiveId})
    BY DEF ReadInv, HolesInv, Now
<1> QED BY <1>1, PictureBelowEnd DEF ReadInv

LEMMA HolesStep ==
    ASSUME Dense, ReadInv, [Next]_vars
    PROVE  HolesInv'
<1>1. CatalogInv /\ CatalogInv' /\ Kept /\ ChunksTileData /\ HolesInv
    BY CatalogStep, KeptStep DEF ReadInv
<1>2. /\ layers \in Seq(Layer) /\ Len(layers) \in Nat
      /\ memtable \in [Files -> ActiveLayer]
    BY <1>1 DEF CatalogInv, TypeOK
<1>3. ASSUME NEW g \in Files, NEW n \in 0..Len(layers)
      PROVE  NoHoles(Picture(g, UpTo(g, n)))'
    <2>1. PICK ids \in SUBSET LayerIdsOf(g) : ids = UpTo(g, n) /\ ids = UpTo(g, n)'
        BY <1>1, CommittedPictures
    <2>2. Picture(g, ids)' = Picture(g, ids)
        BY <1>1, CommittedPictures
    <2>3. Picture(g, UpTo(g, n))' = Picture(g, UpTo(g, n))
        BY <2>1, <2>2 DEF Picture
    <2>4. NoHoles(Picture(g, UpTo(g, n)))
        BY <1>1 DEF HolesInv
    <2> QED BY <2>3, <2>4
<1>4. ASSUME NEW g \in Files
      PROVE  NoHoles(Picture(g, Now(g))) /\ NoHoles(Picture(g, LayerIdsOf(g)))
    <2>1. Len(layers) \in 0..Len(layers) /\ LayerIdsOf(g) = UpTo(g, Len(layers))
        BY <1>1, <1>2, CommittedPictures
    <2> QED BY <1>1, <2>1 DEF HolesInv
<1>5. ASSUME UNCHANGED layers, NEW f \in Files, \A g \in Files : g # f => memtable'[g] = memtable[g],
             NoHoles(Picture(f, Now(f)))'
      PROVE  HolesInv'
    <2>1. ASSUME NEW g \in Files, g # f PROVE NoHoles(Picture(g, Now(g)))'
        <3>1. ActivePicture(g)' = ActivePicture(g)
            BY <1>5, <2>1 DEF ActivePicture
        <3>2. Picture(g, Now(g)) = Over(ActivePicture(g), Picture(g, LayerIdsOf(g)))
            BY <1>1, NowIs DEF NowStacked
        <3>3. Picture(g, Now(g))' = Picture(g, Now(g))
            BY <1>1, <1>5, <3>1, <3>2, QuietPictures
        <3> QED BY <1>4, <3>3
    <2>2. \A g \in Files : NoHoles(Picture(g, Now(g)))'
        BY <1>5, <2>1
    <2> QED BY <1>3, <1>5, <2>2 DEF HolesInv
<1>6. ASSUME UNCHANGED <<layers, memtable>> PROVE HolesInv'
    <2>1. ASSUME NEW g \in Files PROVE NoHoles(Picture(g, Now(g)))'
        <3>1. ActivePicture(g)' = ActivePicture(g)
            BY <1>6 DEF ActivePicture
        <3>2. Picture(g, Now(g)) = Over(ActivePicture(g), Picture(g, LayerIdsOf(g)))
            BY <1>1, NowIs DEF NowStacked
        <3>3. Picture(g, Now(g))' = Picture(g, Now(g))
            BY <1>1, <1>6, <3>1, <3>2, QuietPictures
        <3> QED BY <1>4, <3>3
    <2> QED BY <1>3, <1>6, <2>1 DEF HolesInv
<1>7. ASSUME NEW f \in Files, NEW offset \in Offsets, NEW data \in Payloads[offset],
             WriteFile(f, offset, data)
      PROVE  HolesInv'
    <2>1. PICK end \in Nat : DOMAIN Picture(f, Now(f)) = 0..(end - 1)
        BY NowEnds, BoundsAssumption
    <2>2. PICK picture : picture = Picture(f, Now(f)) /\ DOMAIN picture = 0..(end - 1)
        BY <2>1
    <2>3. Picture(f, Now(f))' = Rewritten(picture, end, offset, data)
        BY <1>1, <1>7, <2>1, <2>2, WritePictures
    <2>4. PICK above \in Nat : DOMAIN Picture(f, Now(f))' = 0..(above - 1)
        <3>1. offset \in Nat /\ data \in Seq(Nat) /\ data # << >> /\ Len(data) \in Nat
            BY OffsetsAssumption, PayloadsAssumption
        <3>2. PICK reach \in Nat : reach = offset + Len(data)
            BY <3>1
        <3>3. DOMAIN Rewritten(picture, end, offset, data) =
                  0..((IF reach > end THEN reach ELSE end) - 1)
            BY <2>2, <3>1, <3>2, LaidDomain
        <3>4. (IF reach > end THEN reach ELSE end) \in Nat
            OBVIOUS
        <3> QED BY <2>3, <3>3, <3>4
    <2>5. NoHoles(Picture(f, Now(f)))'
        BY <2>4, IntervalHasNoHoles
    <2>6. UNCHANGED layers /\ \A g \in Files : g # f => memtable'[g] = memtable[g]
        BY <1>2, <1>7 DEF WriteFile
    <2> QED BY <1>5, <2>5, <2>6
<1>8. ASSUME NEW f \in Files, NEW tag \in Tags, CommitLayer(f, tag),
             memtable' = memtable \/ memtable' = [memtable EXCEPT ![f] = EmptyLayer]
      PROVE  HolesInv'
    <2>1. Len(layers') = Len(layers) + 1
        BY <1>1, <1>8, CommitPictures
    <2>2. ASSUME NEW g \in Files
          PROVE  NoHoles(Picture(g, Now(g)))' /\ NoHoles(Picture(g, LayerIdsOf(g)))'
        BY <1>1, <1>4, <1>8, CommitPictures
    <2>3. ASSUME NEW g \in Files, NEW n \in 0..Len(layers'), n \notin 0..Len(layers)
          PROVE  NoHoles(Picture(g, UpTo(g, n)))'
        <3>1. n = Len(layers')
            BY <1>2, <2>1, <2>3
        <3>2. UpTo(g, n)' = LayerIdsOf(g)'
            BY <1>1, <3>1, CommittedPictures DEF UpTo
        <3>3. Picture(g, UpTo(g, n))' = Picture(g, LayerIdsOf(g))'
            BY <3>2 DEF Picture
        <3> QED BY <2>2, <3>3
    <2> QED BY <1>3, <2>2, <2>3 DEF HolesInv
<1>9. ASSUME NEW f \in Files, NEW tag \in Tags, Checkpoint(f, tag) PROVE HolesInv'
    BY <1>8, <1>9 DEF Checkpoint
<1>10. ASSUME NEW f \in Files, NEW tag \in Tags, CheckpointUnacknowledged(f, tag)
       PROVE  HolesInv'
    BY <1>8, <1>10 DEF CheckpointUnacknowledged
<1>11. CASE Restart
    <2>1. ASSUME NEW g \in Files PROVE NoHoles(Picture(g, Now(g)))'
        <3>1. DOMAIN ActivePicture(g)' = {}
            BY <1>11 DEF Restart, ActivePicture, LayerPicture, EmptyLayer
        <3>2. Picture(g, Now(g))' = Picture(g, LayerIdsOf(g))
            <4>1. Picture(g, Now(g))' = Over(ActivePicture(g)', Picture(g, LayerIdsOf(g)))
                BY <1>1, <1>11, QuietPictures DEF Restart
            <4>2. PICK committed : committed = Picture(g, LayerIdsOf(g))
                OBVIOUS
            <4>3. committed = [at \in DOMAIN committed |-> committed[at]]
                BY <4>2, PictureIsFunction
            <4>4. Over(ActivePicture(g)', committed) = committed
                BY <3>1, <4>3, OverFacts
            <4> QED BY <4>1, <4>2, <4>4
        <3> QED BY <1>4, <3>2
    <2> QED BY <1>3, <1>11, <2>1 DEF HolesInv, Restart
<1>12. CASE UNCHANGED vars
    BY <1>6, <1>12 DEF vars
<1>13. CASE Next
    BY <1>6, <1>7, <1>9, <1>10, <1>11, <1>13
       DEF Next, InsertFile, DeleteHead, SetHead, CheckpointFails
<1> QED BY <1>12, <1>13

LEMMA ReadStep ==
    ASSUME Dense PROVE ReadInv /\ [Next]_vars => ReadInv'
BY CatalogStep, TilesStep, MarksStep, HolesStep DEF ReadInv

\* Clients that leave no gaps: the files read as their pictures, for ever.
THEOREM ReadInvCorrect ==
    ASSUME Dense PROVE Spec => []ReadInv
BY ReadStep, InitRead, PTL DEF Spec

----------------------------------------------------------------------------
(* Reads of a window                                                       *)

\* What a read of f sees: the layers up to the head's, or all there is.
LEMMA VisibleLayers ==
    ASSUME ReadInv, NEW f \in Files
    PROVE  LET seen == LayersSeen(f, VersionedLayer(f))
           IN  /\ seen \in SUBSET (LayerIdsOf(f) \cup {ActiveId})
               /\ NoHoles(Picture(f, seen))
<1>1. CASE heads[f] = NoVersion
    <2>1. LayersSeen(f, VersionedLayer(f)) = Now(f)
        BY <1>1 DEF VersionedLayer, LayersSeen, Now
    <2> QED BY <2>1 DEF ReadInv, HolesInv, Now
<1>2. CASE heads[f] # NoVersion
    <2>1. PICK i \in LayerIdsOf(f) : i = VersionedLayer(f)
        BY <1>2, HeadsOwnLayers DEF ReadInv, HeadNamesOwnLayer
    <2>2. i \in Nat /\ i > 0 /\ i \in 0..Len(layers)
        BY DEF ReadInv, CatalogInv, TypeOK, LayerIdsOf
    <2>3. LayersSeen(f, i) = UpTo(f, i)
        BY <2>2 DEF LayersSeen, UpTo
    <2> QED BY <2>1, <2>2, <2>3 DEF ReadInv, HolesInv, UpTo
<1> QED BY <1>1, <1>2

\* The whole of what a read sees, and any window of it.
LEMMA WindowOf ==
    ASSUME ReadInv, MarksApart, NEW f \in Files, NEW layer,
           LayersSeen(f, layer) \in SUBSET (LayerIdsOf(f) \cup {ActiveId}),
           NoHoles(Picture(f, LayersSeen(f, layer)))
    PROVE  \E end \in 0..MaxFileSize :
               /\ DOMAIN Picture(f, LayersSeen(f, layer)) = 0..(end - 1)
               /\ ReadWhole(f, layer) =
                      [status |-> "ok",
                       data |-> Bytes(Picture(f, LayersSeen(f, layer)), end)]
               /\ \A offset, size \in Nat : offset < end /\ size > 0 =>
                      ReadLayers(f, layer, offset, size) =
                          Window(Picture(f, LayersSeen(f, layer)), end, offset, size)
<1> USE DEF ReadInv
<1>1. PICK end \in 0..MaxFileSize : DOMAIN Picture(f, LayersSeen(f, layer)) = 0..(end - 1)
    BY PictureBelowEnd
<1>2. end \in Nat /\ MaxFileSize \in Nat /\ end <= MaxFileSize
    BY BoundsAssumption
<1>3. ReadWhole(f, layer) =
          [status |-> "ok",
           data |-> Bytes(Picture(f, LayersSeen(f, layer)), end)]
    <2>1. ReadLayers(f, layer, 0, MaxFileSize) =
              Window(Picture(f, LayersSeen(f, layer)), end, 0, MaxFileSize)
        BY <1>1, <1>2, ReadIs
    <2>2. (IF MaxFileSize < end - 0 THEN MaxFileSize ELSE end - 0) = end
        BY <1>2
    <2>3. \A k \in 1..end : 0 + k - 1 = k - 1
        OBVIOUS
    <2> QED BY <2>1, <2>2, <2>3 DEF ReadWhole, Window, Bytes
<1>4. ASSUME NEW offset \in Nat, NEW size \in Nat, offset < end /\ size > 0
      PROVE  ReadLayers(f, layer, offset, size) =
                 Window(Picture(f, LayersSeen(f, layer)), end, offset, size)
    BY <1>1, <1>2, <1>4, ReadIs
<1> QED BY <1>1, <1>3, <1>4

\* What the abstract file system shows is the whole of what a read sees: of the
\* versions of the file, only the head's layer carries its tag.
LEMMA VisibleIs ==
    ASSUME ReadInv, NEW f \in Files
    PROVE  VisibleFiles!Visible(f) = ReadWhole(f, VersionedLayer(f)).data
<1>1. CASE heads[f] = NoVersion
    BY <1>1 DEF VersionedLayer, VisibleFiles!Visible
<1>2. CASE heads[f] # NoVersion
    <2>1. PICK i \in LayerIdsOf(f) : i = VersionedLayer(f)
        BY <1>2, HeadsOwnLayers DEF ReadInv, HeadNamesOwnLayer
    <2>2. layers[i].tag \in Tags /\ layers[i].tag # NoTag /\ i \in DOMAIN layers /\ layers[i].file = f
        BY LayerFields, NoTagAssumption DEF ReadInv, CatalogInv, LayerIdsOf
    <2>3. \A j \in LayerIdsOf(f) : layers[j].tag = layers[i].tag => j = i
        BY <2>2 DEF ReadInv, CatalogInv, LayerIdsOf
    <2> DEFINE versions == [j \in DOMAIN layers |->
                               [file |-> layers[j].file, tag |-> layers[j].tag,
                                content |-> ReadWhole(layers[j].file, j).data]]
    <2>4. (CHOOSE j \in {j \in DOMAIN versions : versions[j].file = f} :
              versions[j].tag = layers[i].tag) = i
        BY <2>1, <2>2, <2>3 DEF LayerIdsOf
    <2>5. VisibleFiles!VersionContent(f, layers[i].tag) = versions[i].content
        BY <2>4 DEF VisibleFiles!VersionContent, VisibleFiles!VersionsOf
    <2>6. VisibleFiles!Visible(f) = versions[i].content
        BY <1>2, <2>1, <2>2, <2>5 DEF VisibleFiles!Visible
    <2> QED BY <2>1, <2>2, <2>6
<1> QED BY <1>1, <1>2

\* The answer with a window of the whole, as WindowReads has it.
PartOf(whole, offset, size) ==
    [status |-> "ok",
     data |-> SubSeq(whole, offset + 1,
                IF offset + size < Len(whole) THEN offset + size ELSE Len(whole))]

LEMMA WindowIsPart ==
    ASSUME NEW end \in Nat, NEW picture, NEW offset \in Nat, NEW size \in Nat, offset < end,
           NEW whole, whole = Bytes(picture, end)
    PROVE  Window(picture, end, offset, size) = PartOf(whole, offset, size)
<1> PICK n \in Nat : n = IF size < end - offset THEN size ELSE end - offset
    OBVIOUS
<1>1. Len(whole) = end
    BY DEF Bytes
<1>2. (IF offset + size < end THEN offset + size ELSE end) = offset + n /\ offset + n <= end
    OBVIOUS
<1>3. SubSeq(whole, offset + 1, offset + n) = [k \in 1..n |-> picture[offset + k - 1]]
    <2>1. SubSeq(whole, offset + 1, offset + n) =
              [k \in 1..(offset + n - (offset + 1) + 1) |-> whole[k + (offset + 1) - 1]]
        BY DEF Bytes
    <2>2. offset + n - (offset + 1) + 1 = n
        OBVIOUS
    <2>3. \A k \in 1..n : whole[k + (offset + 1) - 1] = picture[offset + k - 1]
        <3> TAKE k \in 1..n
        <3>1. k + (offset + 1) - 1 = offset + k /\ offset + k \in 1..end
            BY <1>2
        <3>2. whole[offset + k] = picture[offset + k - 1]
            BY <3>1 DEF Bytes
        <3> QED BY <3>1, <3>2
    <2> QED BY <2>1, <2>2, <2>3
<1>4. Window(picture, end, offset, size) =
          [status |-> "ok", data |-> [k \in 1..n |-> picture[offset + k - 1]]]
    BY DEF Window
<1> QED BY <1>1, <1>2, <1>3, <1>4 DEF PartOf

\* Of clients that leave no gaps and never write a chunk of one byte: a read
\* inside a file returns that window of what the file shows, under a head or not.
THEOREM WindowsCorrect ==
    ASSUME Dense, MarksApart PROVE Spec => []WindowReads
<1>1. ReadInv => WindowReads
    <2> SUFFICES ASSUME ReadInv, NEW f \in Files, NEW offset \in Nat, NEW size \in Nat,
                        offset < Len(VisibleFiles!Visible(f)), size > 0
                 PROVE  ReadFile(f, offset, size) =
                            PartOf(VisibleFiles!Visible(f), offset, size)
        <3>1. \A f \in Files : \A offset \in 0..Len(VisibleFiles!Visible(f)),
                                  size \in 1..Len(VisibleFiles!Visible(f)) :
                  offset \in Nat /\ size \in Nat /\ size > 0
            OBVIOUS
        <3> QED BY <3>1 DEF WindowReads, PartOf
    <2> PICK layer : layer = VersionedLayer(f)
        OBVIOUS
    <2> PICK picture : picture = Picture(f, LayersSeen(f, layer))
        OBVIOUS
    <2>1. PICK end \in 0..MaxFileSize :
              /\ ReadWhole(f, layer) = [status |-> "ok", data |-> Bytes(picture, end)]
              /\ \A start, length \in Nat : start < end /\ length > 0 =>
                     ReadLayers(f, layer, start, length) = Window(picture, end, start, length)
        BY VisibleLayers, WindowOf
    <2>2. PICK whole : whole = VisibleFiles!Visible(f)
        OBVIOUS
    <2>3. whole = Bytes(picture, end) /\ end \in Nat
        BY <2>1, <2>2, VisibleIs, BoundsAssumption
    <2>4. Len(whole) = end
        BY <2>3 DEF Bytes
    <2>5. ReadFile(f, offset, size) = Window(picture, end, offset, size)
        BY <2>1, <2>2, <2>4 DEF ReadFile
    <2>6. offset < end
        BY <2>2, <2>4
    <2>7. Window(picture, end, offset, size) = PartOf(whole, offset, size)
        BY <2>3, <2>6, WindowIsPart
    <2> QED BY <2>2, <2>5, <2>7, Zenon
<1> QED BY <1>1, ReadInvCorrect, PTL
=============================================================================
