---------------------------- MODULE LayerStore ----------------------------
(***************************************************************************)
(* The data path of the storage Manager (internal/storage), the metadata   *)
(* tables it keeps in PostgreSQL (db/schema.sql, db/queries) and the       *)
(* object store: how bytes written to a file become chunks of the active   *)
(* layer, how a checkpoint turns that layer into an object, a version, a   *)
(* layer row and chunk rows, and how a read puts the bytes back together.  *)
(*                                                                         *)
(* Every operation is one atomic step here: the Manager's mutex is held    *)
(* over the whole of WriteFile and Checkpoint.  What several goroutines    *)
(* and processes do to each other is a model of its own.                   *)
(***************************************************************************)
EXTENDS Naturals, Sequences, FiniteSetsExt, SequencesExt

CONSTANTS
    Files,          \* file names
    Tags,           \* version tags
    NoTag,          \* no version
    Offsets,        \* the offsets that are written at
    Payloads,       \* Payloads[offset]: the byte sequences written there; ZeroByte pads
    MaxChunks,      \* bound: a write finds fewer chunks than this in the active layer
    MaxVersions,    \* bound: version ids handed out
    MaxFileSize,    \* no write ends beyond it
    Dense           \* TRUE: writes to a file with an active layer leave no gap

ASSUME NoTagAssumption == NoTag \notin Tags
\* A FUSE write request carries at least one byte.
ASSUME PayloadsAssumption == Payloads \in [Offsets -> SUBSET (Seq(Nat) \ {<< >>})]
ASSUME OffsetsAssumption == Offsets \subseteq Nat
ASSUME BoundsAssumption == MaxChunks \in Nat /\ MaxVersions \in Nat /\ MaxFileSize \in Nat
ASSUME FileSizeAssumption ==
    \A offset \in Offsets : \A data \in Payloads[offset] : offset + Len(data) <= MaxFileSize
ASSUME DenseAssumption == Dense \in BOOLEAN

VARIABLES
    files,      \* rows of the table files
    memtable,   \* memtable[f]: the active layer, in the memory of the process
    versionSeq, \* the last id of the table versions; a rollback does not give it back
    layers,     \* rows of snapshot_layers in id order, with their versions and chunks
    heads,      \* rows of the table heads: the version id f is pinned to, or NoVersion
    objects     \* the object store, from keys to data

vars == <<files, memtable, versionSeq, layers, heads, objects>>

NoVersion == 0
ZeroByte == 0

\* An active layer without chunks behaves exactly as no entry in the map.
EmptyLayer == [chunks |-> << >>, data |-> << >>]

\* Ranges are <<start, end>> and exclude their end, as the type Range does.
Chunk == [layerRange : Nat \X Nat, fileRange : (0..MaxFileSize) \X (0..MaxFileSize)]
ActiveLayer == [chunks : Seq(Chunk), data : Seq(Nat)]
ObjectKey(f, version) == <<f, version>>
VersionIds == 1..MaxVersions
Layer == [file : Files, version : VersionIds, tag : Tags,
          key : Files \X VersionIds, chunks : Seq(Chunk)]

RangesOverlap(r, s) == r[1] < s[2] /\ s[1] < r[2]

----------------------------------------------------------------------------
(* Sizes                                                                   *)

LayerIdsOf(f) == {i \in DOMAIN layers : layers[i].file = f}

\* The position of the active layer in the order of the layers: after them all.
ActiveId == MaxVersions + 1

ChunksOf(f, i) == IF i = ActiveId THEN memtable[f].chunks ELSE layers[i].chunks

\* A chunk is named by its layer and its position in it, a pair.
ChunkIds(f, layerIds) == UNION {{<<i, j>> : j \in DOMAIN ChunksOf(f, i)} : i \in layerIds}
ChunkAt(f, p) == ChunksOf(f, p[1])[p[2]]

\* Mutant of Newer: only the layers are ordered, not the writes within one.
NewerIgnoringChunkOrder(q, p) == q[1] > p[1]

\* Chunk q comes after p: in a newer layer, or later in the same one.
Newer(q, p) == q[1] > p[1] \/ (q[1] = p[1] /\ q[2] > p[2])

HighestEnd(f, ids) ==
    CHOOSE end \in {0} \cup {ChunkAt(f, p).fileRange[2] : p \in ids} :
        \A p \in ids : ChunkAt(f, p).fileRange[2] <= end

CalcFileSize(f) == HighestEnd(f, ChunkIds(f, LayerIdsOf(f)))

\* As the code has it: the committed chunks count only while nothing is active.
SizeOf(f) ==
    IF memtable[f].chunks # << >> THEN HighestEnd(f, ChunkIds(f, {ActiveId}))
    ELSE CalcFileSize(f)

----------------------------------------------------------------------------
(* Reading                                                                 *)

\* Mutant of LayerByTag: the query forgets the file.
LayerByTagOfAnyFile(f, tag) == CHOOSE i \in DOMAIN layers : layers[i].tag = tag

\* The layer row id that a version tag of f leads to.
LayerByTag(f, tag) == CHOOSE i \in LayerIdsOf(f) : layers[i].tag = tag

\* The head row joined with versions, then the layer of its tag; 0 without a head.
VersionedLayer(f) ==
    IF heads[f] = NoVersion THEN 0
    ELSE LET pinned == CHOOSE i \in DOMAIN layers : layers[i].version = heads[f]
         IN  LayerByTag(f, layers[pinned].tag)

\* Mutant of LayersSeen: the query forgets to stop at the version's layer.
LayersSeenUnbounded(f, versionedLayer) ==
    IF versionedLayer > 0 THEN LayerIdsOf(f) ELSE LayerIdsOf(f) \cup {ActiveId}

\* The layers a read sees: those up to the version's, or all and the active one.
LayersSeen(f, versionedLayer) ==
    IF versionedLayer > 0 THEN {i \in LayerIdsOf(f) : i <= versionedLayer}
    ELSE LayerIdsOf(f) \cup {ActiveId}

\* Mutant of OverlappingChunks: only the chunks that start in the window.
ChunksStartingIn(f, versionedLayer, window) ==
    {p \in ChunkIds(f, LayersSeen(f, versionedLayer)) :
        ChunkAt(f, p).fileRange[1] \in window[1]..(window[2] - 1)}

OverlappingChunks(f, versionedLayer, window) ==
    {p \in ChunkIds(f, LayersSeen(f, versionedLayer)) :
        RangesOverlap(ChunkAt(f, p).fileRange, window)}

\* A range request for r names the first and the last byte; the store refuses
\* it unless the first is smaller, and the reader refuses a short answer.  A
\* slice past the active layer's data is no answer either (it panics, or shows
\* the spare capacity of the array).
ObjectReadable(key, r) == r[1] < r[2] - 1 /\ key \in DOMAIN objects /\ r[2] <= Len(objects[key])

ChunkReadable(f, p) ==
    IF p[1] = ActiveId THEN ChunkAt(f, p).layerRange[2] <= Len(memtable[f].data)
    ELSE ObjectReadable(layers[p[1]].key, ChunkAt(f, p).layerRange)

\* The byte at an offset of the file, from a chunk that covers the offset.
ByteFrom(f, p, at) ==
    LET data == IF p[1] = ActiveId THEN memtable[f].data ELSE objects[layers[p[1]].key]
    IN  data[ChunkAt(f, p).layerRange[1] + (at - ChunkAt(f, p).fileRange[1]) + 1]

\* A byte of the buffer after the loop has copied the chunks into it, oldest
\* first: the last covering chunk's, or zero if none covers it.
ByteAt(f, chunks, at) ==
    LET covering == {p \in chunks : ChunkAt(f, p).fileRange[1] <= at
                                    /\ at < ChunkAt(f, p).fileRange[2]}
        newest == CHOOSE p \in covering : \A q \in covering : ~Newer(q, p)
    IN  IF covering = {} THEN ZeroByte
        ELSE [p \in covering |-> ByteFrom(f, p, at)][newest]

\* What a read of size bytes at offset makes of the chunks it found.  The
\* buffer ends at the highest end of these chunks; without chunks and past
\* offset 0 its length wraps around and the allocation panics.  It is cut to
\* size afterwards.
Assemble(f, offset, size) ==
    [chunks \in SUBSET (Nat \X Nat) |->
        IF HighestEnd(f, chunks) < offset THEN [status |-> "panic", data |-> << >>]
        ELSE IF \E p \in chunks : ~ChunkReadable(f, p) THEN [status |-> "error", data |-> << >>]
        ELSE [status |-> "ok",
              data |-> SubSeq([k \in 1..(HighestEnd(f, chunks) - offset) |->
                                  ByteAt(f, chunks, offset + k - 1)],
                              1, Min({size, HighestEnd(f, chunks) - offset}))]]

\* A read of the layers up to one of them (0: all, and the active layer).
ReadLayers(f, versionedLayer, offset, size) ==
    Assemble(f, offset, size)[OverlappingChunks(f, versionedLayer, <<offset, offset + size>>)]

ReadFile(f, offset, size) == ReadLayers(f, VersionedLayer(f), offset, size)

----------------------------------------------------------------------------
(* Writing                                                                 *)

\* layer with bytes appended to its data and a chunk that places them.
AppendChunk(layer, layerStart, fileStart, bytes) ==
    [chunks |-> Append(layer.chunks,
                       [layerRange |-> <<layerStart, layerStart + Len(bytes)>>,
                        fileRange |-> <<fileStart, fileStart + Len(bytes)>>]),
     data |-> layer.data \o bytes]

\* Mutant of LastLayerEnd: the file range taken for the layer range.
FileEndForLayerEnd(layer) ==
    IF layer.chunks = << >> THEN 0 ELSE layer.chunks[Len(layer.chunks)].fileRange[2]

\* The ends of a layer's last chunk, 0 for a layer without chunks.
LastLayerEnd(layer) ==
    IF layer.chunks = << >> THEN 0 ELSE layer.chunks[Len(layer.chunks)].layerRange[2]
LastFileEnd(layer) ==
    IF layer.chunks = << >> THEN 0 ELSE layer.chunks[Len(layer.chunks)].fileRange[2]

Zeroes(n) == [i \in 1..n |-> ZeroByte]

\* The gap between the file's size and offset becomes a chunk of zeroes.  The
\* code places it in the layer at the end of the last chunk's FILE range.
Padded(layer, fileSize, offset) ==
    IF offset > fileSize
    THEN AppendChunk(layer, LastFileEnd(layer), fileSize, Zeroes(offset - fileSize))
    ELSE layer

Written(layer, fileSize, offset, data) ==
    LET padded == Padded(layer, fileSize, offset)
    IN  AppendChunk(padded, LastLayerEnd(padded), offset, data)

\* What Dense says of the client: a gap is written only by the first write to
\* a layer, so that the code pads at most once per layer, at its start.
LeavesNoGap(f, offset) == memtable[f].chunks = << >> \/ offset <= SizeOf(f)

\* A file with a head is read-only.
WriteFile(f, offset, data) ==
    /\ f \in files
    /\ heads[f] = NoVersion
    /\ Len(memtable[f].chunks) < MaxChunks
    /\ Dense => LeavesNoGap(f, offset)
    /\ memtable' = [memtable EXCEPT ![f] = Written(memtable[f], SizeOf(f), offset, data)]
    /\ UNCHANGED <<files, versionSeq, layers, heads, objects>>

----------------------------------------------------------------------------
(* Checkpoints                                                             *)

\* The constraint of the table chunks: no overlapping layer ranges in a layer.
DisjointInLayer(chunks) ==
    \A i, j \in DOMAIN chunks :
        i # j => ~RangesOverlap(chunks[i].layerRange, chunks[j].layerRange)

\* A checkpoint goes ahead with a file that has no head and has written data.
\* The tag is a fresh UUID (wal.go): no version of the file carries it.
CanCheckpoint(f, tag) ==
    /\ f \in files
    /\ heads[f] = NoVersion
    /\ memtable[f].data # << >>
    /\ versionSeq < MaxVersions
    /\ \A i \in LayerIdsOf(f) : layers[i].tag # tag

\* Mutant of PutObject: the upload is forgotten.
PutNothing(key, data) == UNCHANGED objects

PutObject(key, data) ==
    objects' = [k \in DOMAIN objects \cup {key} |-> IF k = key THEN data ELSE objects[k]]

\* InsertVersion, PutObject, InsertLayer, the InsertChunk loop and the commit.
CommitLayer(f, tag) ==
    /\ CanCheckpoint(f, tag)
    /\ DisjointInLayer(memtable[f].chunks)
    /\ versionSeq' = versionSeq + 1
    /\ PutObject(ObjectKey(f, versionSeq + 1), memtable[f].data)
    /\ layers' = Append(layers, [file |-> f, version |-> versionSeq + 1, tag |-> tag,
                                 key |-> ObjectKey(f, versionSeq + 1),
                                 chunks |-> memtable[f].chunks])

Checkpoint(f, tag) ==
    /\ CommitLayer(f, tag)
    /\ memtable' = [memtable EXCEPT ![f] = EmptyLayer]
    /\ UNCHANGED <<files, heads>>

\* The commit took place, its acknowledgement was lost: Checkpoint returns an
\* error and keeps the active layer.
CheckpointUnacknowledged(f, tag) ==
    /\ CommitLayer(f, tag)
    /\ UNCHANGED <<files, memtable, heads>>

\* Mutant of CheckpointFails: the object is keyed by the last id handed out.
FailsOverLastKey(f, tag) ==
    /\ CanCheckpoint(f, tag)
    /\ versionSeq' = versionSeq + 1
    /\ PutObject(ObjectKey(f, versionSeq), memtable[f].data)
    /\ UNCHANGED <<files, memtable, layers, heads>>

\* The upload or a statement after InsertVersion failed, the chunk constraint
\* included, and the transaction rolled back; the object may have been stored.
CheckpointFails(f, tag) ==
    /\ CanCheckpoint(f, tag)
    /\ versionSeq' = versionSeq + 1
    /\ \/ PutObject(ObjectKey(f, versionSeq + 1), memtable[f].data)
       \/ UNCHANGED objects
    /\ UNCHANGED <<files, memtable, layers, heads>>

----------------------------------------------------------------------------
(* The other operations                                                    *)

InsertFile(f) ==
    /\ f \notin files
    /\ files' = files \cup {f}
    /\ UNCHANGED <<memtable, versionSeq, layers, heads, objects>>

\* Mutant of SetHead: the head row takes the layer's id, not the version's.
SetHeadToLayerId(f, tag) ==
    /\ f \in files
    /\ \E i \in LayerIdsOf(f) : layers[i].tag = tag
    /\ heads' = [heads EXCEPT ![f] = LayerByTag(f, tag)]
    /\ UNCHANGED <<files, memtable, versionSeq, layers, objects>>

\* The version must have a layer of this file; the head row takes its id.
SetHead(f, tag) ==
    /\ f \in files
    /\ \E i \in LayerIdsOf(f) : layers[i].tag = tag
    /\ heads' = [heads EXCEPT ![f] = layers[LayerByTag(f, tag)].version]
    /\ UNCHANGED <<files, memtable, versionSeq, layers, objects>>

DeleteHead(f) ==
    /\ f \in files
    /\ heads' = [heads EXCEPT ![f] = NoVersion]
    /\ UNCHANGED <<files, memtable, versionSeq, layers, objects>>

\* The process stops, or crashes, and NewManager makes an empty memtable.
Restart ==
    /\ memtable' = [f \in Files |-> EmptyLayer]
    /\ UNCHANGED <<files, versionSeq, layers, heads, objects>>

Init ==
    /\ files = {}
    /\ memtable = [f \in Files |-> EmptyLayer]
    /\ versionSeq = 0
    /\ layers = << >>
    /\ heads = [f \in Files |-> NoVersion]
    /\ objects = << >>

Next ==
    \/ \E f \in Files : InsertFile(f) \/ DeleteHead(f)
    \/ \E f \in Files, offset \in Offsets : \E data \in Payloads[offset] :
          WriteFile(f, offset, data)
    \/ \E f \in Files, tag \in Tags :
          \/ Checkpoint(f, tag)
          \/ CheckpointUnacknowledged(f, tag)
          \/ CheckpointFails(f, tag)
          \/ SetHead(f, tag)
    \/ Restart

Spec == Init /\ [][Next]_vars

----------------------------------------------------------------------------
(* Properties of every client                                              *)

\* Every variable has the shape the tables and the Go types give it.
TypeOK ==
    /\ files \in SUBSET Files
    /\ memtable \in [Files -> ActiveLayer]
    /\ versionSeq \in 0..MaxVersions
    /\ layers \in Seq(Layer)
    /\ heads \in [Files -> VersionIds \cup {NoVersion}]
    /\ DOMAIN objects \subseteq Files \X VersionIds
    /\ \A k \in DOMAIN objects : objects[k] \in Seq(Nat)

\* Every committed layer has its object, and shares it with no other layer,
\* whatever attempts failed before (Checkpoint, storage.go:411-441).
LayerObjects ==
    /\ \A i \in DOMAIN layers : layers[i].key \in DOMAIN objects
    /\ \A i, j \in DOMAIN layers : layers[i].key = layers[j].key => i = j

\* A committed layer is never changed or removed, and neither is its object:
\* a retried checkpoint or one of another file cannot write over it.
LayersKept ==
    [][/\ Len(layers) <= Len(layers')
       /\ \A i \in DOMAIN layers :
             /\ layers'[i] = layers[i]
             /\ objects'[layers[i].key] = objects[layers[i].key]]_vars

\* A head leads back to a layer of its own file that has the version the row
\* names, although ReadFile goes from the id to the tag and from the tag to a
\* layer, and tags are not unique in the schema (storage.go:208-219).
HeadNamesOwnLayer ==
    \A f \in Files : heads[f] # NoVersion =>
        /\ VersionedLayer(f) \in LayerIdsOf(f)
        /\ layers[VersionedLayer(f)].version = heads[f]

\* Why the three properties above hold: version ids grow with the layers and are
\* never handed out twice, each layer's key is made of its own file and id, a tag
\* names one layer of a file, and a head row names a version of its file.
CatalogInv ==
    /\ TypeOK
    /\ Len(layers) <= versionSeq
    /\ \A i \in DOMAIN layers :
          /\ layers[i].version <= versionSeq
          /\ layers[i].key = ObjectKey(layers[i].file, layers[i].version)
          /\ layers[i].key \in DOMAIN objects
    /\ \A i, j \in DOMAIN layers :
          /\ i < j => layers[i].version < layers[j].version
          /\ layers[i].file = layers[j].file /\ layers[i].tag = layers[j].tag => i = j
    /\ \A f \in Files : heads[f] # NoVersion =>
          \E i \in LayerIdsOf(f) : layers[i].version = heads[f]

\* All of a file's bytes up to a layer (0: the active layer included).
ReadWhole(f, versionedLayer) == ReadLayers(f, versionedLayer, 0, MaxFileSize)

\* What a version reads as, its failure included, never changes once the
\* checkpoint has committed it: no later write, checkpoint, head or restart
\* can reach it (GetOverlappingChunksWithVersion's layer filter).
VersionReadsStable ==
    [][\A i \in DOMAIN layers :
          ReadWhole(layers[i].file, i)' = ReadWhole(layers[i].file, i)]_vars

----------------------------------------------------------------------------
(* Properties of clients that leave no gaps (Dense)                        *)

\* A chunk starts where the one before it ends, is not empty, and is as long in
\* the layer as in the file.
ChunkFollows(chunks, i) ==
    LET layerRange == chunks[i].layerRange
        fileRange == chunks[i].fileRange
    IN  /\ layerRange[1] = IF i = 1 THEN 0 ELSE chunks[i - 1].layerRange[2]
        /\ layerRange[1] < layerRange[2]
        /\ layerRange[2] - layerRange[1] = fileRange[2] - fileRange[1]

\* The chunks follow each other and cover the data: the layer is an append-only
\* log of the writes, as the comment on Layer (metadata.go:32-34) has it.
Tiles(chunks, data) ==
    /\ chunks = << >> <=> data = << >>
    /\ \A i \in DOMAIN chunks : ChunkFollows(chunks, i)
    /\ chunks # << >> => chunks[Len(chunks)].layerRange[2] = Len(data)

\* The active layers and the committed ones with their objects are such logs.
ChunksTileData ==
    /\ \A f \in Files : Tiles(memtable[f].chunks, memtable[f].data)
    /\ \A i \in DOMAIN layers : Tiles(layers[i].chunks, objects[layers[i].key])

\* What the files are to a client: the abstract file system.
VisibleFiles ==
    INSTANCE VersionedFile WITH
        content <- [f \in Files |-> ReadWhole(f, 0).data],
        saved <- [i \in DOMAIN layers |->
                    [file |-> layers[i].file, tag |-> layers[i].tag,
                     content |-> ReadWhole(layers[i].file, i).data]],
        head <- [f \in Files |->
                    IF heads[f] = NoVersion THEN NoTag
                    ELSE layers[VersionedLayer(f)].tag]

\* Layers, chunks, objects and rows implement the versioned array of bytes.
ImplementsVersionedFile == VisibleFiles!Spec

\* A read inside the file returns exactly that window of what the file shows,
\* under a head or not: it never fails, and cutting the read into parts and
\* fetching only the overlapping chunks changes nothing (storage.go:227-283).
WindowReads ==
    \A f \in Files :
        LET whole == VisibleFiles!Visible(f)
        IN  \A offset \in 0..Len(whole), size \in 1..Len(whole) :
                offset < Len(whole) =>
                    ReadFile(f, offset, size) =
                        [status |-> "ok",
                         data |-> SubSeq(whole, offset + 1,
                                    IF offset + size < Len(whole) THEN offset + size
                                    ELSE Len(whole))]

----------------------------------------------------------------------------
(* What the comments of the code say, and the code does not do             *)

\* "File size is determined by the highest end offset across all chunks"
\* (storage.go:329, over calcSizeOf).
SizeIsHighestEnd ==
    \A f \in Files :
        SizeOf(f) = HighestEnd(f, ChunkIds(f, LayerIdsOf(f) \cup {ActiveId}))

\* "for any given snapshot_layer_id, there should be no overlapping
\* layer_ranges" (schema.sql:35), for the layer WriteFile prepares.
ActiveRangesDisjoint == \A f \in Files : DisjointInLayer(memtable[f].chunks)

\* "Range is inclusive of the start and the end" (storage.go:20): a range of
\* bytes that the object has can be fetched from it.
CommittedChunksReadable ==
    \A i \in DOMAIN layers : \A j \in DOMAIN layers[i].chunks :
        LET r == layers[i].chunks[j].layerRange
        IN  r[2] <= Len(objects[layers[i].key]) => ObjectReadable(layers[i].key, r)

\* "ReadFile returns a slice of data from the given offset up to size bytes"
\* (storage.go:164): at every offset inside the size the Manager reports.
ReadsInsideSizeReturn ==
    \A f \in Files : \A offset \in 0..MaxFileSize :
        offset < SizeOf(f) => ReadFile(f, offset, 1).status # "panic"
============================================================================
