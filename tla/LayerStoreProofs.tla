------------------------- MODULE LayerStoreProofs -------------------------
(***************************************************************************)
(* Proofs about LayerStore, for every set of files, tags, payloads and     *)
(* offsets and for every bound.                                            *)
(***************************************************************************)
EXTENDS LayerStore, NumberLemmas, TLAPS

----------------------------------------------------------------------------
(* Numbers and sizes                                                       *)

\* The fields of a committed layer.
LEMMA LayerFields ==
    ASSUME TypeOK, NEW i \in DOMAIN layers
    PROVE  /\ layers[i].file \in Files
           /\ layers[i].version \in VersionIds
           /\ layers[i].version \in Nat
           /\ layers[i].tag \in Tags
           /\ layers[i].chunks \in Seq(Chunk)
<1>1. layers[i] \in Layer
    BY DEF TypeOK
<1>2. VersionIds \subseteq Nat
    BY BoundsAssumption DEF VersionIds
<1> QED BY <1>1, <1>2 DEF Layer

\* The chunks a set of chunk ids names are chunks.
LEMMA ChunkAtType ==
    ASSUME TypeOK, NEW f \in Files, NEW ids \in SUBSET (LayerIdsOf(f) \cup {ActiveId}),
           NEW p \in ChunkIds(f, ids)
    PROVE  ChunkAt(f, p) \in Chunk
<1>1. PICK i \in ids : \E j \in DOMAIN ChunksOf(f, i) : p = <<i, j>>
    BY DEF ChunkIds
<1>2. memtable[f].chunks \in Seq(Chunk)
    BY DEF TypeOK, ActiveLayer
<1>3. i \in DOMAIN layers => layers[i].chunks \in Seq(Chunk)
    BY LayerFields
<1>4. ChunksOf(f, i) \in Seq(Chunk)
    BY <1>1, <1>2, <1>3 DEF ChunksOf, LayerIdsOf
<1> QED BY <1>1, <1>4 DEF ChunkAt

\* HighestEnd is an upper bound of the ends, and attained unless it is 0.
LEMMA HighestEndType ==
    ASSUME TypeOK, NEW f \in Files, NEW ids \in SUBSET (LayerIdsOf(f) \cup {ActiveId})
    PROVE  LET highest == HighestEnd(f, ChunkIds(f, ids))
           IN  /\ highest \in 0..MaxFileSize
               /\ \A p \in ChunkIds(f, ids) : ChunkAt(f, p).fileRange[2] <= highest
<1> DEFINE chunks == ChunkIds(f, ids)
           ends == {0} \cup {ChunkAt(f, p).fileRange[2] : p \in chunks}
<1>1. ends \subseteq 0..MaxFileSize
    <2>1. \A p \in chunks : ChunkAt(f, p).fileRange[2] \in 0..MaxFileSize
        BY ChunkAtType DEF Chunk
    <2> QED BY <2>1, BoundsAssumption
<1>2. \E x \in ends : \A y \in ends : y <= x
    <2>1. ends \subseteq Nat /\ ends # {} /\ \A y \in ends : y <= MaxFileSize
        BY <1>1, BoundsAssumption
    <2> HIDE DEF ends
    <2> QED BY <2>1, NatHasMax, BoundsAssumption
<1>3. \E x \in ends : \A p \in chunks : ChunkAt(f, p).fileRange[2] <= x
    BY <1>2
<1>4. /\ HighestEnd(f, chunks) \in ends
      /\ \A p \in chunks : ChunkAt(f, p).fileRange[2] <= HighestEnd(f, chunks)
    BY <1>3 DEF HighestEnd
<1> QED BY <1>1, <1>4

LEMMA SizeOfType ==
    ASSUME TypeOK, NEW f \in Files
    PROVE  SizeOf(f) \in 0..MaxFileSize
<1>1. HighestEnd(f, ChunkIds(f, {ActiveId})) \in 0..MaxFileSize
    BY HighestEndType
<1>2. HighestEnd(f, ChunkIds(f, LayerIdsOf(f))) \in 0..MaxFileSize
    BY HighestEndType
<1> QED BY <1>1, <1>2 DEF SizeOf, CalcFileSize

----------------------------------------------------------------------------
(* What a write makes of a layer                                           *)

LEMMA ZeroesType ==
    ASSUME NEW n \in Nat
    PROVE  Zeroes(n) \in Seq(Nat) /\ Len(Zeroes(n)) = n
BY DEF Zeroes, ZeroByte

LEMMA LastEndsType ==
    ASSUME NEW layer \in ActiveLayer
    PROVE  LastLayerEnd(layer) \in Nat /\ LastFileEnd(layer) \in Nat
<1>1. layer.chunks \in Seq(Chunk)
    BY DEF ActiveLayer
<1>2. layer.chunks # << >> => layer.chunks[Len(layer.chunks)] \in Chunk
    BY <1>1
<1> QED BY <1>2, BoundsAssumption DEF LastLayerEnd, LastFileEnd, Chunk

LEMMA AppendChunkType ==
    ASSUME NEW layer \in ActiveLayer, NEW layerStart \in Nat, NEW fileStart \in Nat,
           NEW bytes \in Seq(Nat), fileStart + Len(bytes) <= MaxFileSize
    PROVE  AppendChunk(layer, layerStart, fileStart, bytes) \in ActiveLayer
<1> DEFINE chunk == [layerRange |-> <<layerStart, layerStart + Len(bytes)>>,
                     fileRange |-> <<fileStart, fileStart + Len(bytes)>>]
<1>1. chunk \in Chunk
    BY BoundsAssumption DEF Chunk
<1>2. layer.chunks \in Seq(Chunk) /\ layer.data \in Seq(Nat)
    BY DEF ActiveLayer
<1>3. Append(layer.chunks, chunk) \in Seq(Chunk) /\ layer.data \o bytes \in Seq(Nat)
    BY <1>1, <1>2
<1> QED BY <1>3 DEF AppendChunk, ActiveLayer

LEMMA PaddedType ==
    ASSUME NEW layer \in ActiveLayer, NEW fileSize \in 0..MaxFileSize,
           NEW offset \in Nat, offset <= MaxFileSize
    PROVE  Padded(layer, fileSize, offset) \in ActiveLayer
<1>1. CASE offset > fileSize
    <2>1. /\ Zeroes(offset - fileSize) \in Seq(Nat)
          /\ fileSize + Len(Zeroes(offset - fileSize)) <= MaxFileSize
        BY <1>1, ZeroesType, BoundsAssumption
    <2>2. fileSize \in Nat
        BY BoundsAssumption
    <2>3. AppendChunk(layer, LastFileEnd(layer), fileSize, Zeroes(offset - fileSize))
              \in ActiveLayer
        BY <2>1, <2>2, AppendChunkType, LastEndsType
    <2> QED BY <1>1, <2>3 DEF Padded
<1>2. CASE ~(offset > fileSize)
    BY <1>2 DEF Padded
<1> QED BY <1>1, <1>2

LEMMA WrittenType ==
    ASSUME NEW layer \in ActiveLayer, NEW fileSize \in 0..MaxFileSize,
           NEW offset \in Offsets, NEW data \in Payloads[offset]
    PROVE  Written(layer, fileSize, offset, data) \in ActiveLayer
<1>1. /\ offset \in Nat /\ data \in Seq(Nat)
      /\ offset + Len(data) <= MaxFileSize /\ offset <= MaxFileSize
    BY OffsetsAssumption, PayloadsAssumption, FileSizeAssumption, BoundsAssumption
<1>2. Padded(layer, fileSize, offset) \in ActiveLayer
    BY <1>1, PaddedType
<1> QED BY <1>1, <1>2, AppendChunkType, LastEndsType DEF Written

----------------------------------------------------------------------------
(* The catalogue: types, versions, objects and heads                       *)

LEMMA InitCatalog == Init => CatalogInv
<1> SUFFICES ASSUME Init PROVE CatalogInv
    OBVIOUS
<1>1. EmptyLayer \in ActiveLayer
    BY DEF EmptyLayer, ActiveLayer
<1>2. TypeOK
    BY <1>1, BoundsAssumption DEF Init, TypeOK, NoVersion, VersionIds
<1> QED BY <1>2 DEF Init, CatalogInv, NoVersion

\* Steps that leave the tables and the objects alone.
LEMMA QuietStep ==
    ASSUME CatalogInv, files' \in SUBSET Files, memtable' \in [Files -> ActiveLayer],
           UNCHANGED <<versionSeq, layers, heads, objects>>
    PROVE  CatalogInv'
<1>1. TypeOK'
    BY DEF CatalogInv, TypeOK
<1> QED BY <1>1 DEF CatalogInv, LayerIdsOf

LEMMA WriteFileStep ==
    ASSUME CatalogInv, NEW f \in Files, NEW offset \in Offsets, NEW data \in Payloads[offset],
           WriteFile(f, offset, data)
    PROVE  CatalogInv'
<1>1. memtable \in [Files -> ActiveLayer] /\ files \in SUBSET Files /\ TypeOK
    BY DEF CatalogInv, TypeOK
<1>2. Written(memtable[f], SizeOf(f), offset, data) \in ActiveLayer
    BY <1>1, SizeOfType, WrittenType
<1>3. memtable' \in [Files -> ActiveLayer]
    BY <1>1, <1>2 DEF WriteFile
<1> QED BY <1>1, <1>3, QuietStep DEF WriteFile

LEMMA RestartStep ==
    ASSUME CatalogInv, Restart
    PROVE  CatalogInv'
<1>1. files \in SUBSET Files
    BY DEF CatalogInv, TypeOK
<1>2. memtable' \in [Files -> ActiveLayer]
    BY DEF Restart, EmptyLayer, ActiveLayer
<1> QED BY <1>1, <1>2, QuietStep DEF Restart

LEMMA InsertFileStep ==
    ASSUME CatalogInv, NEW f \in Files, InsertFile(f)
    PROVE  CatalogInv'
<1>1. memtable' \in [Files -> ActiveLayer] /\ files' \in SUBSET Files
    BY DEF CatalogInv, TypeOK, InsertFile
<1> QED BY <1>1, QuietStep DEF InsertFile

\* Storing an object keeps every object under another key.
LEMMA PutObjectKeeps ==
    ASSUME TypeOK, NEW f \in Files, NEW version \in VersionIds, NEW data \in Seq(Nat),
           PutObject(ObjectKey(f, version), data)
    PROVE  /\ DOMAIN objects' = DOMAIN objects \cup {ObjectKey(f, version)}
           /\ DOMAIN objects' \subseteq Files \X VersionIds
           /\ \A k \in DOMAIN objects' : objects'[k] \in Seq(Nat)
           /\ objects'[ObjectKey(f, version)] = data
           /\ \A k \in DOMAIN objects : k # ObjectKey(f, version) => objects'[k] = objects[k]
BY DEF TypeOK, PutObject, ObjectKey

LEMMA CommitLayerCatalog ==
    ASSUME CatalogInv, NEW f \in Files, NEW tag \in Tags, CommitLayer(f, tag),
           files' \in SUBSET Files, memtable' \in [Files -> ActiveLayer], UNCHANGED heads
    PROVE  CatalogInv'
<1> DEFINE version == versionSeq + 1
           new == [file |-> f, version |-> version, tag |-> tag,
                   key |-> ObjectKey(f, version), chunks |-> memtable[f].chunks]
<1>1. TypeOK /\ versionSeq \in Nat /\ layers \in Seq(Layer)
    BY BoundsAssumption DEF CatalogInv, TypeOK
<1>2. version \in VersionIds /\ versionSeq' = version
    BY <1>1, BoundsAssumption DEF CommitLayer, CanCheckpoint, VersionIds
<1>3. memtable[f].chunks \in Seq(Chunk) /\ memtable[f].data \in Seq(Nat)
    BY <1>1 DEF TypeOK, ActiveLayer
<1>4. new \in Layer
    BY <1>2, <1>3 DEF Layer, ObjectKey
<1>5. /\ layers' = Append(layers, new) /\ layers' \in Seq(Layer)
      /\ DOMAIN layers = 1..Len(layers) /\ DOMAIN layers' = 1..(Len(layers) + 1)
      /\ layers'[Len(layers) + 1] = new
      /\ \A i \in DOMAIN layers : layers'[i] = layers[i]
    BY <1>1, <1>4 DEF CommitLayer
<1>6. PutObject(ObjectKey(f, version), memtable[f].data)
    BY DEF CommitLayer
<1>7. /\ DOMAIN objects' = DOMAIN objects \cup {ObjectKey(f, version)}
      /\ DOMAIN objects' \subseteq Files \X VersionIds
      /\ \A k \in DOMAIN objects' : objects'[k] \in Seq(Nat)
    BY <1>1, <1>2, <1>3, <1>6, PutObjectKeeps
<1>8. TypeOK'
    BY <1>1, <1>2, <1>5, <1>7 DEF TypeOK, VersionIds
<1>9. \A i \in DOMAIN layers' : i = Len(layers) + 1 \/ i \in DOMAIN layers
    BY <1>5
<1>10. \A i \in DOMAIN layers' :
          /\ layers'[i].version <= versionSeq'
          /\ layers'[i].key = ObjectKey(layers'[i].file, layers'[i].version)
          /\ layers'[i].key \in DOMAIN objects'
    <2>1. \A i \in DOMAIN layers : layers[i].version \in Nat
        BY <1>1, LayerFields
    <2>2. \A i \in DOMAIN layers :
              /\ layers[i].version <= versionSeq'
              /\ layers[i].key = ObjectKey(layers[i].file, layers[i].version)
              /\ layers[i].key \in DOMAIN objects'
        BY <1>1, <1>2, <1>7, <2>1 DEF CatalogInv
    <2> QED BY <1>1, <1>2, <1>5, <1>7, <1>9, <2>2
<1>11. \A i, j \in DOMAIN layers' : i < j => layers'[i].version < layers'[j].version
    <2>1. \A i \in DOMAIN layers : layers[i].version \in Nat /\ layers[i].version < version
        BY <1>1, LayerFields DEF CatalogInv
    <2>2. \A i, j \in DOMAIN layers : i < j => layers[i].version < layers[j].version
        BY DEF CatalogInv
    <2> QED BY <1>1, <1>5, <1>9, <2>1, <2>2
<1>12. \A i, j \in DOMAIN layers' :
          layers'[i].file = layers'[j].file /\ layers'[i].tag = layers'[j].tag => i = j
    <2>1. \A i \in DOMAIN layers : layers[i].file = f => layers[i].tag # tag
        BY DEF CommitLayer, CanCheckpoint, LayerIdsOf
    <2>2. \A i, j \in DOMAIN layers :
              layers[i].file = layers[j].file /\ layers[i].tag = layers[j].tag => i = j
        BY DEF CatalogInv
    <2> QED BY <1>5, <1>9, <2>1, <2>2
<1>13. \A g \in Files : heads'[g] # NoVersion =>
          \E i \in LayerIdsOf(g)' : layers'[i].version = heads'[g]
    <2>1. \A g \in Files : heads[g] # NoVersion =>
              \E i \in LayerIdsOf(g) : layers[i].version = heads[g]
        BY DEF CatalogInv
    <2>2. DOMAIN layers \subseteq DOMAIN layers'
        BY <1>1, <1>5
    <2> QED BY <1>5, <2>1, <2>2 DEF LayerIdsOf
<1>14. Len(layers') <= versionSeq'
    BY <1>1, <1>2, <1>4 DEF CommitLayer, CatalogInv
<1> QED BY <1>8, <1>10, <1>11, <1>12, <1>13, <1>14 DEF CatalogInv

LEMMA CheckpointStep ==
    ASSUME CatalogInv, NEW f \in Files, NEW tag \in Tags, Checkpoint(f, tag)
    PROVE  CatalogInv'
<1>1. EmptyLayer \in ActiveLayer
    BY DEF EmptyLayer, ActiveLayer
<1>2. memtable' \in [Files -> ActiveLayer] /\ files' \in SUBSET Files
    BY <1>1 DEF CatalogInv, TypeOK, Checkpoint
<1> QED BY <1>2, CommitLayerCatalog DEF Checkpoint

LEMMA CheckpointUnacknowledgedStep ==
    ASSUME CatalogInv, NEW f \in Files, NEW tag \in Tags, CheckpointUnacknowledged(f, tag)
    PROVE  CatalogInv'
<1>1. memtable' \in [Files -> ActiveLayer] /\ files' \in SUBSET Files
    BY DEF CatalogInv, TypeOK, CheckpointUnacknowledged
<1> QED BY <1>1, CommitLayerCatalog DEF CheckpointUnacknowledged

LEMMA CheckpointFailsStep ==
    ASSUME CatalogInv, NEW f \in Files, NEW tag \in Tags, CheckpointFails(f, tag)
    PROVE  CatalogInv'
<1> DEFINE version == versionSeq + 1
<1>1. TypeOK /\ versionSeq \in Nat
    BY BoundsAssumption DEF CatalogInv, TypeOK
<1>2. version \in VersionIds /\ versionSeq' = version
    BY <1>1, BoundsAssumption DEF CheckpointFails, CanCheckpoint, VersionIds
<1>3. memtable[f].data \in Seq(Nat)
    BY <1>1 DEF TypeOK, ActiveLayer
<1>4. /\ DOMAIN objects \subseteq DOMAIN objects'
      /\ DOMAIN objects' \subseteq Files \X VersionIds
      /\ \A k \in DOMAIN objects' : objects'[k] \in Seq(Nat)
    <2>1. CASE PutObject(ObjectKey(f, version), memtable[f].data)
        BY <1>1, <1>2, <1>3, <2>1, PutObjectKeeps
    <2>2. CASE UNCHANGED objects
        BY <1>1, <2>2 DEF TypeOK
    <2> QED BY <2>1, <2>2 DEF CheckpointFails
<1>5. UNCHANGED <<files, memtable, layers, heads>>
    BY DEF CheckpointFails
<1>6. TypeOK'
    BY <1>1, <1>2, <1>4, <1>5 DEF TypeOK, VersionIds
<1>7. \A i \in DOMAIN layers : layers[i].version \in Nat
    BY <1>1, LayerFields
<1> QED BY <1>1, <1>2, <1>4, <1>5, <1>6, <1>7 DEF CatalogInv, LayerIdsOf

LEMMA LayerByTagOwns ==
    ASSUME NEW f, NEW tag, \E i \in LayerIdsOf(f) : layers[i].tag = tag
    PROVE  LayerByTag(f, tag) \in LayerIdsOf(f) /\ layers[LayerByTag(f, tag)].tag = tag
BY DEF LayerByTag

LEMMA SetHeadStep ==
    ASSUME CatalogInv, NEW f \in Files, NEW tag \in Tags, SetHead(f, tag)
    PROVE  CatalogInv'
<1> DEFINE i == LayerByTag(f, tag)
<1>1. i \in LayerIdsOf(f)
    BY LayerByTagOwns DEF SetHead
<1>2. TypeOK /\ i \in DOMAIN layers
    BY <1>1 DEF CatalogInv, LayerIdsOf
<1>3. layers[i].version \in VersionIds
    BY <1>2, LayerFields
<1>4. heads' = [heads EXCEPT ![f] = layers[i].version]
    BY DEF SetHead
<1>5. UNCHANGED <<files, memtable, versionSeq, layers, objects>>
    BY DEF SetHead
<1>6. TypeOK'
    BY <1>2, <1>3, <1>4, <1>5 DEF TypeOK
<1>7. \A g \in Files : heads'[g] # NoVersion =>
          \E j \in LayerIdsOf(g) : layers[j].version = heads'[g]
    <2>1. heads \in [Files -> VersionIds \cup {NoVersion}]
        BY <1>2 DEF TypeOK
    <2> QED BY <1>1, <1>4, <2>1 DEF CatalogInv
<1>8. \A g \in Files : heads'[g] # NoVersion =>
          \E j \in LayerIdsOf(g)' : layers'[j].version = heads'[g]
    BY <1>5, <1>7 DEF LayerIdsOf
<1> QED BY <1>5, <1>6, <1>8 DEF CatalogInv

LEMMA DeleteHeadStep ==
    ASSUME CatalogInv, NEW f \in Files, DeleteHead(f)
    PROVE  CatalogInv'
<1>1. heads' = [heads EXCEPT ![f] = NoVersion] /\ TypeOK
    BY DEF DeleteHead, CatalogInv
<1>2. UNCHANGED <<files, memtable, versionSeq, layers, objects>>
    BY DEF DeleteHead
<1>3. TypeOK'
    BY <1>1, <1>2 DEF TypeOK
<1>4. \A g \in Files : heads'[g] # NoVersion =>
          \E j \in LayerIdsOf(g) : layers[j].version = heads'[g]
    BY <1>1 DEF CatalogInv, TypeOK
<1>5. \A g \in Files : heads'[g] # NoVersion =>
          \E j \in LayerIdsOf(g)' : layers'[j].version = heads'[g]
    BY <1>2, <1>4 DEF LayerIdsOf
<1> QED BY <1>2, <1>3, <1>5 DEF CatalogInv

LEMMA CatalogStep == CatalogInv /\ [Next]_vars => CatalogInv'
<1> SUFFICES ASSUME CatalogInv, [Next]_vars PROVE CatalogInv'
    OBVIOUS
<1>1. CASE \E f \in Files : InsertFile(f) \/ DeleteHead(f)
    BY <1>1, InsertFileStep, DeleteHeadStep
<1>2. CASE \E f \in Files, offset \in Offsets : \E data \in Payloads[offset] :
              WriteFile(f, offset, data)
    BY <1>2, WriteFileStep
<1>3. CASE \E f \in Files, tag \in Tags :
              \/ Checkpoint(f, tag)
              \/ CheckpointUnacknowledged(f, tag)
              \/ CheckpointFails(f, tag)
              \/ SetHead(f, tag)
    BY <1>3, CheckpointStep, CheckpointUnacknowledgedStep, CheckpointFailsStep, SetHeadStep
<1>4. CASE Restart
    BY <1>4, RestartStep
<1>5. CASE UNCHANGED vars
    <2>1. TypeOK /\ UNCHANGED <<files, memtable, versionSeq, layers, heads, objects>>
        BY <1>5 DEF CatalogInv, vars
    <2> QED BY <2>1, QuietStep DEF TypeOK
<1> QED BY <1>1, <1>2, <1>3, <1>4, <1>5 DEF Next

\* The catalogue's rows stay consistent, whatever checkpoints fail, are retried
\* or lose their acknowledgement (storage.go, Checkpoint and SetHead).
THEOREM CatalogCorrect == Spec => []CatalogInv
BY InitCatalog, CatalogStep, PTL DEF Spec

\* Every variable keeps its type.
THEOREM TypeCorrect == Spec => []TypeOK
<1>1. CatalogInv => TypeOK
    BY DEF CatalogInv
<1> QED BY <1>1, CatalogCorrect, PTL

\* Every committed layer has an object of its own.
THEOREM LayerObjectsCorrect == Spec => []LayerObjects
<1>1. CatalogInv => LayerObjects
    <2> SUFFICES ASSUME CatalogInv PROVE LayerObjects
        OBVIOUS
    <2>1. TypeOK
        BY DEF CatalogInv
    <2>2. \A i, j \in DOMAIN layers : layers[i].key = layers[j].key =>
              layers[i].version = layers[j].version
        BY DEF CatalogInv, ObjectKey
    <2>3. DOMAIN layers \subseteq Nat
        BY <2>1 DEF TypeOK
    <2>4. \A i, j \in DOMAIN layers : layers[i].version = layers[j].version => i = j
        <3>1. \A i, j \in DOMAIN layers : i < j => layers[i].version < layers[j].version
            BY DEF CatalogInv
        <3>2. \A i \in DOMAIN layers : layers[i].version \in Nat
            BY <2>1, LayerFields
        <3> QED BY <2>3, <3>1, <3>2
    <2> QED BY <2>2, <2>4 DEF LayerObjects, CatalogInv
<1> QED BY <1>1, CatalogCorrect, PTL

\* From the head's version id to the tag and from the tag to the layer: the rows
\* found on the way are those of one version.
LEMMA HeadsOwnLayers == CatalogInv => HeadNamesOwnLayer
<1> SUFFICES ASSUME CatalogInv, NEW f \in Files, heads[f] # NoVersion
             PROVE  /\ VersionedLayer(f) \in LayerIdsOf(f)
                    /\ layers[VersionedLayer(f)].version = heads[f]
    BY DEF HeadNamesOwnLayer
<1> DEFINE pinned == CHOOSE i \in DOMAIN layers : layers[i].version = heads[f]
<1>1. TypeOK /\ DOMAIN layers \subseteq Nat
    BY DEF CatalogInv, TypeOK
<1>2. PICK j \in LayerIdsOf(f) : layers[j].version = heads[f]
    BY DEF CatalogInv
<1>3. pinned \in DOMAIN layers /\ layers[pinned].version = heads[f]
    BY <1>2 DEF LayerIdsOf
<1>4. pinned = j
    <2>1. j \in DOMAIN layers /\ layers[j].version = layers[pinned].version
        BY <1>2, <1>3 DEF LayerIdsOf
    <2>2. \A i, k \in DOMAIN layers : i < k => layers[i].version < layers[k].version
        BY DEF CatalogInv
    <2>3. layers[pinned].version \in Nat
        BY <1>1, <1>3, LayerFields
    <2> QED BY <1>1, <1>3, <2>1, <2>2, <2>3
<1>5. VersionedLayer(f) = LayerByTag(f, layers[pinned].tag)
    BY DEF VersionedLayer
<1>6. /\ VersionedLayer(f) \in LayerIdsOf(f)
      /\ layers[VersionedLayer(f)].tag = layers[j].tag
    <2>1. \E i \in LayerIdsOf(f) : layers[i].tag = layers[pinned].tag
        BY <1>2, <1>4
    <2>2. layers[pinned].tag = layers[j].tag
        BY <1>4
    <2> HIDE DEF pinned
    <2> QED BY <1>5, <2>1, <2>2, LayerByTagOwns
<1>7. VersionedLayer(f) = j
    BY <1>2, <1>6 DEF CatalogInv, LayerIdsOf
<1> QED BY <1>2, <1>7

\* A head leads back to a layer of its file with the version it names.
THEOREM HeadsCorrect == Spec => []HeadNamesOwnLayer
BY HeadsOwnLayers, CatalogCorrect, PTL

----------------------------------------------------------------------------
(* Committed layers and their objects are immutable                        *)

Kept ==
    /\ Len(layers) <= Len(layers')
    /\ \A i \in DOMAIN layers :
          /\ layers'[i] = layers[i]
          /\ objects'[layers[i].key] = objects[layers[i].key]

\* A new object is stored under an id that no committed layer has.
LEMMA FreshKeyKeeps ==
    ASSUME CatalogInv, NEW f \in Files, NEW tag \in Tags, CanCheckpoint(f, tag),
           PutObject(ObjectKey(f, versionSeq + 1), memtable[f].data)
    PROVE  \A i \in DOMAIN layers : objects'[layers[i].key] = objects[layers[i].key]
<1>1. TypeOK /\ versionSeq \in Nat
    BY BoundsAssumption DEF CatalogInv, TypeOK
<1>2. versionSeq + 1 \in VersionIds
    BY <1>1, BoundsAssumption DEF CanCheckpoint, VersionIds
<1>3. memtable[f].data \in Seq(Nat)
    BY <1>1 DEF TypeOK, ActiveLayer
<1>4. \A k \in DOMAIN objects : k # ObjectKey(f, versionSeq + 1) => objects'[k] = objects[k]
    BY <1>1, <1>2, <1>3, PutObjectKeeps
<1>5. \A i \in DOMAIN layers :
          layers[i].key \in DOMAIN objects /\ layers[i].key # ObjectKey(f, versionSeq + 1)
    <2>1. \A i \in DOMAIN layers : layers[i].version \in Nat
        BY <1>1, LayerFields
    <2> QED BY <1>1, <2>1 DEF CatalogInv, ObjectKey
<1> QED BY <1>4, <1>5

LEMMA KeptStep == CatalogInv /\ [Next]_vars => Kept
<1> SUFFICES ASSUME CatalogInv, [Next]_vars PROVE Kept
    OBVIOUS
<1>1. layers \in Seq(Layer) /\ TypeOK
    BY DEF CatalogInv, TypeOK
<1>2. ASSUME UNCHANGED <<layers, objects>> PROVE Kept
    BY <1>1, <1>2 DEF Kept
<1>3. ASSUME NEW f \in Files, NEW tag \in Tags, CommitLayer(f, tag) PROVE Kept
    <2>1. \A i \in DOMAIN layers : objects'[layers[i].key] = objects[layers[i].key]
        BY <1>3, FreshKeyKeeps DEF CommitLayer
    <2>2. PICK new : layers' = Append(layers, new)
        BY <1>3 DEF CommitLayer
    <2>3. Len(layers') = Len(layers) + 1 /\ \A i \in DOMAIN layers : layers'[i] = layers[i]
        BY <1>1, <2>2
    <2> QED BY <1>1, <2>1, <2>3 DEF Kept
<1>4. ASSUME NEW f \in Files, NEW tag \in Tags, CheckpointFails(f, tag) PROVE Kept
    <2>1. UNCHANGED layers
        BY <1>4 DEF CheckpointFails
    <2>2. \A i \in DOMAIN layers : objects'[layers[i].key] = objects[layers[i].key]
        BY <1>4, FreshKeyKeeps DEF CheckpointFails
    <2> QED BY <1>1, <2>1, <2>2 DEF Kept
<1>5. CASE UNCHANGED vars
    BY <1>2, <1>5 DEF vars
<1>6. CASE Next
    BY <1>2, <1>3, <1>4, <1>6
       DEF Next, InsertFile, DeleteHead, WriteFile, Checkpoint, CheckpointUnacknowledged,
           SetHead, Restart
<1> QED BY <1>5, <1>6

\* No step changes or removes a committed layer or its object.
THEOREM LayersKeptCorrect == Spec => LayersKept
<1>1. CatalogInv /\ [Next]_vars => [Kept]_vars
    BY KeptStep
<1>2. Spec => [][Kept]_vars
    BY <1>1, CatalogCorrect, PTL DEF Spec
<1> QED BY <1>2 DEF LayersKept, Kept

----------------------------------------------------------------------------
(* Without gaps, layers are append-only logs                               *)

LEMMA EmptyLayerTiles == Tiles(EmptyLayer.chunks, EmptyLayer.data)
BY DEF Tiles, EmptyLayer

\* A chunk appended at the end of the data keeps the layer a log.
LEMMA TilesAppend ==
    ASSUME NEW chunks \in Seq(Chunk), NEW data \in Seq(Nat), Tiles(chunks, data),
           NEW bytes \in Seq(Nat), bytes # << >>, NEW chunk \in Chunk,
           chunk.layerRange = <<Len(data), Len(data) + Len(bytes)>>,
           chunk.fileRange[2] - chunk.fileRange[1] = Len(bytes)
    PROVE  Tiles(Append(chunks, chunk), data \o bytes)
<1> DEFINE longer == Append(chunks, chunk)
           n == Len(chunks)
<1>1. n \in Nat /\ Len(data) \in Nat /\ Len(bytes) \in Nat /\ Len(bytes) > 0
    OBVIOUS
<1>2. /\ longer # << >> /\ Len(longer) = n + 1
      /\ DOMAIN longer = 1..(n + 1) /\ DOMAIN chunks = 1..n
      /\ \A i \in 1..n : longer[i] = chunks[i]
      /\ longer[n + 1] = chunk
    <2>1. longer \in Seq(Chunk) /\ Len(longer) = n + 1 /\ longer[n + 1] = chunk
        OBVIOUS
    <2>2. DOMAIN longer = 1..(n + 1) /\ DOMAIN chunks = 1..n
        BY <1>1, <2>1
    <2>3. \A i \in 1..n : longer[i] = chunks[i]
        OBVIOUS
    <2>4. longer # << >>
        <3> HIDE DEF longer
        <3> QED BY <1>1, <2>1
    <2> QED BY <2>1, <2>2, <2>3, <2>4
<1>3. data \o bytes # << >> /\ Len(data \o bytes) = Len(data) + Len(bytes)
    OBVIOUS
<1>4. \A i \in 1..n : ChunkFollows(longer, i)
    <2> SUFFICES ASSUME NEW i \in 1..n PROVE ChunkFollows(longer, i)
        OBVIOUS
    <2>1. ChunkFollows(chunks, i)
        BY <1>2 DEF Tiles
    <2>2. longer[i] = chunks[i] /\ (i # 1 => longer[i - 1] = chunks[i - 1])
        BY <1>1, <1>2
    <2> HIDE DEF longer
    <2> QED BY <2>1, <2>2 DEF ChunkFollows
<1>5. ChunkFollows(longer, n + 1)
    <2>1. Len(data) = IF n + 1 = 1 THEN 0 ELSE chunks[n].layerRange[2]
        <3>1. CASE n = 0
            <4>1. chunks = << >>
                BY <3>1
            <4> QED BY <3>1, <4>1 DEF Tiles
        <3>2. CASE n # 0
            BY <1>1, <3>2 DEF Tiles
        <3> QED BY <3>1, <3>2
    <2>2. n + 1 # 1 => longer[n + 1 - 1] = chunks[n]
        <3> SUFFICES ASSUME n # 0 PROVE longer[n] = chunks[n]
            BY <1>1
        <3>1. n \in 1..n
            BY <1>1
        <3> HIDE DEF longer, n
        <3> QED BY <1>2, <3>1
    <2>3. longer[n + 1] = chunk
        BY <1>2
    <2>4. chunk.layerRange[1] = Len(data) /\ chunk.layerRange[2] = Len(data) + Len(bytes)
        OBVIOUS
    <2>5. PICK size \in Nat : size = Len(data)
        OBVIOUS
    <2>6. PICK length \in Nat : length = Len(bytes) /\ length > 0
        OBVIOUS
    <2>7. chunk.layerRange[1] < chunk.layerRange[2]
        BY <2>4, <2>5, <2>6
    <2>8. chunk.layerRange[2] - chunk.layerRange[1] = chunk.fileRange[2] - chunk.fileRange[1]
        BY <2>4, <2>5, <2>6
    <2> PICK last : last = n + 1
        OBVIOUS
    <2> PICK start : start = IF last = 1 THEN 0 ELSE longer[last - 1].layerRange[2]
        OBVIOUS
    <2> HIDE DEF longer, n
    <2>9. chunk.layerRange[1] = start
        <3>1. n \in Nat /\ last - 1 = n /\ n + 1 - 1 = n
            BY <1>1
        <3>2. CASE last = 1
            BY <2>1, <2>4, <3>2
        <3>3. CASE last # 1
            <4>1. longer[last - 1] = chunks[n]
                BY <2>2, <3>1, <3>3
            <4>2. Len(data) = chunks[n].layerRange[2]
                BY <2>1, <3>3
            <4> QED BY <2>4, <3>3, <4>1, <4>2
        <3> QED BY <3>2, <3>3
    <2>10. longer[last] = chunk
        BY <2>3, Zenon
    <2>11. longer[last].layerRange[1] = IF last = 1 THEN 0 ELSE longer[last - 1].layerRange[2]
        <3>1. longer[last].layerRange[1] = start
            BY <2>9, <2>10, Zenon
        <3> QED BY <3>1
    <2>12. longer[last].layerRange[1] < longer[last].layerRange[2]
        BY <2>7, <2>10, Zenon
    <2>13. longer[last].layerRange[2] - longer[last].layerRange[1] =
               longer[last].fileRange[2] - longer[last].fileRange[1]
        BY <2>8, <2>10, Zenon
    <2>14. ChunkFollows(longer, last)
        BY <2>11, <2>12, <2>13, Zenon DEF ChunkFollows
    <2> QED BY <2>14, Zenon
<1>6. longer[Len(longer)].layerRange[2] = Len(data \o bytes)
    BY <1>2, <1>3
<1> HIDE DEF longer
<1>7. \A i \in DOMAIN longer : ChunkFollows(longer, i)
    BY <1>1, <1>2, <1>4, <1>5
<1>8. Tiles(longer, data \o bytes)
    BY <1>2, <1>3, <1>6, <1>7 DEF Tiles
<1> QED BY <1>8 DEF longer

\* So does AppendChunk, told where the data ends.
LEMMA AppendChunkTiles ==
    ASSUME NEW layer \in ActiveLayer, Tiles(layer.chunks, layer.data),
           NEW layerStart, layerStart = Len(layer.data), NEW fileStart \in Nat,
           NEW bytes \in Seq(Nat), bytes # << >>, fileStart + Len(bytes) <= MaxFileSize
    PROVE  LET appended == AppendChunk(layer, layerStart, fileStart, bytes)
           IN  Tiles(appended.chunks, appended.data)
<1> DEFINE chunk == [layerRange |-> <<layerStart, layerStart + Len(bytes)>>,
                     fileRange |-> <<fileStart, fileStart + Len(bytes)>>]
<1>1. layer.chunks \in Seq(Chunk) /\ layer.data \in Seq(Nat)
    BY DEF ActiveLayer
<1>2. chunk \in Chunk
    BY <1>1, BoundsAssumption DEF Chunk
<1>3. chunk.fileRange[2] - chunk.fileRange[1] = Len(bytes)
    OBVIOUS
<1>4. chunk.layerRange = <<Len(layer.data), Len(layer.data) + Len(bytes)>>
    OBVIOUS
<1> HIDE DEF chunk
<1>5. Tiles(Append(layer.chunks, chunk), layer.data \o bytes)
    BY <1>1, <1>2, <1>3, <1>4, TilesAppend
<1>6. AppendChunk(layer, layerStart, fileStart, bytes) =
          [chunks |-> Append(layer.chunks, chunk), data |-> layer.data \o bytes]
    BY DEF AppendChunk, chunk
<1> QED BY <1>5, <1>6

LEMMA LastLayerEndOfTiles ==
    ASSUME NEW layer \in ActiveLayer, Tiles(layer.chunks, layer.data)
    PROVE  LastLayerEnd(layer) = Len(layer.data)
<1>1. layer.data \in Seq(Nat)
    BY DEF ActiveLayer
<1> QED BY <1>1 DEF LastLayerEnd, Tiles

\* A write that leaves no gap keeps the active layer a log: padding is needed
\* only for the first write to the layer, where the wrong end is the right one.
LEMMA WrittenTiles ==
    ASSUME NEW layer \in ActiveLayer, Tiles(layer.chunks, layer.data),
           NEW fileSize \in 0..MaxFileSize, NEW offset \in Offsets, NEW data \in Payloads[offset],
           layer.chunks = << >> \/ offset <= fileSize
    PROVE  LET written == Written(layer, fileSize, offset, data)
           IN  Tiles(written.chunks, written.data)
<1> DEFINE padded == Padded(layer, fileSize, offset)
<1>1. /\ offset \in Nat /\ fileSize \in Nat /\ data \in Seq(Nat) /\ data # << >>
      /\ offset + Len(data) <= MaxFileSize /\ offset <= MaxFileSize
    BY OffsetsAssumption, PayloadsAssumption, FileSizeAssumption, BoundsAssumption
<1>2. padded \in ActiveLayer
    BY <1>1, PaddedType
<1>3. Tiles(padded.chunks, padded.data)
    <2>1. CASE offset > fileSize
        <3>1. layer.chunks = << >> /\ layer.data = << >>
            BY <1>1, <2>1 DEF Tiles
        <3>2. LastFileEnd(layer) = Len(layer.data)
            BY <3>1 DEF LastFileEnd
        <3>3. /\ Zeroes(offset - fileSize) \in Seq(Nat)
              /\ Len(Zeroes(offset - fileSize)) = offset - fileSize
            <4>1. offset - fileSize \in Nat
                BY <1>1, <2>1
            <4> QED BY <4>1, ZeroesType
        <3>4. Zeroes(offset - fileSize) # << >>
            BY <1>1, <2>1, <3>3
        <3>5. fileSize + Len(Zeroes(offset - fileSize)) <= MaxFileSize
            BY <1>1, <3>3, BoundsAssumption
        <3> DEFINE appended == AppendChunk(layer, LastFileEnd(layer), fileSize,
                                           Zeroes(offset - fileSize))
        <3>6. Tiles(appended.chunks, appended.data)
            BY <1>1, <3>2, <3>3, <3>4, <3>5, AppendChunkTiles
        <3> QED BY <2>1, <3>6 DEF Padded
    <2>2. CASE ~(offset > fileSize)
        BY <2>2 DEF Padded
    <2> QED BY <2>1, <2>2
<1>4. LastLayerEnd(padded) = Len(padded.data)
    BY <1>2, <1>3, LastLayerEndOfTiles
<1> HIDE DEF padded
<1> DEFINE written == AppendChunk(padded, LastLayerEnd(padded), offset, data)
<1>5. Tiles(written.chunks, written.data)
    BY <1>1, <1>2, <1>3, <1>4, AppendChunkTiles
<1> QED BY <1>5 DEF Written, padded

LEMMA InitTiles == Init => ChunksTileData
BY EmptyLayerTiles DEF Init, ChunksTileData

LEMMA TilesStep ==
    ASSUME Dense
    PROVE  CatalogInv /\ ChunksTileData /\ [Next]_vars => ChunksTileData'
<1> SUFFICES ASSUME CatalogInv, ChunksTileData, [Next]_vars PROVE ChunksTileData'
    OBVIOUS
<1>1. /\ TypeOK /\ Kept /\ memtable \in [Files -> ActiveLayer]
      /\ layers \in Seq(Layer)
    BY KeptStep DEF CatalogInv, TypeOK
<1>2. ASSUME UNCHANGED layers,
             \A f \in Files : Tiles(memtable'[f].chunks, memtable'[f].data)
      PROVE  ChunksTileData'
    BY <1>1, <1>2 DEF ChunksTileData, Kept
<1>3. ASSUME NEW f \in Files, NEW offset \in Offsets, NEW data \in Payloads[offset],
             WriteFile(f, offset, data)
      PROVE  ChunksTileData'
    <2> DEFINE written == Written(memtable[f], SizeOf(f), offset, data)
    <2>1. memtable[f] \in ActiveLayer /\ Tiles(memtable[f].chunks, memtable[f].data)
        BY <1>1 DEF ChunksTileData
    <2>2. memtable[f].chunks = << >> \/ offset <= SizeOf(f)
        BY <1>3 DEF WriteFile, LeavesNoGap
    <2>3. Tiles(written.chunks, written.data)
        BY <1>1, <2>1, <2>2, SizeOfType, WrittenTiles
    <2>4. memtable' = [memtable EXCEPT ![f] = written] /\ UNCHANGED layers
        BY <1>3 DEF WriteFile
    <2> HIDE DEF written
    <2>5. \A g \in Files : Tiles(memtable'[g].chunks, memtable'[g].data)
        BY <1>1, <2>3, <2>4 DEF ChunksTileData
    <2> QED BY <1>2, <2>4, <2>5
<1>4. ASSUME NEW f \in Files, NEW tag \in Tags, CommitLayer(f, tag),
             \A g \in Files : memtable'[g] = memtable[g] \/ memtable'[g] = EmptyLayer
      PROVE  ChunksTileData'
    <2> DEFINE key == ObjectKey(f, versionSeq + 1)
    <2>1. \A g \in Files : Tiles(memtable'[g].chunks, memtable'[g].data)
        BY <1>4, EmptyLayerTiles DEF ChunksTileData
    <2>2. PICK new : /\ layers' = Append(layers, new)
                     /\ new.key = key /\ new.chunks = memtable[f].chunks
        BY <1>4 DEF CommitLayer
    <2>3. objects'[key] = memtable[f].data
        BY <1>4 DEF CommitLayer, PutObject
    <2>4. /\ DOMAIN layers' = 1..(Len(layers) + 1) /\ DOMAIN layers = 1..Len(layers)
          /\ layers'[Len(layers) + 1] = new
        BY <1>1, <2>2
    <2>5. \A i \in DOMAIN layers : Tiles(layers'[i].chunks, objects'[layers'[i].key])
        BY <1>1 DEF Kept, ChunksTileData
    <2>6. Tiles(new.chunks, objects'[new.key])
        BY <2>2, <2>3 DEF ChunksTileData
    <2>7. \A i \in DOMAIN layers' : i = Len(layers) + 1 \/ i \in DOMAIN layers
        BY <1>1, <2>4
    <2>8. \A i \in DOMAIN layers' : Tiles(layers'[i].chunks, objects'[layers'[i].key])
        BY <2>4, <2>5, <2>6, <2>7
    <2> QED BY <2>1, <2>8 DEF ChunksTileData
<1>5. ASSUME NEW f \in Files, NEW tag \in Tags, Checkpoint(f, tag)
      PROVE  ChunksTileData'
    BY <1>1, <1>4, <1>5 DEF Checkpoint
<1>6. ASSUME NEW f \in Files, NEW tag \in Tags, CheckpointUnacknowledged(f, tag)
      PROVE  ChunksTileData'
    BY <1>4, <1>6 DEF CheckpointUnacknowledged
<1>7. CASE Restart
    BY <1>2, <1>7, EmptyLayerTiles DEF Restart
<1>8. ASSUME UNCHANGED <<memtable, layers>> PROVE ChunksTileData'
    BY <1>2, <1>8 DEF ChunksTileData
<1>9. CASE UNCHANGED vars
    BY <1>8, <1>9 DEF vars
<1>10. CASE Next
    BY <1>3, <1>5, <1>6, <1>7, <1>8, <1>10
       DEF Next, InsertFile, DeleteHead, SetHead, CheckpointFails
<1> QED BY <1>9, <1>10

\* If no write leaves a gap, active and committed layers are append-only logs
\* (WriteFile, storage.go:87-127, and what Checkpoint uploads).
THEOREM DenseLayersTile ==
    ASSUME Dense
    PROVE  Spec => []ChunksTileData
<1>1. CatalogInv /\ ChunksTileData /\ [Next]_vars => ChunksTileData'
    BY TilesStep
<1> QED BY <1>1, InitTiles, CatalogCorrect, PTL DEF Spec

\* In a log, every chunk ends before any later one begins.
LEMMA TilesOrdered ==
    ASSUME NEW chunks \in Seq(Chunk), NEW data \in Seq(Nat), Tiles(chunks, data),
           NEW i \in DOMAIN chunks, NEW j \in DOMAIN chunks, i < j
    PROVE  chunks[i].layerRange[2] <= chunks[j].layerRange[1]
<1> DEFINE start(k) == chunks[k].layerRange[1]
           end(k) == chunks[k].layerRange[2]
           n == Len(chunks)
           late == {k \in (i + 1)..n : ~(end(i) <= start(k))}
<1>1. n \in Nat /\ DOMAIN chunks = 1..n /\ i \in 1..n /\ j \in (i + 1)..n
    OBVIOUS
<1>2. \A k \in 1..n : start(k) \in Nat /\ end(k) \in Nat
    <2>1. \A k \in 1..n : chunks[k] \in Chunk
        BY <1>1
    <2> QED BY <2>1 DEF Chunk
<1>3. \A k \in 1..n : ChunkFollows(chunks, k)
    BY <1>1 DEF Tiles
<1>4. \A k \in 1..n : start(k) < end(k) /\ (k # 1 => start(k) = end(k - 1))
    BY <1>3 DEF ChunkFollows
<1> HIDE DEF start, end, n
<1>5. late = {}
    <2> SUFFICES ASSUME late # {} PROVE FALSE
        OBVIOUS
    <2>1. late \subseteq Nat
        BY <1>1
    <2>2. PICK k \in late : \A m \in late : k <= m
        <3> HIDE DEF late
        <3> QED BY <2>1, NatHasMin
    <2>3. k \in (i + 1)..n /\ k \in 1..n /\ k - 1 \in 1..n /\ k # 1
        BY <1>1, <2>2
    <2>4. start(k) = end(k - 1) /\ start(k - 1) < end(k - 1)
        BY <1>4, <2>3
    <2>5. CASE k = i + 1
        <3>1. k - 1 = i
            BY <1>1, <2>5
        <3>2. start(k) = end(i)
            BY <2>4, <3>1
        <3> QED BY <1>1, <1>2, <2>2, <3>2
    <2>6. CASE k # i + 1
        <3>1. k - 1 \in (i + 1)..n
            BY <1>1, <2>3, <2>6
        <3>2. k - 1 \notin late
            BY <2>2, <2>3
        <3>3. end(i) <= start(k - 1)
            BY <3>1, <3>2
        <3>4. end(i) <= start(k)
            BY <1>1, <1>2, <2>3, <2>4, <3>3
        <3> QED BY <2>2, <3>4
    <2> QED BY <2>5, <2>6
<1>6. end(i) <= start(j)
    BY <1>1, <1>5
<1> QED BY <1>6 DEF start, end

\* If no write leaves a gap, the exclusion constraint of the table chunks never
\* refuses a layer, so that every checkpoint can succeed.
THEOREM DenseRangesDisjoint ==
    ASSUME Dense
    PROVE  Spec => []ActiveRangesDisjoint
<1>1. CatalogInv /\ ChunksTileData => ActiveRangesDisjoint
    <2> SUFFICES ASSUME CatalogInv, ChunksTileData, NEW f \in Files,
                        NEW i \in DOMAIN memtable[f].chunks,
                        NEW j \in DOMAIN memtable[f].chunks, i # j
                 PROVE  ~RangesOverlap(memtable[f].chunks[i].layerRange,
                                       memtable[f].chunks[j].layerRange)
        BY DEF ActiveRangesDisjoint, DisjointInLayer
    <2> DEFINE chunks == memtable[f].chunks
    <2>1. chunks \in Seq(Chunk) /\ memtable[f].data \in Seq(Nat)
        BY DEF CatalogInv, TypeOK, ActiveLayer
    <2>2. Tiles(chunks, memtable[f].data)
        BY DEF ChunksTileData
    <2>3. i \in Nat /\ j \in Nat /\ chunks[i] \in Chunk /\ chunks[j] \in Chunk
        BY <2>1
    <2>4. \/ chunks[i].layerRange[2] <= chunks[j].layerRange[1]
          \/ chunks[j].layerRange[2] <= chunks[i].layerRange[1]
        <3>1. CASE i < j
            BY <2>1, <2>2, <3>1, TilesOrdered
        <3>2. CASE j < i
            BY <2>1, <2>2, <3>2, TilesOrdered
        <3> QED BY <2>3, <3>1, <3>2
    <2> HIDE DEF chunks
    <2>5. ~RangesOverlap(chunks[i].layerRange, chunks[j].layerRange)
        BY <2>3, <2>4 DEF RangesOverlap, Chunk
    <2> QED BY <2>5 DEF chunks
<1> QED BY <1>1, CatalogCorrect, DenseLayersTile, PTL
============================================================================
