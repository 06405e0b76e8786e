# QuackFS: models, checks and proofs

QuackFS is a FUSE file system under DuckDB. Writes to a database file collect in
an in-memory *active layer*. A DuckDB `CHECKPOINT` removes the WAL file, and
removing it makes QuackFS store that layer as one object, with rows for a new
version, a layer and its chunks in PostgreSQL. A file can be pinned to an older
version (*time travel*) by a row in the table `heads`.

## Inventory

| Part | Source | State | Operations |
|---|---|---|---|
| `storage.Manager` | `internal/storage/storage.go` | `memtable` (file id -> active layer), `mu` (RWMutex) | WriteFile, ReadFile, SizeOf, Checkpoint, InsertFile, SetHead, GetHead, DeleteHead, GetAllHeads, GetFileVersions |
| `metadata.MetadataStore`, `db/sqlc`, `db/schema.sql`, `db/queries` | | tables `files`, `versions`, `snapshot_layers`, `chunks`, `heads` | one query each, in a transaction or not |
| `S3Store` | `internal/storage/object` | objects | PutObject, GetObject (a range) |
| `WALManager` | `internal/storage/wal` | one WAL file per database on the host, an RWMutex | Create, Read, Write, Sync, Exists, Remove (Checkpoint, then remove the file) |
| `FS`, `Dir`, `File` | `internal/fsx` | nothing that lasts: a node keeps its name, a size and times | FUSE requests (Lookup, ReadDirAll, Create, Remove, Read, Write, Fsync, Attr), routed by the form of the file name to the Manager or the WALManager |
| `op` | `cmd/op` | version list, head and cursor on the screen | `op log`: list versions, set and delete a head |
| `quackfs` | `cmd/quackfs` | | wiring |
| `db/types`, `pkg/logger`, `internal/quackfstest` | | | text form of ranges, logging, test containers |

How they interact. DuckDB's system calls become FUSE requests; each is served by
a goroutine of its own. Goroutines share the Manager and the WALManager and are
ordered only by their two mutexes. `WALManager.Remove` holds its mutex around
`Manager.Checkpoint`. `op` is another process with a Manager of its own: it
shares the database with the daemon, and no mutex. The database runs at READ
COMMITTED. The object store is outside every transaction.

What is hard: bytes overlaid by many writes in many layers, cut at a version;
reads that cross from the active layer to the database to the object store; a
checkpoint with an upload in the middle of a transaction, any part of which can
fail, be repeated, or take place unacknowledged; a second process; a memtable
that a crash takes. What each part must guarantee:

* **Manager, data**: a read returns the bytes written, the later over the
  earlier; a version reads for ever as the file did at its checkpoint; a pinned
  file shows that version and refuses writes; sizes agree with the bytes.
* **Manager, concurrency**: no acknowledged write is lost before a crash, none is
  saved in part or (unless a commit's answer was lost) twice, reads are snapshots
  under a changing head, a size is one the file had during the call, every call returns.
* **Metadata and objects**: ids are never reused, every layer has an object of its
  own, a head leads to a layer of its own file.
* **WAL, FUSE**: what a crash takes from the memtable is still in the WAL; a WAL file
  is removed only after what it covers is committed.
* **FUSE directory**: the table of files and the WAL directory look like one
  directory; each name is kept where its form says; a WAL's removal saves its own
  database first.
* **op**: the head on the screen is the one in the database unless somebody else moved
  it, whatever fails.

`PROJECT.json` lists the hazards, each at its line, with the properties that
cover it or the reason why none does.

## Modules

**`VersionedFile`** is the abstract specification: per file an array of bytes and the
tag it is pinned to, and one list of the versions of all files, in the order they
were saved. No layers, chunks, rows or objects. (One list, and not one per file:
`LayerStore` maps its rows onto it entry by entry, where a list per file would need
`SelectSeq`, whose recursive definition the provers cannot unfold.)

**`LayerStore`** is the data path, over any number of files. `memtable[f]` is the
active layer (chunks and data), `layers` the rows of `snapshot_layers` joined
with their version and chunks, `heads` the head rows, `objects` the object store,
`versionSeq` the sequence behind `versions.id` (a rollback does not return an
id). One action per operation:

| Action | Code |
|---|---|
| `WriteFile` | `WriteFile`: refusal under a head, size, padding chunk, data chunk |
| `Checkpoint`, `CheckpointUnacknowledged`, `CheckpointFails` | `Checkpoint`: success; committed with the answer lost; rolled back at any statement after `InsertVersion`, with the object stored or not |
| `InsertFile`, `SetHead`, `DeleteHead` | the methods of these names |
| `Restart` | the end of the process and `NewManager` |

Calls that return an error and change nothing are the cases where no action is
enabled. `SizeOf` and `ReadFile` are state functions. A read is the chunk query
(`OverlappingChunks`), the check that each chunk can be fetched
(`ChunkReadable`), and the copy loop: `ByteAt` picks, for each position, the last
chunk copied over it. The buffer's length wraps around in the code when no chunk
overlaps the window; the model says `"panic"`. Actions are atomic because the
mutex is held over the whole of each method; what that leaves open is the next
module's subject.

**`Manager`** is the concurrency of one file. Goroutines go statement by statement
through WriteFile, Checkpoint, ReadFile and SizeOf (`pc`, `call`), under Go's
RWMutex (`mu`): a writer announces itself, from then on no reader gets in, it
waits for the readers that were there, and its Unlock lets the waiting readers in
before the next writer. Every database statement and every upload may fail. `op`'s
`SetHead` and `DeleteHead` are steps of another process. `Crash` empties the
memtable and ends every call. A write is its number, which is the order, and the
end of its range in the file, which may be anywhere, so that a write can extend the
file or rewrite its beginning; bytes are left to `LayerStore`.

A read is a step for the head query, one for the layer of the version it found, one
for the look at the memtable, one for the chunk rows and one for each layer whose
chunks it fetches (the chunks of one layer come from one object, and nobody ever
changes an object). `actives` are the layer objects made since the daemon started and
`memtable` says which of them the map has: a call that has found one keeps it when a
checkpoint has taken it off the map. `SizeOf` takes no lock and makes its three looks
as in the code: the active layer in the map, the database if that layer has no chunk,
and the same layer's chunks again. A look at what a goroutine under the mutex may be
changing is a data race (`RacesWith`) and gives any answer (`SizeRaces`). An error of
WriteFile's head query counts as no head in the code (`HeadQueryFails`).

`lost`, `crashes`, `sizes` and the fields `acknowledged`, `content`, `unpinned` and
`spoiled` are history: no step of the program reads them. (`ends` has the end of every
acknowledged write; the program keeps these ends in the chunks.) `sizes` are the sizes
that calcSizeOf would have given under the mutex since a call of SizeOf began
(`Observe`, beside every step), `unpinned` says that a write met the file without a head
at some moment of its call, `spoiled` that a data race or an unreported error may have
misled a call.

**`WalCheckpoint`** is the way a DuckDB checkpoint takes through the FUSE handlers and
the WAL manager, for one database. `hasWal` and `wal` are the WAL file on the host (`synced` of its
records are on the host's disk), `active` and `versions` the Manager's state,
reduced to database states, `remove` where `WALManager.Remove` is with its mutex
held. DuckDB is external: one client opens the database (the file first, the WAL
later), commits by appending to the WAL and syncing it, writes its state into the
database file, and asks for the removal of the WAL, or asks at once if the
database already holds what the WAL has. It may die at any point while its removal
goes on in the daemon; the daemon may die, alone or with its host. Fsync of the
database file does nothing in the code, and so has no action of its own. `op` moves
the head only while no client has the database open: the WAL manager never looks
at heads, and what DuckDB makes of a WAL over another base is not in this code.

**`Directory`** is the abstract specification of the root directory: one set of names;
a creation or a removal takes effect at one moment of its call, a listing sees
each name as it is at some moment of the call, a file in `Permanent` is created
once and stays. Any files that are not permanent may be there from the start, and those
in `Unserved` show in a listing but to no request about one name.

**`Fsx`** is the handlers of the root directory over the table `files` (`files`), the
host's WAL directory (`walDir`, with the number of records each file has taken) and
the WAL manager's mutex (`wmMu`). The directory, by default the user's home, starts
with `HostFiles`, of any names: those with a WAL file's form are listed, looked up,
written and removed like WALs of the daemon (`wal.go:146`), the others never show, and
`.duckdb.wal`, which has that form and no valid extension, is listed and refused by
every other request. That the host adds or removes files later is not modelled. A name
is the sequence of its parts between dots, so that `IsWALFile`, `GetDBFilename` and
`checkValidExtension` are computed as in the code. Each goroutine has the statement
its request has reached (`pc`), and the name and what it has found (`call`);
ReadDirAll is two steps, a removal is its checkpoint and its unlinking with the
mutex held in between. `nodes` are the names the kernel can still send writes to;
a write to a WAL that has gone creates it anew. `due` and `logged` are history.
`Root` maps the table and the WAL-named files of the directory onto one `Directory`.

**`OpLog`** is several users of `op log` on one file: the two queries of the start (the
versions, then the head), the keys Enter and d, their transactions, their answers
and errors. `screen[u]` is what user u sees and does, `head` the row all share,
`versions` grows as the daemon saves. `overtaken` is history: who cannot know the
head, because another moved it or an answer was lost. The table widget is
external: a key that the code passes on moves its cursor.

`MCLayerStore`, `MCManager`, `MCWalCheckpoint`, `MCFsx` and `MCOpLog` give TLC the
constants. The theorems are in `LayerStoreProofs` (the catalogue), `LayerStoreReadProofs`
(what reads return), `LayerStoreRefinement` (that it implements `VersionedFile`),
`ManagerProofs`, `WalCheckpointProofs`, `FsxProofs` (with the refinement of
`Directory`) and `OpLogProofs`; `NumberLemmas` has the facts about numbers that
several of them share. Operators marked "Mutant of" are what a plausible bug would
make of the definition that follows them; no specification uses them.

## Runs

| Run | Config | Shows |
|---|---|---|
| `dense` | `MCLayerStoreDense.cfg` | `ChunksTileData`, `WindowReads`, and that LayerStore implements `VersionedFile` |
| `sparse` | `MCLayerStoreSparse.cfg` | the catalogue (`CatalogInv`, `LayerObjects`, `HeadNamesOwnLayer`, `LayersKept`) and `VersionReadsStable` |
| `concurrent` | `MCManager.cfg` | `AckedWritesKept`, `VersionHoldsItsWrites`, `SavedOnce`, `ReadsSnapshot`, `SizeOfSomeMoment`, `PinnedRefusesWrites`: no write is lost, split or doubled, reads and sizes are of one moment although checkpoints, rewrites and heads come between their steps |
| `progress` | `ManagerLiveness.cfg` | `CallsReturn`: nobody waits for the mutex for ever |
| `wal` | `MCWalCheckpoint.cfg` | `Recoverable`, `OpenSeesCommitted`: a crash at any point leaves every acknowledged transaction in the versions and the WAL |
| `names` | `MCFsx.cfg` | `RemovalSavesItsDatabase`, `RemovesOnlyCheckpointed`, and that Fsx implements `Directory` |
| `screens` | `MCOpLog.cfg` | `ScreensTruthful` |
| `size_after_rewrite`, `gap_in_layer`, `one_byte_chunk`, `read_past_pinned`, `checkpoint_under_head` | the configs of those names | one disagreement each, below |

Bounds. `dense`: one file, two tags, writes of four bytes at offsets 0, 2 and 4, so
that writes overlap on either side, cover one another exactly and extend the
file, and a first write can leave a gap; a layer takes two chunks (two writes, or a
padding and a write) and the file two versions, enough for a chunk of each of two
committed layers and two active ones to lie over one another. `sparse`: two files, a
byte written at offset 0 and two bytes at offset 2, and up to three chunks and a last
write's padding in a layer: a one-byte chunk is committed and can then not be read; a
third write after two that overlap is padded at the wrong place, and its checkpoint is
refused by the exclusion constraint; and a version reads as bytes or as an error, which
is what must not change. The version sequence ends at 2, which two files, a failed and a
repeated attempt share. `MaxChunks` bounds the chunks a write finds, `MaxVersions` the
ids, `MaxFileSize` the ends of writes.

`concurrent`: two goroutines (a third adds no new pair of racing calls, and the
other process is there besides), two writes, each with its end at 1 or 2, two
version ids and one crash: enough for a write and its rewrite to a smaller or a greater
size on either side of a checkpoint or within one layer, for a commit whose answer is
lost, a write, and a repeated commit, and for a failed attempt, a crash, and a version
after them. Goroutines are symmetric, and the run has no liveness property. `progress`:
three goroutines, so that two readers can take turns in front of a writer; one write, one
version, no crash (a crash ends every call at once); no symmetry.

`wal`: four transactions, four versions and three crashes: a crash in a commit, in
a checkpoint and in the recovery from either. A host that goes down keeps the
synced records and maybe more; an unlink is taken to last.

`names`: `db.duckdb` and `e.duckdb` with their WALs, so that a removal meets writes to
either database and the removal of the other WAL, and `.duckdb.wal`, which is refused. The
host had `notes.txt`, `.duckdb.wal` and `e.duckdb.wal` before: a WAL can be there before
its database, and be removed although the daemon did not make it. Two goroutines, so that
each request meets each other one at every step, and symmetric. `MaxRecords` is 1: all
that the properties ask of a count is whether a record came later.

`screens`: three users, so that two can change the head behind a third, and three
versions, so that a list can be older than the head; symmetric.

`Dense` is an assumption about the client: once a file has an active layer, no
write starts beyond the size reported (DuckDB grows its file block by block).
Without it `gap_in_layer` and `size_after_rewrite` show what happens. With it, a
first write to a layer may still leave a gap. The payload of `dense` has four
bytes because one-byte chunks cannot be read back (`one_byte_chunk`), and its
offsets and size keep a later write of a layer from measuring a gap from a
shrunken size.

Fairness. `progress` assumes weak fairness of each goroutine's statements: a
goroutine that can run does, and a query or an upload ends, with an answer or an
error. It assumes strong fairness only of a writer's wait for other writers, which
is a Go `sync.Mutex` inside the RWMutex and becomes first come, first served after
a millisecond. Nothing is assumed of calls, heads or crashes. Readers need no
assumption of their own: with a naive read-write lock two readers that take turns
starve a writer, and the property fails.

## Disagreements with the documentation

* `SizeIsHighestEnd` (`storage.go:329`): the size ignores the committed layers as
  soon as a layer is active. After a checkpoint of a long file, a write near its
  start makes the file look short, and a write past that size then zero-fills
  committed bytes.
* `ActiveRangesDisjoint` (`schema.sql:35`): padding is placed in the layer at a file
  offset. After writes that overlap, which have more bytes in the layer than in the
  file, the padding of a gap, be it the first, overlaps their chunks in the layer, and
  every later checkpoint of it is refused.
* `CommittedChunksReadable` (`storage.go:20`): a one-byte chunk's range has equal
  inclusive ends, and `GetObject` refuses it.
* `ReadsInsideSizeReturn` (`storage.go:164`): the size ignores the head, so a pinned
  file can report more bytes than its version has; a read there panics.
* `NoCheckpointUnderHead` (`README.md:76`): `op` can set the head after Checkpoint
  looked at it.

Met on the way, and not stated by any document as a promise that a run could
refute: the WAL of a pinned database takes records (`wal.go:200`; only `WriteFile`
looks at the head, `storage.go:61`); SizeOf reads the memtable without the mutex
(`storage.go:155`), a data race that `SizeRaces` models; a failed head query lets a
write past a head (`storage.go:63`), which `PinnedRefusesWrites` excepts by name;
`duckdb.wal` is kept as a database (`fsx.go:256`).

## Proofs

`LayerStoreProofs`, for every set of files, tags, payloads and offsets and every
bound that satisfies the ASSUMEs of `LayerStore`:

* `CatalogCorrect`: `Spec => []CatalogInv`. `TypeOK`, `LayerObjects` and
  `HeadNamesOwnLayer` do not maintain themselves: that two layers do not share an
  object needs that keys are made of version ids, that ids grow with the layers
  and stay below the sequence; that a head leads back to its own layer through the
  tag needs that a tag names one layer of a file. `CatalogInv` is these facts
  together, and TLC checks it in `sparse`.
* `LayerObjectsCorrect`, `HeadsCorrect`: its consequences (and `TypeOK`, its first part).
* `LayersKeptCorrect`: the action property, from the same invariant: a new object's
  key has an id above every committed one.
* `DenseLayersTile`, `DenseRangesDisjoint`: under `Dense`, chunks tile the data of
  every layer, so that the exclusion constraint refuses nothing. The second, whose
  formula fails without `Dense`, marks what the padding defect needs.

The lemmas below them give the types of `ChunkAt`, `HighestEnd` and `SizeOf` (the
CHOOSE of a highest end exists because a set of naturals with a bound has a
greatest element, by the library's least-element theorem), and what appending a
chunk does to a tiled layer.

`LayerStoreReadProofs`, about the bytes. With no assumption on the client:

* `VersionsReadStable`: `Spec => VersionReadsStable`. The layers up to a committed one,
  their chunks and their objects are kept by every step, so each of the choices that
  assemble a read (the highest end, the newest covering chunk) is made among the same
  things before and after.

For clients that leave no gap inside a layer (`Dense`) and write no chunk of one byte
(`MarksApart`: offsets and ends of writes are never one apart; DuckDB writes blocks at
multiples of their size, and the store refuses to return a chunk of one byte, see
`CommittedChunksReadable`):

* `ReadInvCorrect`: the invariant `ReadInv`. A *picture* is a function from the offsets
  that a layer's chunks cover to the bytes they place there, the last chunk's on top;
  the pictures of several layers are laid over each other in the order of their ids.
  `ReadInv` is `CatalogInv`, `ChunksTileData`, that every chunk begins and ends at an
  offset or at the end of a write, and that no picture of a file, up to any layer or with
  the active one, has a hole (`HolesInv`). The last part needs the size that `WriteFile`
  pads from to be the end of the file whenever it pads; `SizeOf` ignores the committed
  layers as soon as one is active, and only `Dense` makes the two agree then. `ReadIs`
  links it to the code's reads: on a picture without holes, the overlapping chunks, the
  check of each and the copy loop return the window of the picture.
* `WindowsCorrect`: `Spec => []WindowReads`.

`LayerStoreRefinement`: `VersionedFileImplemented`, under the same two conditions. The
content of a file is its picture as a sequence. One lemma per action: a write's picture is
the data over the padding over the picture, which is the abstract `Overlay`
(`WriteIsOverlay`, cell by cell); a commit makes a layer up to which the picture is what
the file shows, and leaves what it shows, whether or not the active layer is dropped,
because a picture laid over itself is itself; a restart takes a file back to the picture of
its committed layers, which is what its newest version reads as; a failed checkpoint and
a new file change nothing that can be read.

`ManagerProofs`, for any number of goroutines, writes, versions and crashes. The
invariant `IInv` has eight parts, each kept by every step given the ones before it:

* `LockInv`: a goroutine is at a statement under the mutex exactly if it has the
  mutex, and a writer there is alone. Everything else rests on it (`OneWriter`).
* `HeapInv`: the active layers the calls have at hand exist, the map has the newest or
  none, and a write that appends has found one there.
* `DataInv`: types, and that a layer's object is stored before the layer's row is.
* `AckInv`: `AckedWritesKept`, with what makes it last: the active layer is dropped
  only when all of it is committed.
* `PinInv`: a write under way while no head is set has met no head.
* `SizeInv`: the file has had, during a call of SizeOf, the size it has now; before the
  database is asked, that of the committed layers; and, once the layer at hand has
  chunks, that of this layer, which nobody changes after its checkpoint.
* `SaveInv`: version ids grow with the layers; a checkpoint holds the highest id, no
  layer has it, and at the commit its object is the active layer; the active layer
  is in order and on top of what is committed; it shares writes with a layer only
  if that layer's answer was lost, or its checkpoint is about to drop it.
* `ReadInv`: the head, and the head a read found, lead to a layer; the active layer that
  a read found is still the file's when it takes the rows; and what a read has, with the
  objects of the rows it has yet to fetch, is the version's content or, without a head,
  every acknowledged write (`ReadOf`).

From them: `TypeCorrect`, `AckedWritesKeptCorrect`, `VersionHoldsItsWritesCorrect`,
`SavedOnceCorrect`, `ReadsSnapshotCorrect`, `SizeOfSomeMomentCorrect` and
`PinnedRefusesWritesCorrect`, all the safety properties of `concurrent`. The
assumptions are that `Nobody` is not a goroutine and that the bounds are natural.

`OpLogProofs`, for any number of users and versions: `TypeCorrect` (a cursor is on a
row) and `ScreensCorrect` (`ScreensTruthful`). The invariant adds to the two that
what a screen shows and selects are versions that exist, so that a commit sets the
head to one, and that the overtaken are among the informed.

`WalCheckpointProofs`, for any number of transactions, versions and crashes:
`AcknowledgedRecoverable` (`Recoverable`), `ClientsSeeAcknowledged` (`OpenSeesCommitted`)
and `TypeCorrect`. Neither property is inductive: both are about what replaying a log
over a database state gives, and a log in which a record is missing can give the right
state by accident. `IInv` therefore speaks of the records: the WAL has every transaction
between the last saved state and the active layer's, and its synced part every one up to
the last acknowledged (`WalBridges`); a client that has opened the database is ahead of it
by records that the WAL has (`ClientAhead`); a removal goes on only while the database has
all that was acknowledged, and unlinks when the versions have it (`RemovalCovered`); and
nobody commits during a removal or under a head (`Phases`), which is what keeps the last
two true. `Shapes` is the types.

`FsxProofs`, for any number of requests, every set of names and every set of files that the
host had before (nonempty sequences of parts is all that is assumed of either): `TypeCorrect`, `RemovalsSaveTheirDatabase`, `RemovalsLoseNoRecord`, and
`DirectoryImplemented`. The invariant adds to `TypeOK`, which has the mutex, that the
database a removal still has to save is the one its WAL's name leads back to, and that a
WAL about to be unlinked has the records it had at its checkpoint. For the refinement,
`AsDirectoryCall` gives what each statement is to a client of one directory, and there
is one lemma per statement: a request that reads the table and then the WAL directory
looks at some names first and at the rest last, a removal takes effect at its unlinking
and its checkpoint does not show.

Model-checked only: liveness (`CallsReturn`), which TLAPS does not do. Every safety
property that a passing run checks is a theorem. What differs is the reach: `WindowReads`
and the refinement of `VersionedFile` are proved under `Dense` and `MarksApart`, which the
run `dense` satisfies; without them the runs that expect a violation show what fails.

## Not modelled, and the plan

Done, in this order: `VersionedFile`, `LayerStore` and the proofs of its catalogue,
`Manager`, `WalCheckpoint`, `Directory` and `Fsx`, `OpLog`, the proofs of `OpLog`,
`Manager`, `WalCheckpoint` and `Fsx`, and those of `LayerStore`'s reads and refinement.

1. Proofs: that two reads side by side return what one over both would; what `Manager`'s
   steps leave of `LayerStore`'s atomic ones.
2. Attributes: Attr answers with `SizeOf` or the WAL file's size, and nodes keep a size
   of their own that no handler reads; a promise about them is yet to be found.
3. Text form of ranges (`db/types`, `ParseRange`), against numbers.

Left out for good: wiring, logging, prepared statements, rendering, modification
times (no property is about them); the connection pool (the code sets no limit,
so nothing waits for it); the tests and their containers.
