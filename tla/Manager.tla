------------------------------ MODULE Manager ------------------------------
(***************************************************************************)
(* The storage Manager (internal/storage/storage.go) with its callers: the *)
(* FUSE daemon's goroutines, which share its RWMutex and its memtable, and *)
(* the op command, another process that changes heads in the same database *)
(* and knows nothing of the mutex.  The statements of a call are steps of  *)
(* their own, so calls interleave wherever the locks let them, a statement *)
(* or an upload can fail, and the daemon can crash between any two.        *)
(*                                                                         *)
(* One file.  A write is its number, which is the order it was made in,    *)
(* and has the end of its range in the file, which may be anywhere; bytes, *)
(* paddings and chunks are the subject of LayerStore.                      *)
(***************************************************************************)
EXTENDS Naturals, Sequences, FiniteSets, FiniteSetsExt, Functions

CONSTANTS
    Workers,        \* goroutines serving FUSE requests
    Nobody,         \* not a goroutine
    MaxWrites,      \* bound: writes
    MaxEnd,         \* bound: where a write ends in the file
    MaxVersions,    \* bound: version ids handed out
    MaxCrashes      \* bound: crashes

ASSUME NobodyAssumption == Nobody \notin Workers
ASSUME LimitsAssumption ==
    MaxWrites \in Nat /\ MaxEnd \in Nat /\ MaxVersions \in Nat /\ MaxCrashes \in Nat

VARIABLES
    mu,         \* the RWMutex: the writer that has or awaits it, the readers that have it
    actives,    \* the active layers made since the daemon started: their writes, in order
    memtable,   \* the one that the map has, or NoLayer
    versionSeq, \* the last id of the table versions
    layers,     \* rows of snapshot_layers, in id order
    objects,    \* the object store, from versions to the writes in the object
    head,       \* the row of the table heads, or NoVersion
    pc,         \* the statement each goroutine has reached
    call,       \* what the calls keep in local variables
    ends,       \* history: the acknowledged writes, by their ends
    lost,       \* history: the acknowledged writes that went with a crash
    crashes,    \* history: the crashes so far
    sizes       \* history: the file's sizes since a call of SizeOf began

active == <<memtable, actives>>
stored == <<versionSeq, layers, objects>>
history == <<ends, lost, crashes>>
program == <<mu, active, stored, head, pc, call, history>>
vars == <<program, sizes>>

NoVersion == 0
NoLayer == 0
Writes == 1..MaxWrites
Ends == 1..MaxEnd
writes == Len(ends)

\* version: a checkpoint's new version or a read's pinned one; upTo: the position
\* of the pinned version's layer; layer: the active layer that a read or SizeOf
\* found in the map; rows, seen: the layers a read has yet to fetch, and the writes
\* it has; size: SizeOf's answer.  unpinned, spoiled: history, whether no head was
\* set at some moment of a write, and whether a data race or an error that is not
\* reported may have misled the call.
NoLocals == [version |-> NoVersion, upTo |-> NoLayer, layer |-> NoLayer,
             rows |-> {}, seen |-> {}, size |-> 0,
             unpinned |-> FALSE, spoiled |-> FALSE]

\* Where a call waits for the mutex: for other writers, for the readers that
\* came first, and for the writer; and the statements it runs under the mutex.
Waiting == {"write", "checkpoint", "read"}
Draining == {"write_drain", "checkpoint_drain"}
Exclusive == {"write_head", "write_active", "write_append", "head", "put", "commit", "delete"}
Shared == {"read_head", "read_layer", "read_active", "read_rows", "read_fetch"}
Sizing == {"size_memtable", "size_db", "size_again", "size_return"}
Unlocked == {"idle"} \cup Sizing
Writing == {"write", "write_drain", "write_head", "write_active", "write_append"}

\* The writes in an active layer, and in the one that the map has.
Chunks(layer) == IF layer = NoLayer THEN << >> ELSE actives[layer]
Active == Chunks(memtable)

\* The writes that the layers up to position i hold, and those that a crash did
\* not take.
Seen(i) == UNION {Range(layers[j].writes) : j \in {k \in DOMAIN layers : k <= i}}
Committed == Seen(Len(layers))
Surviving == (1..writes) \ lost

HighestEnd(S) == Max({ends[n] : n \in S} \cup {0})

\* What calcSizeOf answers if nothing else runs meanwhile.
SizeUnderLock == HighestEnd(IF Active # << >> THEN Range(Active) ELSE Committed)

----------------------------------------------------------------------------
(* The mutex                                                               *)

At(w, statement) == pc[w] = statement
Goto(w, statement) == pc' = [pc EXCEPT ![w] = statement]

\* Mutant of Announce: nothing keeps two writers apart.
AnnounceAnyway(w) == mu' = [mu EXCEPT !.writer = w]

\* A writer that finds no other writer: from now on no reader gets in.
Announce(w) ==
    /\ mu.writer = Nobody
    /\ mu' = [mu EXCEPT !.writer = w]

\* Mutant of ReadersGone: the writer does not wait for the readers.
ReadersIgnored == TRUE

\* The announced writer goes on when the readers that came first have gone.
ReadersGone == mu.readers = {}

\* Mutant of Admitted: an unlock leaves the waiting readers where they are.
NobodyAdmitted(w) == {}

\* The readers that the unlock of a writer lets in: all that wait.
Admitted(w) == IF mu.writer = w THEN {r \in Workers : At(r, "read")} ELSE {}

\* A return, with the deferred Unlock or RUnlock of what the call has locked.
Return(w) ==
    /\ mu' = [writer |-> IF mu.writer = w THEN Nobody ELSE mu.writer,
              readers |-> (mu.readers \ {w}) \cup Admitted(w)]
    /\ pc' = [other \in Workers |->
                 IF other = w THEN "idle"
                 ELSE IF other \in Admitted(w) THEN "read_head" ELSE pc[other]]
    /\ call' = [call EXCEPT ![w] = NoLocals]

----------------------------------------------------------------------------
(* WriteFile                                                               *)

\* The bound counts the writes under way, so that none of them stops at it.
CallWrite(w) ==
    /\ At(w, "idle") /\ writes + Cardinality({v \in Workers : pc[v] \in Writing}) < MaxWrites
    /\ Goto(w, "write")
    /\ call' = [call EXCEPT ![w].unpinned = (head = NoVersion)]
    /\ UNCHANGED <<mu, active, stored, head, history>>

AnnounceWrite(w) ==
    /\ At(w, "write")
    /\ Announce(w)
    /\ Goto(w, "write_drain")
    /\ UNCHANGED <<active, stored, head, call, history>>

LockToWrite(w) ==
    /\ At(w, "write_drain") /\ ReadersGone
    /\ Goto(w, "write_head")
    /\ UNCHANGED <<mu, active, stored, head, call, history>>

\* Mutant of CheckWritable: a head that was found does not refuse the write.
CheckNothing(w) ==
    /\ At(w, "write_head")
    /\ Goto(w, "write_active")
    /\ UNCHANGED <<mu, active, stored, head, call, history>>

\* The query says that there is no head.
CheckWritable(w) ==
    /\ At(w, "write_head") /\ head = NoVersion
    /\ Goto(w, "write_active")
    /\ UNCHANGED <<mu, active, stored, head, call, history>>

\* The query fails, and the write goes on as if there were no head.
HeadQueryFails(w) ==
    /\ At(w, "write_head")
    /\ call' = [call EXCEPT ![w].spoiled = TRUE]
    /\ Goto(w, "write_active")
    /\ UNCHANGED <<mu, active, stored, head, history>>

RefuseWrite(w) ==
    /\ At(w, "write_head") /\ head # NoVersion
    /\ Return(w)
    /\ UNCHANGED <<active, stored, head, history>>

\* The file's active layer; a new one is in the map before it has a chunk.
FindActive(w) ==
    /\ At(w, "write_active")
    /\ IF memtable = NoLayer
       THEN /\ actives' = Append(actives, << >>)
            /\ memtable' = Len(actives) + 1
       ELSE UNCHANGED active
    /\ Goto(w, "write_append")
    /\ UNCHANGED <<mu, stored, head, call, history>>

\* The size is taken, for the padding, and the chunk put on top of the layer.
AppendWrite(w) ==
    /\ At(w, "write_append") /\ writes < MaxWrites
    /\ \E end \in Ends : ends' = Append(ends, end)
    /\ actives' = [actives EXCEPT ![memtable] = Append(@, writes + 1)]
    /\ Return(w)
    /\ UNCHANGED <<memtable, stored, head, lost, crashes>>

\* The file id could not be fetched; or the size, which is asked of the database
\* if the layer has no chunk, and the layer stays, empty.
WriteFails(w) ==
    /\ At(w, "write_head") \/ (At(w, "write_append") /\ Active = << >>)
    /\ Return(w)
    /\ UNCHANGED <<active, stored, head, history>>

----------------------------------------------------------------------------
(* Checkpoint                                                              *)

CallCheckpoint(w) ==
    /\ At(w, "idle") /\ versionSeq < MaxVersions
    /\ Goto(w, "checkpoint")
    /\ UNCHANGED <<mu, active, stored, head, call, history>>

AnnounceCheckpoint(w) ==
    /\ At(w, "checkpoint")
    /\ Announce(w)
    /\ Goto(w, "checkpoint_drain")
    /\ UNCHANGED <<active, stored, head, call, history>>

LockToCheckpoint(w) ==
    /\ At(w, "checkpoint_drain") /\ ReadersGone
    /\ Goto(w, "head")
    /\ UNCHANGED <<mu, active, stored, head, call, history>>

\* A head is set, or there is nothing to save.
RefuseCheckpoint(w) ==
    /\ At(w, "head")
    /\ head # NoVersion \/ Active = << >>
    /\ Return(w)
    /\ UNCHANGED <<active, stored, head, history>>

InsertVersion(w) ==
    /\ At(w, "head") /\ head = NoVersion /\ Active # << >> /\ versionSeq < MaxVersions
    /\ versionSeq' = versionSeq + 1
    /\ call' = [call EXCEPT ![w].version = versionSeq + 1]
    /\ Goto(w, "put")
    /\ UNCHANGED <<mu, active, layers, objects, head, history>>

Stored(version) ==
    objects' = [v \in DOMAIN objects \cup {version} |->
                    IF v = version THEN Active ELSE objects[v]]

PutObject(w) ==
    /\ At(w, "put")
    /\ Stored(call[w].version)
    /\ Goto(w, "commit")
    /\ UNCHANGED <<mu, active, versionSeq, layers, head, call, history>>

\* An error of the upload, after which the store may have the object or not.
PutFails(w) ==
    /\ At(w, "put")
    /\ Stored(call[w].version) \/ UNCHANGED objects
    /\ Return(w)
    /\ UNCHANGED <<active, versionSeq, layers, head, history>>

\* The rows of the layer and of its chunks become visible.  acknowledged and
\* content are history: whether the answer arrived, and the writes that there
\* were to save.
CommittedLayer(w, acknowledged) ==
    layers' = Append(layers, [version |-> call[w].version, writes |-> Active,
                              acknowledged |-> acknowledged, content |-> Surviving])

Commit(w) ==
    /\ At(w, "commit")
    /\ CommittedLayer(w, TRUE)
    /\ Goto(w, "delete")
    /\ UNCHANGED <<mu, active, versionSeq, objects, head, call, history>>

CommitUnacknowledged(w) ==
    /\ At(w, "commit")
    /\ CommittedLayer(w, FALSE)
    /\ Return(w)
    /\ UNCHANGED <<active, versionSeq, objects, head, history>>

\* Mutant of RollBack: the error path drops the active layer.
RollBackMemtable(w) ==
    /\ pc[w] \in {"head", "commit"}
    /\ memtable' = NoLayer
    /\ Return(w)
    /\ UNCHANGED <<actives, stored, head, history>>

\* A statement or the commit failed, and nothing was committed.
RollBack(w) ==
    /\ pc[w] \in {"head", "commit"}
    /\ Return(w)
    /\ UNCHANGED <<active, stored, head, history>>

\* Mutant of DeleteActive: the active layer outlives its checkpoint.
KeepActive(w) ==
    /\ At(w, "delete")
    /\ Return(w)
    /\ UNCHANGED <<active, stored, head, history>>

DeleteActive(w) ==
    /\ At(w, "delete")
    /\ memtable' = NoLayer
    /\ Return(w)
    /\ UNCHANGED <<actives, stored, head, history>>

----------------------------------------------------------------------------
(* ReadFile                                                                *)

\* RLock gets the mutex unless a writer is announced, or waits for it.
CallRead(w) ==
    /\ At(w, "idle")
    /\ \/ /\ mu.writer = Nobody
          /\ mu' = [mu EXCEPT !.readers = @ \cup {w}]
          /\ Goto(w, "read_head")
       \/ /\ mu.writer # Nobody
          /\ Goto(w, "read")
          /\ UNCHANGED mu
    /\ UNCHANGED <<active, stored, head, call, history>>

\* The head query, with the lookup of the version's layer still to come.
ReadHead(w) ==
    /\ At(w, "read_head")
    /\ call' = [call EXCEPT ![w].version = head]
    /\ Goto(w, IF head = NoVersion THEN "read_active" ELSE "read_layer")
    /\ UNCHANGED <<mu, active, stored, head, history>>

ReadVersionedLayer(w) ==
    /\ At(w, "read_layer")
    /\ \E i \in DOMAIN layers :
          /\ layers[i].version = call[w].version
          /\ call' = [call EXCEPT ![w].upTo = i]
    /\ Goto(w, "read_active")
    /\ UNCHANGED <<mu, active, stored, head, history>>

ReadMemtable(w) ==
    /\ At(w, "read_active")
    /\ call' = [call EXCEPT ![w].layer = memtable]
    /\ Goto(w, "read_rows")
    /\ UNCHANGED <<mu, active, stored, head, history>>

\* The rows of the layers up to the version's, or of all of them, and then the
\* chunks of the active layer.
ReadRows(w) ==
    LET upTo == call[w].upTo
    IN  /\ At(w, "read_rows")
        /\ call' = [call EXCEPT
                       ![w].rows = {i \in DOMAIN layers : upTo # NoLayer => i <= upTo},
                       ![w].seen = IF upTo = NoLayer THEN Range(Chunks(call[w].layer)) ELSE {}]
        /\ Goto(w, "read_fetch")
        /\ UNCHANGED <<mu, active, stored, head, history>>

\* The bytes of the next layer's chunks are those in its object.
Fetch(w) ==
    LET next == Min(call[w].rows)
    IN  /\ At(w, "read_fetch") /\ call[w].rows # {}
        /\ call' = [call EXCEPT ![w].rows = @ \ {next},
                                ![w].seen = @ \cup Range(objects[layers[next].version])]
        /\ UNCHANGED <<mu, active, stored, head, pc, history>>

Assembled(w) == At(w, "read_fetch") /\ call[w].rows = {}

ReadReturns(w) ==
    /\ Assembled(w)
    /\ Return(w)
    /\ UNCHANGED <<active, stored, head, history>>

\* A query or a fetch failed.
ReadFails(w) ==
    /\ pc[w] \in Shared \ {"read_active"}
    /\ Return(w)
    /\ UNCHANGED <<active, stored, head, history>>

----------------------------------------------------------------------------
(* SizeOf, which takes no lock                                             *)

CallSizeOf(w) ==
    /\ At(w, "idle")
    /\ Goto(w, "size_memtable")
    /\ UNCHANGED <<mu, active, stored, head, call, history>>

\* Mutant of SizeFromMemtable: the answer of an active layer is not the answer.
SizeOfCommittedOnly(w) ==
    /\ At(w, "size_memtable")
    /\ Goto(w, "size_db")
    /\ UNCHANGED <<mu, active, stored, head, call, history>>

\* The highest end in the map's active layer, if that has chunks; otherwise the
\* database is asked next, and the layer, if there is one, is kept at hand.
SizeFromMemtable(w) ==
    /\ At(w, "size_memtable")
    /\ \/ /\ Active # << >>
          /\ call' = [call EXCEPT ![w].size = HighestEnd(Range(Active))]
          /\ Goto(w, "size_return")
       \/ /\ Active = << >>
          /\ call' = [call EXCEPT ![w].layer = memtable]
          /\ Goto(w, "size_db")
    /\ UNCHANGED <<mu, active, stored, head, history>>

SizeFromDatabase(w) ==
    /\ At(w, "size_db")
    /\ call' = [call EXCEPT ![w].size = HighestEnd(Committed)]
    /\ Goto(w, "size_again")
    /\ UNCHANGED <<mu, active, stored, head, history>>

\* The chunks of the layer at hand once more, which may have come since, and be
\* checkpointed by now.
SizeFromLayer(w) ==
    LET highest == HighestEnd(Range(Chunks(call[w].layer)))
    IN  /\ At(w, "size_again")
        /\ call' = [call EXCEPT ![w].size = Max({@, highest})]
        /\ Goto(w, "size_return")
        /\ UNCHANGED <<mu, active, stored, head, history>>

\* The first look reads the map and the layer's chunks, which the other may be
\* changing under the mutex; the second one the chunks of the layer at hand.
RacesWith(w, other) ==
    \/ /\ At(w, "size_memtable")
       /\ \/ pc[other] \in {"write_append", "delete"}
          \/ At(other, "write_active") /\ memtable = NoLayer
    \/ /\ At(w, "size_again") /\ At(other, "write_append")
       /\ call[w].layer = memtable

\* A data race: the answer can be anything, which the mark stands for (or a crash,
\* which is possible at every step).
SizeRaces(w) ==
    /\ \E other \in Workers : RacesWith(w, other)
    /\ call' = [call EXCEPT ![w].spoiled = TRUE]
    /\ Goto(w, "size_return")
    /\ UNCHANGED <<mu, active, stored, head, history>>

SizeReturns(w) ==
    /\ pc[w] \in {"size_db", "size_return"}
    /\ Return(w)
    /\ UNCHANGED <<active, stored, head, history>>

----------------------------------------------------------------------------
(* The other process, and crashes                                          *)

\* op head set: its transaction finds a layer of the version and commits.
SetHead ==
    /\ head' \in {layers[i].version : i \in DOMAIN layers} \ {head}
    /\ UNCHANGED <<mu, active, stored, pc, call, history>>

\* op head delete.
DeleteHead ==
    /\ head # NoVersion
    /\ head' = NoVersion
    /\ call' = [w \in Workers |-> [call[w] EXCEPT !.unpinned = @ \/ pc[w] \in Writing]]
    /\ UNCHANGED <<mu, active, stored, pc, history>>

\* The daemon dies: open transactions roll back, and NewManager starts over.
Crash ==
    /\ crashes < MaxCrashes
    /\ crashes' = crashes + 1
    /\ lost' = lost \cup (Range(Active) \ Committed)
    /\ memtable' = NoLayer
    /\ actives' = << >>
    /\ mu' = [writer |-> Nobody, readers |-> {}]
    /\ pc' = [w \in Workers |-> "idle"]
    /\ call' = [w \in Workers |-> NoLocals]
    /\ UNCHANGED <<stored, head, ends>>

Init ==
    /\ mu = [writer |-> Nobody, readers |-> {}]
    /\ memtable = NoLayer /\ actives = << >>
    /\ versionSeq = 0
    /\ layers = << >>
    /\ objects = << >>
    /\ head = NoVersion
    /\ pc = [w \in Workers |-> "idle"]
    /\ call = [w \in Workers |-> NoLocals]
    /\ ends = << >> /\ lost = {} /\ crashes = 0
    /\ sizes = [w \in Workers |-> {}]

Calls(w) == CallWrite(w) \/ CallCheckpoint(w) \/ CallRead(w) \/ CallSizeOf(w)

Announces(w) == AnnounceWrite(w) \/ AnnounceCheckpoint(w)

Statements(w) ==
    \/ LockToWrite(w) \/ LockToCheckpoint(w)
    \/ CheckWritable(w) \/ HeadQueryFails(w) \/ RefuseWrite(w)
    \/ FindActive(w) \/ AppendWrite(w) \/ WriteFails(w)
    \/ RefuseCheckpoint(w) \/ InsertVersion(w) \/ PutObject(w) \/ PutFails(w)
    \/ Commit(w) \/ CommitUnacknowledged(w) \/ RollBack(w) \/ DeleteActive(w)
    \/ ReadHead(w) \/ ReadVersionedLayer(w) \/ ReadMemtable(w) \/ ReadRows(w)
    \/ Fetch(w) \/ ReadReturns(w) \/ ReadFails(w)
    \/ SizeFromMemtable(w) \/ SizeFromDatabase(w) \/ SizeFromLayer(w)
    \/ SizeRaces(w) \/ SizeReturns(w)

Steps ==
    \/ \E w \in Workers : Calls(w) \/ Announces(w) \/ Statements(w)
    \/ SetHead \/ DeleteHead \/ Crash

\* Beside every step: the sizes that there have been since each call of SizeOf.
Observe ==
    sizes' = [w \in Workers |->
                 IF pc'[w] \in Sizing THEN sizes[w] \cup {SizeUnderLock'} ELSE {}]

Next == Steps /\ Observe

\* A goroutine that can go on does, and every statement ends, with an answer or
\* an error.  The writers queue for an ordinary Go mutex, which becomes first
\* come, first served when one has waited for a millisecond.
Fairness == \A w \in Workers : WF_program(Statements(w)) /\ SF_program(Announces(w))

Spec == Init /\ [][Next]_vars /\ Fairness

----------------------------------------------------------------------------
(* Properties                                                              *)

\* Every variable has its type, the goroutines at the statements under the mutex
\* are those that hold it (every path unlocks what it locked), and a writer is
\* alone there.
TypeOK ==
    /\ mu \in [writer : Workers \cup {Nobody}, readers : SUBSET Workers]
    /\ \A w \in Workers :
          /\ pc[w] \in Draining \cup Exclusive <=> mu.writer = w
          /\ pc[w] \in Exclusive => mu.readers = {}
          /\ pc[w] \in Shared <=> w \in mu.readers
          /\ pc[w] \in Waiting \cup Draining \cup Exclusive \cup Shared \cup Unlocked
    /\ memtable \in {NoLayer, Len(actives)}
    /\ \A layer \in DOMAIN actives : Range(actives[layer]) \subseteq 1..writes
    /\ versionSeq \in 0..MaxVersions
    /\ \A i \in DOMAIN layers : layers[i].version \in 1..versionSeq
    /\ DOMAIN objects \subseteq 1..versionSeq
    /\ head \in 0..MaxVersions
    /\ call \in [Workers -> [version : 0..MaxVersions, upTo : 0..Len(layers),
                             layer : 0..Len(actives), rows : SUBSET DOMAIN layers,
                             seen : SUBSET Writes, size : 0..MaxEnd,
                             unpinned : BOOLEAN, spoiled : BOOLEAN]]
    /\ writes \in 0..MaxWrites /\ Range(ends) \subseteq Ends
    /\ lost \subseteq 1..writes /\ crashes \in 0..MaxCrashes

\* An acknowledged write is in a committed layer or in the active one until a
\* crash takes it; a write that a crash took does not come back, although its
\* object may be in the store (Checkpoint's error paths, storage.go:411-441).
AckedWritesKept ==
    /\ Surviving \subseteq Committed \cup Range(Active)
    /\ lost \cap Committed = {}

\* A committed layer's object holds the very writes its chunk rows describe, and
\* a version holds all the writes made before its commit and no other, in an
\* order of replay that leaves the later write on top, failed and repeated
\* checkpoints or not (storage.go:419-441).
VersionHoldsItsWrites ==
    \A i \in DOMAIN layers :
        /\ layers[i].version \in DOMAIN objects
        /\ objects[layers[i].version] = layers[i].writes
        /\ Seen(i) = layers[i].content
        /\ \A j, k \in DOMAIN layers[i].writes :
              j < k => layers[i].writes[j] < layers[i].writes[k]
        /\ \A older \in 1..(i - 1), x \in Range(layers[i].writes) :
              \A y \in Range(layers[older].writes) :
                  y > x => y \in Range(layers[i].writes)

\* Concurrent checkpoints save a write once (TestConcurrentCheckpoint,
\* storage_test.go:878): it is in two layers only if the answer to the first
\* commit was lost and the checkpoint was tried again.
SavedOnce ==
    \A i, j \in DOMAIN layers :
        i < j /\ Range(layers[i].writes) \cap Range(layers[j].writes) # {} =>
            ~layers[i].acknowledged

\* A read that found no head returns every write acknowledged by then, one that
\* found a head returns what its version held when it was committed, although it
\* reads the head, the version's layer, the active layer, the rows and the objects
\* one after the other, and op changes the head in between (storage.go:166-302).
ReadsSnapshot ==
    \A w \in Workers : Assembled(w) =>
        IF call[w].version = NoVersion THEN call[w].seen = Surviving
        ELSE \E i \in DOMAIN layers :
                layers[i].version = call[w].version /\ call[w].seen = layers[i].content

\* SizeOf takes no lock, looks at the active layer, at the database and at that
\* layer again, and still an answer that no data race spoiled is the size the
\* file had, by calcSizeOf's own rule, at some moment of the call, although
\* between the looks a rewrite can shrink the size, and a checkpoint, whose rows
\* are there before the layer has gone, can raise it (storage.go:155, 330-357).
SizeOfSomeMoment ==
    \A w \in Workers : At(w, "size_return") /\ ~call[w].spoiled =>
        call[w].size \in sizes[w]

\* A write goes through only if the file had no head at some moment of the call,
\* although op sets and deletes heads without the mutex, before the query, after
\* it and while the write waits; what gets past a head is a query that failed
\* (WriteFile's test is err == nil, storage.go:61-66).
PinnedRefusesWrites ==
    \A w \in Workers : At(w, "write_append") /\ ~call[w].spoiled => call[w].unpinned

\* Every call returns, for no goroutine stays in one: nobody waits for the mutex
\* forever, and no error path keeps it (or the daemon crashes).
CallsReturn == \A w \in Workers : []<>At(w, "idle")

----------------------------------------------------------------------------
(* What the README and the comments say, and the code does not do          *)

\* "you won't be able to checkpoint new writes to the database while time
\* traveling" (README.md:76): no version appears while a head is set.
NoCheckpointUnderHead == [][layers' # layers => head = NoVersion]_vars
============================================================================
