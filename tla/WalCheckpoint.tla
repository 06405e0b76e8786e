--------------------------- MODULE WalCheckpoint ---------------------------
(***************************************************************************)
(* How a DuckDB checkpoint goes through the FUSE handlers (internal/fsx)   *)
(* and the WAL manager (internal/storage/wal): the WAL is a file of the    *)
(* host, the database file is layers and a memtable, and removing the      *)
(* first is what saves the second.  The daemon, the host and the client    *)
(* can crash between any two steps.                                        *)
(*                                                                         *)
(* One database and one client at a time: DuckDB locks its file, and op    *)
(* moves its head while it is closed and puts it back before it is opened  *)
(* to work on (the WAL manager would take records for a pinned file).  A   *)
(* transaction is a number, the one after the state it was made on; a      *)
(* state is the number of its last transaction.  A DuckDB checkpoint       *)
(* writes its state into the database file at one stroke (the header goes  *)
(* last).  The Manager's methods are one step each.                        *)
(***************************************************************************)
EXTENDS Integers, SequencesExt, FiniteSetsExt, Functions

CONSTANTS
    MaxTxs,         \* bound: transactions
    MaxVersions,    \* bound: versions
    MaxCrashes      \* bound: crashes of the daemon, the host or the client

ASSUME CapsAssumption == MaxTxs \in Nat /\ MaxVersions \in Nat /\ MaxCrashes \in Nat

VARIABLES
    hasWal,     \* whether the WAL file is there
    wal,        \* its transactions
    synced,     \* how many of them are on the disk of the host
    active,     \* the database state in the active layer, or 0
    versions,   \* the database states of the saved versions
    head,       \* the position of the pinned version, or 0
    remove,     \* the statement a removal of the WAL has reached
    client,     \* what DuckDB does
    state,      \* the state of the open database
    committed,  \* history: the last transaction acknowledged to a user
    crashes     \* history: the crashes so far

server == <<hasWal, wal, synced, active, versions, remove>>
vars == <<hasWal, wal, synced, active, versions, head, remove, client, state, committed, crashes>>

\* The last state that a database and a log hold together.
Replayed(database, log) ==
    Max({n \in database..(database + MaxTxs) :
            (database + 1)..n \subseteq Range(log)})

LastSaved == IF versions = << >> THEN 0 ELSE Last(versions)

\* What a read of the database file shows.
DatabaseState ==
    IF head # 0 THEN versions[head]
    ELSE IF active # 0 THEN active ELSE LastSaved

\* No other request gets the WAL manager's mutex while a removal has it.
WalFree == remove = "none"

----------------------------------------------------------------------------
(* The client opens the database, and commits transactions                 *)

OpenDatabase ==
    /\ client = "closed" /\ head = 0
    /\ state' = DatabaseState
    /\ client' = "opening"
    /\ UNCHANGED <<server, head, committed, crashes>>

\* Lookup, Attr and Read of the WAL file, which is replayed if it is there.
ReadWal ==
    /\ client = "opening" /\ WalFree
    /\ state' = Replayed(state, wal)
    /\ client' = "open"
    /\ UNCHANGED <<server, head, committed, crashes>>

\* The kernel asks for a new file when Lookup found none.
CreateWal ==
    /\ client = "open" /\ WalFree
    /\ ~hasWal /\ hasWal' = TRUE
    /\ UNCHANGED <<wal, synced, active, versions, head, remove, client, state, committed, crashes>>

\* A write at the end of the file.
WriteWal ==
    /\ client = "open" /\ WalFree
    /\ hasWal /\ state < MaxTxs
    /\ wal' = Append(wal, state + 1)
    /\ client' = "logged"
    /\ UNCHANGED <<hasWal, synced, active, versions, head, remove, state, committed, crashes>>

\* Mutant of SyncWal: the file is not synced.
AcknowledgeUnsynced ==
    /\ client = "logged" /\ WalFree
    /\ state' = state + 1
    /\ committed' = Max({committed, state + 1})
    /\ client' = "open"
    /\ UNCHANGED <<server, head, crashes>>

\* Fsync of the WAL file; after it the transaction is acknowledged.
SyncWal ==
    /\ client = "logged" /\ WalFree
    /\ synced' = Len(wal)
    /\ state' = state + 1
    /\ committed' = Max({committed, state + 1})
    /\ client' = "open"
    /\ UNCHANGED <<hasWal, wal, active, versions, head, remove, crashes>>

\* The error of a request to write or to sync the WAL: DuckDB gives up the
\* database and opens it again, the record may be in the file.
WalFails ==
    /\ client = "logged"
    /\ client' = "closed"
    /\ UNCHANGED <<server, head, state, committed, crashes>>

----------------------------------------------------------------------------
(* The client checkpoints                                                  *)

\* WriteFile, refused under a head, and an Fsync that does nothing.
WriteDatabase ==
    /\ client = "open" /\ hasWal
    /\ head = 0 /\ state > 0
    /\ active' = state
    /\ client' = "applied"
    /\ UNCHANGED <<hasWal, wal, synced, versions, head, remove, state, committed, crashes>>

\* Removal of the WAL: after writing the database, or at once when an opened
\* database turns out to hold all that the WAL has.
RequestRemove ==
    /\ WalFree /\ hasWal
    /\ \/ client = "applied"
       \/ client = "open" /\ \A i \in DOMAIN wal : wal[i] <= DatabaseState
    /\ remove' = "checkpoint"
    /\ client' = "removing"
    /\ UNCHANGED <<hasWal, wal, synced, active, versions, head, state, committed, crashes>>

\* A request that ends answers a client that still waits for it.
Answered == client' = IF client = "removing" THEN "open" ELSE client

\* Mutant of CheckpointRefused: the error of Checkpoint is not looked at.
RefusalIgnored ==
    /\ remove = "checkpoint"
    /\ remove' = "unlink"
    /\ UNCHANGED <<hasWal, wal, synced, active, versions, head, client, state, committed, crashes>>

\* Checkpoint fails, or finds a head: the WAL stays.
CheckpointRefused ==
    /\ remove = "checkpoint"
    /\ remove' = "none"
    /\ Answered
    /\ UNCHANGED <<hasWal, wal, synced, active, versions, head, state, committed, crashes>>

NothingToCheckpoint ==
    /\ remove = "checkpoint" /\ head = 0 /\ active = 0
    /\ remove' = "unlink"
    /\ UNCHANGED <<hasWal, wal, synced, active, versions, head, client, state, committed, crashes>>

\* Mutant of Saves: the early return for a file without written data is gone.
SavesAnything ==
    /\ remove = "checkpoint" /\ head = 0
    /\ Len(versions) < MaxVersions
    /\ versions' = Append(versions, active)

Saves ==
    /\ remove = "checkpoint" /\ head = 0 /\ active # 0
    /\ Len(versions) < MaxVersions
    /\ versions' = Append(versions, active)

CheckpointSaves ==
    /\ Saves
    /\ active' = 0
    /\ remove' = "unlink"
    /\ UNCHANGED <<hasWal, wal, synced, head, client, state, committed, crashes>>

\* Saved, with the answer lost: an error, after which the active layer and the
\* WAL stay.
CheckpointUnacknowledged ==
    /\ Saves
    /\ remove' = "none"
    /\ Answered
    /\ UNCHANGED <<hasWal, wal, synced, active, head, state, committed, crashes>>

Unlink ==
    /\ remove = "unlink"
    /\ hasWal' = FALSE /\ wal' = << >> /\ synced' = 0
    /\ remove' = "none"
    /\ Answered
    /\ UNCHANGED <<active, versions, head, state, committed, crashes>>

UnlinkFails ==
    /\ remove = "unlink"
    /\ remove' = "none"
    /\ Answered
    /\ UNCHANGED <<hasWal, wal, synced, active, versions, head, state, committed, crashes>>

----------------------------------------------------------------------------
(* op, and crashes                                                         *)

SetHead ==
    /\ client = "closed"
    /\ head' \in DOMAIN versions
    /\ UNCHANGED <<server, client, state, committed, crashes>>

DeleteHead ==
    /\ head # 0 /\ head' = 0
    /\ UNCHANGED <<server, client, state, committed, crashes>>

Crashes == crashes < MaxCrashes /\ crashes' = crashes + 1

\* DuckDB dies; a removal it asked for goes on in the daemon.
ClientCrash ==
    /\ Crashes
    /\ client # "closed" /\ client' = "closed"
    /\ UNCHANGED <<server, head, state, committed>>

\* The daemon dies and its client loses the mount.  If the host went down too,
\* the WAL file keeps what was synced and maybe more.
DaemonCrash ==
    /\ Crashes
    /\ \/ UNCHANGED <<wal, synced>>
       \/ \E n \in synced..Len(wal) : wal' = SubSeq(wal, 1, n) /\ synced' = n
    /\ active' = 0
    /\ remove' = "none"
    /\ client' = "closed"
    /\ UNCHANGED <<hasWal, versions, head, state, committed>>

Init ==
    /\ hasWal = FALSE /\ wal = << >> /\ synced = 0
    /\ active = 0 /\ versions = << >> /\ head = 0
    /\ remove = "none" /\ client = "closed"
    /\ state = 0 /\ committed = 0 /\ crashes = 0

Next ==
    \/ OpenDatabase \/ ReadWal \/ CreateWal \/ WriteWal \/ SyncWal \/ WalFails
    \/ WriteDatabase \/ RequestRemove
    \/ CheckpointRefused \/ NothingToCheckpoint
    \/ CheckpointSaves \/ CheckpointUnacknowledged
    \/ Unlink \/ UnlinkFails
    \/ SetHead \/ DeleteHead \/ ClientCrash \/ DaemonCrash

Spec == Init /\ [][Next]_vars

----------------------------------------------------------------------------
(* Properties                                                              *)

\* Every variable has its type: only a WAL that is there has records, the synced
\* ones among them, and a version is of a state with a transaction in it: a
\* checkpoint without written data saves none (storage.go:405-409).
TypeOK ==
    /\ hasWal \in BOOLEAN /\ (wal # << >> => hasWal)
    /\ Range(wal) \subseteq 1..MaxTxs
    /\ synced \in 0..Len(wal)
    /\ active \in 0..MaxTxs
    /\ \A i \in DOMAIN versions : versions[i] \in 1..MaxTxs
    /\ head \in 0..Len(versions)
    /\ remove \in {"none", "checkpoint", "unlink"}
    /\ client \in {"closed", "opening", "open", "logged", "applied", "removing"}
    /\ state \in 0..MaxTxs /\ committed \in 0..MaxTxs /\ crashes \in 0..MaxCrashes

\* Whatever crashes next, and wherever a checkpoint is, the saved versions and
\* the synced part of the WAL hold every acknowledged transaction, although
\* Fsync of the database file does nothing: the WAL goes only after the commit
\* (wal.go:232-240, fsx.go:417-429).
Recoverable == Replayed(LastSaved, SubSeq(wal, 1, synced)) >= committed

\* A client that opens the database sees every acknowledged transaction, although
\* it reads the database file first and the WAL later, and a removal that an
\* earlier client asked for may be under way in between (wal.go:221-244).
OpenSeesCommitted ==
    client \in {"open", "logged", "applied", "removing"} => state >= committed

============================================================================
