-------------------------------- MODULE Fsx --------------------------------
(***************************************************************************)
(* The root directory of the FUSE file system (internal/fsx): names of     *)
(* database files are rows of a table, names of WAL files are files of the *)
(* host, and each handler decides by the form of the name where to go.     *)
(* Requests are served by goroutines of their own; the WAL manager's mutex *)
(* is all that orders them, and a removal holds it over the checkpoint of  *)
(* the database and the unlinking of the WAL.                              *)
(*                                                                         *)
(* A name is the sequence of its parts between dots: "db.duckdb.wal" is    *)
(* <<"db", "duckdb", "wal">>, ".duckdb" is <<"", "duckdb">>.  The Manager's *)
(* methods are one step each.  Sizes and times of files are left out.      *)
(***************************************************************************)
EXTENDS Naturals, SequencesExt

CONSTANTS
    Workers,    \* goroutines serving FUSE requests
    Nobody,     \* not a goroutine
    Names,      \* the names that users of the file system try
    HostFiles,  \* what the host had in the directory of the WAL files before
    MaxRecords  \* bound: writes to a WAL file between two removals

\* "db.duckdb.wal" and not "duckdb.wal".
IsWALFile(filename) == IsStrictSuffix(<<"duckdb", "wal">>, filename)

\* Mutant of GetDBFilename: nothing is cut off.
WholeName(walFilename) == walFilename

GetDBFilename(walFilename) == SubSeq(walFilename, 1, Len(walFilename) - 1)

checkValidExtension(filename) ==
    \/ filename \in {<<"duckdb", "wal">>, <<"duckdb">>, <<"tmp">>}
    \/ /\ Head(filename) # ""
       /\ IsStrictSuffix(<<"duckdb">>, filename) \/ IsWALFile(filename)

ASSUME NobodyAssumption == Nobody \notin Workers
ASSUME NamesAssumption == Names \subseteq Seq(STRING) \ {<< >>}
ASSUME HostFilesAssumption == HostFiles \subseteq Seq(STRING) \ {<< >>}
ASSUME MaxRecordsAssumption == MaxRecords \in Nat

VARIABLES
    files,      \* the names in the table files
    unsaved,    \* the database files with an active layer
    walDir,     \* the files of the directory on the host: how many writes each has taken
    nodes,      \* the names the kernel has a node of, and can write to
    wmMu,       \* the removal that has the WAL manager's mutex, or Nobody
    pc,         \* the statement each goroutine has reached
    call        \* what its request asks, and the answer

vars == <<files, unsaved, walDir, nodes, wmMu, pc, call>>

\* found: the names seen.  due, logged: history, the database a removal has to
\* save first, and the writes the WAL had taken when it was saved.
NoCall == [name |-> << >>, found |-> {}, outcome |-> "pending", due |-> {}, logged |-> 0]

WalNames == {n \in Names : checkValidExtension(n) /\ IsWALFile(n)}
DatabaseNames == {n \in Names : checkValidExtension(n) /\ ~IsWALFile(n)}

Logged(n) == IF n \in DOMAIN walDir THEN walDir[n] ELSE 0
Unlinked(n) == [m \in DOMAIN walDir \ {n} |-> walDir[m]]
Written(n, count) == [m \in DOMAIN walDir \cup {n} |-> IF m = n THEN count ELSE walDir[m]]

\* Mutant of WalFree: a removal does not keep the mutex while it checkpoints.
WalUnlocked == TRUE

\* A method of the WAL manager waits for a removal to end.
WalFree == wmMu = Nobody

At(w, statement) == pc[w] = statement
Goto(w, statement) == pc' = [pc EXCEPT ![w] = statement]
ToWal(w) == call[w].name \in WalNames
ToDatabase(w) == call[w].name \in DatabaseNames

Answer(w, outcome) ==
    /\ Goto(w, "return")
    /\ call' = [call EXCEPT ![w].outcome = outcome, ![w].found = {}]

Call(w, statement, name) ==
    /\ At(w, "idle")
    /\ Goto(w, statement)
    /\ call' = [call EXCEPT ![w].name = name,
                            ![w].due = {f \in unsaved : name = Append(f, "wal")}]
    /\ UNCHANGED <<files, unsaved, walDir, nodes, wmMu>>

----------------------------------------------------------------------------
(* Lookup and ReadDirAll                                                   *)

CallLookup(w) == \E n \in Names : Call(w, "lookup", n)

Sees(w, seen) ==
    /\ call' = [call EXCEPT ![w].found = seen, ![w].outcome = "ok"]
    /\ nodes' = nodes \cup seen
    /\ Goto(w, "return")
    /\ UNCHANGED <<files, unsaved, walDir, wmMu>>

LookupInvalid(w) ==
    /\ At(w, "lookup") /\ ~ToWal(w) /\ ~ToDatabase(w)
    /\ Sees(w, {})

\* Exists decides; the size and the time are asked for later and decide nothing.
LookupWal(w) ==
    /\ At(w, "lookup") /\ ToWal(w) /\ WalFree
    /\ Sees(w, {call[w].name} \cap DOMAIN walDir)

\* A size, unless the name has no row.
LookupDatabase(w) ==
    /\ At(w, "lookup") /\ ToDatabase(w)
    /\ Sees(w, {call[w].name} \cap files)

CallReadDirAll(w) == Call(w, "list_files", << >>)

ListFiles(w) ==
    /\ At(w, "list_files")
    /\ call' = [call EXCEPT ![w].found = files]
    /\ Goto(w, "list_wals")
    /\ UNCHANGED <<files, unsaved, walDir, nodes, wmMu>>

\* Mutant of ListWALFiles: whatever the directory holds.
ListDirectory == DOMAIN walDir

ListWALFiles == {n \in DOMAIN walDir : IsWALFile(n)}

ListWals(w) ==
    /\ At(w, "list_wals") /\ WalFree
    /\ call' = [call EXCEPT ![w].found = @ \cup ListWALFiles, ![w].outcome = "ok"]
    /\ Goto(w, "return")
    /\ UNCHANGED <<files, unsaved, walDir, nodes, wmMu>>

LookFails(w) ==
    /\ pc[w] \in {"lookup", "list_files", "list_wals"}
    /\ Answer(w, "error")
    /\ UNCHANGED <<files, unsaved, walDir, nodes, wmMu>>

----------------------------------------------------------------------------
(* Create and Write                                                        *)

CallCreate(w) == \E n \in Names : Call(w, "create", n)

\* O_CREATE without O_EXCL or O_TRUNC: an existing file is left as it is.
CreateWal(w) ==
    /\ At(w, "create") /\ ToWal(w) /\ WalFree
    /\ walDir' = Written(call[w].name, Logged(call[w].name))
    /\ nodes' = nodes \cup {call[w].name}
    /\ Answer(w, "ok")
    /\ UNCHANGED <<files, unsaved, wmMu>>

\* The name of a file is unique in its table.  The answer may get lost.
CreateDatabase(w) ==
    /\ At(w, "create") /\ ToDatabase(w)
    /\ call[w].name \notin files
    /\ files' = files \cup {call[w].name}
    /\ \/ Answer(w, "ok") /\ nodes' = nodes \cup {call[w].name}
       \/ Answer(w, "error") /\ UNCHANGED nodes
    /\ UNCHANGED <<unsaved, walDir, wmMu>>

CallWrite(w) == \E n \in nodes : Call(w, "write", n)

\* A WAL that was removed in the meantime is there again.
WriteWal(w) ==
    /\ At(w, "write") /\ ToWal(w) /\ WalFree
    /\ \/ /\ Logged(call[w].name) < MaxRecords
          /\ walDir' = Written(call[w].name, Logged(call[w].name) + 1)
          /\ Answer(w, "ok")
       \/ /\ walDir' = Written(call[w].name, Logged(call[w].name))
          /\ Answer(w, "error")
    /\ UNCHANGED <<files, unsaved, nodes, wmMu>>

WriteDatabase(w) ==
    /\ At(w, "write") /\ ToDatabase(w)
    /\ call[w].name \in files
    /\ unsaved' = unsaved \cup {call[w].name}
    /\ Answer(w, "ok")
    /\ UNCHANGED <<files, walDir, nodes, wmMu>>

\* A name that is taken or not valid, a file with a head, or any other error.
CreateOrWriteFails(w) ==
    /\ pc[w] \in {"create", "write"}
    /\ Answer(w, "error")
    /\ UNCHANGED <<files, unsaved, walDir, nodes, wmMu>>

----------------------------------------------------------------------------
(* Remove                                                                  *)

CallRemove(w) == \E n \in Names : Call(w, "remove", n)

\* Checkpoint saves the active layer, or finds no such file or nothing to save.
CheckpointToRemove(w) ==
    LET db == GetDBFilename(call[w].name) IN
    /\ At(w, "remove") /\ ToWal(w) /\ WalFree
    /\ wmMu' = w
    /\ unsaved' = unsaved \ {db}
    /\ call' = [v \in Workers |-> [call[v] EXCEPT
                   !.due = @ \ {db},
                   !.logged = IF v = w THEN Logged(call[w].name) ELSE @]]
    /\ Goto(w, "unlink")
    /\ UNCHANGED <<files, walDir, nodes>>

\* Not a WAL file, or Checkpoint returns an error.
RemoveRefused(w) ==
    /\ At(w, "remove") /\ (ToWal(w) => WalFree)
    /\ Answer(w, "error")
    /\ UNCHANGED <<files, unsaved, walDir, nodes, wmMu>>

Unlink(w) ==
    /\ At(w, "unlink") /\ call[w].name \in DOMAIN walDir
    /\ walDir' = Unlinked(call[w].name)
    /\ wmMu' = Nobody
    /\ Answer(w, "ok")
    /\ UNCHANGED <<files, unsaved, nodes>>

\* Mutant of UnlinkFails: the error path keeps the mutex.
UnlinkFailsLocked(w) ==
    /\ At(w, "unlink")
    /\ Answer(w, "error")
    /\ UNCHANGED <<files, unsaved, walDir, nodes, wmMu>>

\* There is no such file, for one.
UnlinkFails(w) ==
    /\ At(w, "unlink")
    /\ wmMu' = Nobody
    /\ Answer(w, "error")
    /\ UNCHANGED <<files, unsaved, walDir, nodes>>

----------------------------------------------------------------------------

Return(w) ==
    /\ At(w, "return")
    /\ Goto(w, "idle")
    /\ call' = [call EXCEPT ![w] = NoCall]
    /\ UNCHANGED <<files, unsaved, walDir, nodes, wmMu>>

\* The daemon dies: the mount, its nodes and the active layers are gone.
Crash ==
    /\ unsaved' = {} /\ nodes' = {} /\ wmMu' = Nobody
    /\ pc' = [w \in Workers |-> "idle"]
    /\ call' = [w \in Workers |-> NoCall]
    /\ UNCHANGED <<files, walDir>>

Init ==
    /\ files = {} /\ unsaved = {} /\ nodes = {}
    /\ walDir = [n \in HostFiles |-> 0]
    /\ wmMu = Nobody
    /\ pc = [w \in Workers |-> "idle"]
    /\ call = [w \in Workers |-> NoCall]

Handlers(w) ==
    \/ CallLookup(w) \/ CallReadDirAll(w) \/ CallCreate(w) \/ CallWrite(w) \/ CallRemove(w)
    \/ LookupInvalid(w) \/ LookupWal(w) \/ LookupDatabase(w)
    \/ ListFiles(w) \/ ListWals(w) \/ LookFails(w)
    \/ CreateWal(w) \/ CreateDatabase(w) \/ CreateOrWriteFails(w)
    \/ WriteWal(w) \/ WriteDatabase(w)
    \/ CheckpointToRemove(w) \/ RemoveRefused(w) \/ Unlink(w) \/ UnlinkFails(w)
    \/ Return(w)

Next == (\E w \in Workers : Handlers(w)) \/ Crash

Spec == Init /\ [][Next]_vars

----------------------------------------------------------------------------
(* Properties                                                              *)

\* Every variable has its type, and every name is kept where its form says and
\* nowhere else (fsx.go:73-252): the table has no WAL file, and neither has a
\* name that the handlers refuse; the directory of the host has no database and
\* none of these names either, but for the files that were there before.
TypeOK ==
    /\ files \subseteq DatabaseNames
    /\ unsaved \subseteq files
    /\ nodes \subseteq DatabaseNames \cup WalNames
    /\ DOMAIN walDir \subseteq WalNames \cup HostFiles
    /\ \A n \in DOMAIN walDir : walDir[n] \in 0..MaxRecords
    /\ wmMu \in Workers \cup {Nobody}
    /\ \A w \in Workers :
          /\ At(w, "unlink") <=> wmMu = w
          /\ pc[w] \in {"idle", "lookup", "list_files", "list_wals", "create", "write",
                        "remove", "unlink", "return"}
          /\ pc[w] \in {"unlink", "list_wals"} => call[w].outcome = "pending"
    /\ call \in [Workers -> [name : Names \cup {<< >>}, found : SUBSET (Names \cup HostFiles),
                             outcome : {"pending", "ok", "error"},
                             due : SUBSET DatabaseNames, logged : 0..MaxRecords]]

\* Before a WAL file is unlinked, all that was written to its own database when
\* the removal was asked for has been saved, although removals of several WAL
\* files and writes to several databases are under way (wal.go:220-244).
RemovalSavesItsDatabase == \A w \in Workers : At(w, "unlink") => call[w].due = {}

\* A WAL file is unlinked with no record that came after the checkpoint: a write
\* that arrives during the removal is made after it, and in a new file
\* (wal.go:190-200, 221-240).
RemovesOnlyCheckpointed ==
    \A w \in Workers : At(w, "unlink") => Logged(call[w].name) = call[w].logged

\* All names there are, those that have a WAL file's form, and those that every
\* handler for one name refuses: ".duckdb.wal" is both.
AllNames == Names \cup HostFiles
WalForms == {n \in AllNames : IsWALFile(n)}
Unserved == {n \in AllNames : ~checkValidExtension(n)}

\* What a request is to the directory: a look at the names it has yet to see, a
\* creation, which a write to a WAL file is too, or a removal; then its answer.
Asked(op, left) == [op |-> op, left |-> left, found |-> {}, outcome |-> "none"]
AsDirectoryCall(statement, request) ==
    LET name == {request.name} \ Unserved IN
    CASE statement = "idle" -> Asked("none", {})
      [] statement = "lookup" -> Asked("look", name)
      [] statement = "list_files" -> Asked("look", AllNames)
      [] statement = "list_wals" -> [Asked("look", WalForms) EXCEPT !.found = request.found]
      [] statement = "create" -> Asked("create", name)
      [] statement = "write" -> Asked(IF request.name \in WalNames THEN "create" ELSE "use", name)
      [] statement \in {"remove", "unlink"} -> Asked("remove", name)
      [] statement = "return" -> [op |-> "answered", left |-> {}, found |-> request.found,
                                  outcome |-> request.outcome]

Root == INSTANCE Directory WITH
    Clients <- Workers, Names <- AllNames, Permanent <- DatabaseNames,
    names <- files \cup (DOMAIN walDir \cap WalForms),
    calls <- [w \in Workers |-> AsDirectoryCall(pc[w], call[w])]

\* The table and the directory of the host together are one directory: lookups,
\* creations, removals and listings that overlap get answers that one set of
\* names would have given, although ReadDirAll reads the two one after the other
\* and a removal waits for a checkpoint (fsx.go:142-168, wal.go:88-152).  Files of
\* the host that are named like WAL files count as names of the directory.
ImplementsDirectory == Root!Spec
============================================================================
