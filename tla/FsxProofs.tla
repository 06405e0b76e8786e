----------------------------- MODULE FsxProofs -----------------------------
(***************************************************************************)
(* Proofs about Fsx, for every set of names and any number of requests     *)
(* under way.                                                              *)
(***************************************************************************)
EXTENDS Fsx, TLAPS

Statements == {"idle", "lookup", "list_files", "list_wals", "create", "write",
               "remove", "unlink", "return"}
Calls == [name : Names \cup {<< >>}, found : SUBSET (Names \cup HostFiles),
          outcome : {"pending", "ok", "error"},
          due : SUBSET DatabaseNames, logged : 0..MaxRecords]

\* The inductive invariant: TypeOK, and of every request that the database it
\* has to save is the one its name leads back to, and that nothing has come
\* between its checkpoint and its unlinking.
IInv ==
    /\ TypeOK
    /\ pc \in [Workers -> Statements]
    /\ \A w \in Workers :
          /\ \A f \in call[w].due : call[w].name = Append(f, "wal")
          /\ ~At(w, "return") => call[w].outcome = "pending"
          /\ At(w, "unlink") => /\ ToWal(w)
                                /\ call[w].due = {}
                                /\ Logged(call[w].name) = call[w].logged

----------------------------------------------------------------------------
(* Names                                                                   *)

\* A name leads to the table or to the directory of the host, not to both; what
\* a listing takes from the host is not the name of a database.
LEMMA NamesApart ==
    /\ WalNames \cap DatabaseNames = {}
    /\ WalNames \subseteq Names /\ DatabaseNames \subseteq Names
    /\ WalNames \subseteq WalForms /\ WalForms \cap DatabaseNames = {}
    /\ WalForms \subseteq AllNames /\ AllNames = Names \cup HostFiles
    /\ WalNames \cap Unserved = {} /\ DatabaseNames \cap Unserved = {}
BY DEF WalNames, DatabaseNames, WalForms, AllNames, Unserved

\* The name of a database is what its WAL's name leads back to.
LEMMA DatabaseOfWal ==
    ASSUME NEW f \in Names
    PROVE  GetDBFilename(Append(f, "wal")) = f
<1>1. f \in Seq(STRING)
    BY NamesAssumption
<1>2. Len(Append(f, "wal")) - 1 = Len(f)
    BY <1>1
<1>3. SubSeq(Append(f, "wal"), 1, Len(f)) = f
    BY <1>1
<1> QED BY <1>2, <1>3 DEF GetDBFilename

\* Of the files in the directory those are listed that have a WAL file's form,
\* the host's own among them.
LEMMA ListedAreWals ==
    ASSUME TypeOK
    PROVE  ListWALFiles = DOMAIN walDir \cap WalForms
<1>1. DOMAIN walDir \subseteq AllNames
    BY NamesApart DEF TypeOK
<1> QED BY <1>1 DEF ListWALFiles, WalForms

----------------------------------------------------------------------------
(* The invariant                                                           *)

LEMMA NoCallType == NoCall \in Calls
BY MaxRecordsAssumption DEF NoCall, Calls

LEMMA InitInv == Init => IInv
<1> SUFFICES ASSUME Init PROVE IInv
    OBVIOUS
<1>1. /\ unsaved = {} /\ files = {} /\ nodes = {}
      /\ DOMAIN walDir \subseteq WalNames \cup HostFiles
      /\ \A n \in DOMAIN walDir : walDir[n] \in 0..MaxRecords
    BY MaxRecordsAssumption DEF Init
<1>2. pc \in [Workers -> Statements] /\ call \in [Workers -> Calls]
    BY NoCallType DEF Init, Statements
<1>3. \A w \in Workers : /\ pc[w] = "idle" /\ call[w].due = {} /\ wmMu # w
                          /\ call[w].outcome = "pending"
    BY NobodyAssumption DEF Init, NoCall
<1>4. TypeOK
    BY <1>1, <1>2, <1>3 DEF Init, TypeOK, At, Statements, Calls
<1> QED BY <1>2, <1>3, <1>4 DEF IInv, At

\* A goroutine that does not start to unlink, and changes the WAL files only when
\* no other one is removing, keeps the invariant if the rest keeps its type.
LEMMA OneRequest ==
    ASSUME IInv, NEW w \in Workers, NEW s \in Statements, NEW c \in Calls,
           pc' = [pc EXCEPT ![w] = s], call' = [call EXCEPT ![w] = c],
           s # "unlink", s # "return" => c.outcome = "pending",
           \A f \in c.due : c.name = Append(f, "wal"),
           wmMu' = IF At(w, "unlink") THEN Nobody ELSE wmMu,
           UNCHANGED walDir \/ wmMu \in {Nobody, w},
           files' \subseteq DatabaseNames, unsaved' \subseteq files',
           nodes' \subseteq DatabaseNames \cup WalNames,
           DOMAIN walDir' \subseteq WalNames \cup HostFiles,
           \A n \in DOMAIN walDir' : walDir'[n] \in 0..MaxRecords
    PROVE  IInv'
<1>1. pc' \in [Workers -> Statements] /\ call' \in [Workers -> Calls]
    BY DEF IInv, TypeOK, Calls
<1>2. /\ pc'[w] = s /\ call'[w] = c
      /\ \A v \in Workers \ {w} : pc'[v] = pc[v] /\ call'[v] = call[v]
    BY DEF IInv, TypeOK
<1>3. \A v \in Workers : At(v, "unlink") <=> wmMu = v
    BY DEF IInv, TypeOK
<1>4. \A v \in Workers : At(v, "unlink")' <=> wmMu' = v
    BY <1>2, <1>3, NobodyAssumption DEF At
<1>5. ASSUME NEW v \in Workers
      PROVE  /\ \A f \in call'[v].due : call'[v].name = Append(f, "wal")
             /\ pc'[v] # "return" => call'[v].outcome = "pending"
             /\ At(v, "unlink")' => /\ ToWal(v)'
                                    /\ call'[v].due = {}
                                    /\ Logged(call[v].name)' = call'[v].logged
    <2>1. CASE v = w
        BY <2>1, <1>2 DEF At
    <2>2. CASE v # w
        <3>1. pc'[v] = pc[v] /\ call'[v] = call[v]
            BY <2>2, <1>2
        <3>2. /\ \A f \in call'[v].due : call'[v].name = Append(f, "wal")
              /\ pc'[v] # "return" => call'[v].outcome = "pending"
            BY <3>1 DEF IInv, At
        <3>3. CASE At(v, "unlink")
            <4>1. UNCHANGED walDir
                BY <3>3, <1>3, <2>2, NobodyAssumption
            <4> QED BY <3>1, <3>2, <3>3, <4>1 DEF IInv, ToWal, Logged, WalNames
        <3>4. CASE ~At(v, "unlink")
            BY <3>1, <3>2, <3>4 DEF At
        <3> QED BY <3>3, <3>4
    <2> QED BY <2>1, <2>2
<1>6. wmMu' \in Workers \cup {Nobody}
    BY DEF IInv, TypeOK
<1>7. TypeOK'
    BY <1>1, <1>4, <1>5, <1>6 DEF TypeOK, Calls, Statements
<1> QED BY <1>1, <1>5, <1>7 DEF IInv, At

\* What an answer makes of a request.
LEMMA AnswerIs ==
    ASSUME IInv, NEW w \in Workers, NEW outcome \in {"ok", "error"}, Answer(w, outcome)
    PROVE  LET c == [call[w] EXCEPT !.outcome = outcome, !.found = {}]
           IN  /\ c \in Calls
               /\ pc' = [pc EXCEPT ![w] = "return"] /\ call' = [call EXCEPT ![w] = c]
               /\ \A f \in c.due : c.name = Append(f, "wal")
<1> DEFINE c == [call[w] EXCEPT !.outcome = outcome, !.found = {}]
<1>1. call \in [Workers -> Calls]
    BY DEF IInv, TypeOK, Calls
<1>2. c \in Calls /\ c.due = call[w].due /\ c.name = call[w].name
    BY <1>1 DEF Calls
<1>3. call' = [call EXCEPT ![w] = c]
    BY <1>1 DEF Answer
<1> QED BY <1>2, <1>3 DEF Answer, Goto, IInv

\* The types that the steps keep, one by one.
LEMMA TypesOf ==
    ASSUME IInv, NEW w \in Workers
    PROVE  /\ call[w] \in Calls /\ call \in [Workers -> Calls]
           /\ pc[w] \in Statements /\ pc \in [Workers -> Statements]
           /\ files \subseteq DatabaseNames /\ unsaved \subseteq files
           /\ nodes \subseteq DatabaseNames \cup WalNames
           /\ DOMAIN walDir \subseteq WalNames \cup HostFiles
           /\ \A n \in DOMAIN walDir : walDir[n] \in 0..MaxRecords
           /\ \A v \in Workers : At(v, "unlink") <=> wmMu = v
           /\ wmMu \in Workers \cup {Nobody}
BY DEF IInv, TypeOK, Calls

\* A request begins; one that removes a WAL file has its database to save.
LEMMA CallInv ==
    ASSUME IInv, NEW w \in Workers, NEW name \in Names \cup {<< >>},
           NEW s \in Statements \ {"unlink", "list_wals"}, Call(w, s, name)
    PROVE  IInv'
<1> DEFINE c == [call[w] EXCEPT !.name = name,
                                !.due = {f \in unsaved : name = Append(f, "wal")}]
<1>1. c \in Calls
    BY TypesOf DEF Calls
<1>2. call' = [call EXCEPT ![w] = c]
    BY TypesOf DEF Call
<1>3. \A f \in c.due : c.name = Append(f, "wal")
    BY TypesOf DEF Calls
<1>4. ~At(w, "unlink") /\ c.outcome = "pending"
    BY TypesOf DEF Call, At, IInv, Calls
<1> HIDE DEF c
<1> QED BY <1>1, <1>2, <1>3, <1>4, OneRequest, TypesOf DEF Call, Goto

LEMMA CallsInv ==
    ASSUME IInv, NEW w \in Workers,
           CallLookup(w) \/ CallReadDirAll(w) \/ CallCreate(w) \/ CallWrite(w) \/ CallRemove(w)
    PROVE  IInv'
<1>1. nodes \subseteq Names
    BY TypesOf, NamesApart
<1>2. \E name \in Names \cup {<< >>}, s \in Statements \ {"unlink", "list_wals"} :
          Call(w, s, name)
    BY <1>1 DEF CallLookup, CallReadDirAll, CallCreate, CallWrite, CallRemove, Statements
<1> QED BY <1>2, CallInv

\* A look has found names, and returns.
LEMMA SeesInv ==
    ASSUME IInv, NEW w \in Workers, NEW seen \in SUBSET (DatabaseNames \cup WalNames),
           ~At(w, "unlink"), Sees(w, seen)
    PROVE  IInv'
<1> DEFINE c == [call[w] EXCEPT !.found = seen, !.outcome = "ok"]
<1>1. c \in Calls
    BY TypesOf, NamesApart DEF Calls
<1>2. call' = [call EXCEPT ![w] = c]
    BY TypesOf DEF Sees
<1>3. \A f \in c.due : c.name = Append(f, "wal")
    BY TypesOf DEF Calls, IInv
<1> HIDE DEF c
<1> QED BY <1>1, <1>2, <1>3, OneRequest, TypesOf DEF Sees, Goto, Statements

LEMMA LookupInv ==
    ASSUME IInv, NEW w \in Workers, LookupInvalid(w) \/ LookupWal(w) \/ LookupDatabase(w)
    PROVE  IInv'
<1>1. ~At(w, "unlink")
    BY DEF LookupInvalid, LookupWal, LookupDatabase, At
<1>2. \E seen \in SUBSET (DatabaseNames \cup WalNames) : Sees(w, seen)
    BY TypesOf DEF LookupInvalid, LookupWal, LookupDatabase, ToWal
<1> QED BY <1>1, <1>2, SeesInv

LEMMA ListInv ==
    ASSUME IInv, NEW w \in Workers, ListFiles(w) \/ ListWals(w)
    PROVE  IInv'
<1>1. CASE ListFiles(w)
    <2> DEFINE c == [call[w] EXCEPT !.found = files]
    <2>1. c \in Calls
        BY TypesOf, NamesApart DEF Calls
    <2>2. call' = [call EXCEPT ![w] = c]
        BY <1>1, TypesOf DEF ListFiles
    <2>3. (\A f \in c.due : c.name = Append(f, "wal")) /\ c.outcome = "pending"
        BY <1>1, TypesOf DEF Calls, IInv, ListFiles, At
    <2>4. /\ ~At(w, "unlink") /\ pc' = [pc EXCEPT ![w] = "list_wals"]
          /\ UNCHANGED <<files, unsaved, walDir, nodes, wmMu>>
        BY <1>1 DEF ListFiles, At, Goto
    <2> HIDE DEF c
    <2> QED BY <2>1, <2>2, <2>3, <2>4, OneRequest, TypesOf DEF Statements
<1>2. CASE ListWals(w)
    <2> DEFINE c == [call[w] EXCEPT !.found = @ \cup ListWALFiles, !.outcome = "ok"]
    <2>1. c \in Calls
        <3>1. ListWALFiles \subseteq Names \cup HostFiles
            BY TypesOf, NamesApart, ListedAreWals DEF IInv
        <3> QED BY <3>1, TypesOf DEF Calls
    <2>2. call' = [call EXCEPT ![w] = c]
        BY <1>2, TypesOf DEF ListWals
    <2>3. \A f \in c.due : c.name = Append(f, "wal")
        BY TypesOf DEF Calls, IInv
    <2> HIDE DEF c
    <2> QED BY <1>2, <2>1, <2>2, <2>3, OneRequest, TypesOf DEF ListWals, At, Goto, Statements
<1> QED BY <1>1, <1>2

\* A request is answered, and leaves the WAL files alone unless no removal is
\* under way but its own.
LEMMA AnswerInv ==
    ASSUME IInv, NEW w \in Workers, NEW outcome \in {"ok", "error"}, Answer(w, outcome),
           wmMu' = IF At(w, "unlink") THEN Nobody ELSE wmMu,
           UNCHANGED walDir \/ wmMu \in {Nobody, w},
           files' \subseteq DatabaseNames, unsaved' \subseteq files',
           nodes' \subseteq DatabaseNames \cup WalNames,
           DOMAIN walDir' \subseteq WalNames \cup HostFiles,
           \A n \in DOMAIN walDir' : walDir'[n] \in 0..MaxRecords
    PROVE  IInv'
<1> DEFINE c == [call[w] EXCEPT !.outcome = outcome, !.found = {}]
<1>1. /\ c \in Calls
      /\ pc' = [pc EXCEPT ![w] = "return"] /\ call' = [call EXCEPT ![w] = c]
      /\ \A f \in c.due : c.name = Append(f, "wal")
    BY AnswerIs
<1> HIDE DEF c
<1> QED BY <1>1, OneRequest DEF Statements

LEMMA FailsInv ==
    ASSUME IInv, NEW w \in Workers,
           LookFails(w) \/ CreateOrWriteFails(w) \/ RemoveRefused(w)
    PROVE  IInv'
<1>1. ~At(w, "unlink") /\ Answer(w, "error") /\ UNCHANGED <<files, unsaved, walDir, nodes, wmMu>>
    BY DEF LookFails, CreateOrWriteFails, RemoveRefused, At
<1> QED BY <1>1, AnswerInv, TypesOf

\* A write to a WAL file, or its creation, waits until no removal is under way.
LEMMA WrittenType ==
    ASSUME IInv, NEW n \in WalNames, NEW count \in 0..MaxRecords
    PROVE  /\ DOMAIN Written(n, count) \subseteq WalNames \cup HostFiles
           /\ \A m \in DOMAIN Written(n, count) : Written(n, count)[m] \in 0..MaxRecords
           /\ Logged(n) \in 0..MaxRecords
BY MaxRecordsAssumption DEF Written, Logged, IInv, TypeOK

LEMMA CreateWalInv ==
    ASSUME IInv, NEW w \in Workers, CreateWal(w)
    PROVE  IInv'
<1>1. /\ ~At(w, "unlink") /\ Answer(w, "ok") /\ wmMu = Nobody
      /\ call[w].name \in WalNames
      /\ walDir' = Written(call[w].name, Logged(call[w].name))
      /\ nodes' = nodes \cup {call[w].name}
      /\ UNCHANGED <<files, unsaved, wmMu>>
    BY DEF CreateWal, At, ToWal, WalFree
<1>2. Logged(call[w].name) \in 0..MaxRecords
    BY <1>1, WrittenType, MaxRecordsAssumption
<1>3. /\ DOMAIN walDir' \subseteq WalNames \cup HostFiles
      /\ \A m \in DOMAIN walDir' : walDir'[m] \in 0..MaxRecords
    BY <1>1, <1>2, WrittenType
<1>4. nodes' \subseteq DatabaseNames \cup WalNames
    BY <1>1, TypesOf
<1> QED BY <1>1, <1>3, <1>4, AnswerInv, TypesOf

LEMMA CreateDatabaseInv ==
    ASSUME IInv, NEW w \in Workers, CreateDatabase(w)
    PROVE  IInv'
<1>1. /\ ~At(w, "unlink") /\ call[w].name \in DatabaseNames
      /\ UNCHANGED <<unsaved, walDir, wmMu>>
      /\ files' = files \cup {call[w].name}
      /\ nodes' \subseteq nodes \cup {call[w].name}
    BY DEF CreateDatabase, At, ToDatabase
<1>2. \E outcome \in {"ok", "error"} : Answer(w, outcome)
    BY DEF CreateDatabase
<1> QED BY <1>1, <1>2, AnswerInv, TypesOf

LEMMA WriteWalInv ==
    ASSUME IInv, NEW w \in Workers, WriteWal(w)
    PROVE  IInv'
<1>1. /\ ~At(w, "unlink") /\ wmMu = Nobody /\ call[w].name \in WalNames
      /\ UNCHANGED <<files, unsaved, nodes, wmMu>>
    BY DEF WriteWal, At, ToWal, WalFree
<1>2. Logged(call[w].name) \in 0..MaxRecords
    BY <1>1, WrittenType, MaxRecordsAssumption
<1>3. \E count \in 0..MaxRecords : walDir' = Written(call[w].name, count)
    BY <1>2, MaxRecordsAssumption DEF WriteWal
<1>4. /\ DOMAIN walDir' \subseteq WalNames \cup HostFiles
      /\ \A m \in DOMAIN walDir' : walDir'[m] \in 0..MaxRecords
    BY <1>1, <1>3, WrittenType
<1>5. \E outcome \in {"ok", "error"} : Answer(w, outcome)
    BY DEF WriteWal
<1> QED BY <1>1, <1>4, <1>5, AnswerInv, TypesOf

LEMMA WriteDatabaseInv ==
    ASSUME IInv, NEW w \in Workers, WriteDatabase(w)
    PROVE  IInv'
<1>1. /\ ~At(w, "unlink") /\ Answer(w, "ok") /\ unsaved' = unsaved \cup {call[w].name}
      /\ call[w].name \in files
      /\ UNCHANGED <<files, walDir, nodes, wmMu>>
    BY DEF WriteDatabase, At
<1> QED BY <1>1, AnswerInv, TypesOf

\* The checkpoint saves the request's own database, and no other removal is
\* under way whose database or WAL it could be.
LEMMA CheckpointToRemoveInv ==
    ASSUME IInv, NEW w \in Workers, CheckpointToRemove(w)
    PROVE  IInv'
<1> DEFINE db == GetDBFilename(call[w].name)
           c(v) == [call[v] EXCEPT !.due = @ \ {db},
                                   !.logged = IF v = w THEN Logged(call[w].name) ELSE @]
<1>1. /\ At(w, "remove") /\ ToWal(w) /\ wmMu = Nobody
      /\ wmMu' = w /\ unsaved' = unsaved \ {db}
      /\ pc' = [pc EXCEPT ![w] = "unlink"]
      /\ call' = [v \in Workers |-> c(v)]
      /\ UNCHANGED <<files, walDir, nodes>>
    BY DEF CheckpointToRemove, WalFree, Goto
<1>2. Logged(call[w].name) \in 0..MaxRecords
    <2>1. call[w].name \in WalNames
        BY DEF CheckpointToRemove, ToWal
    <2>2. 0 \in 0..MaxRecords
        BY MaxRecordsAssumption
    <2> QED BY <2>1, <2>2, WrittenType
<1>3. \A v \in Workers : /\ c(v) \in Calls
                         /\ c(v).due = call[v].due \ {db}
                         /\ c(v).name = call[v].name
                         /\ c(v).outcome = call[v].outcome
                         /\ c(v).logged = IF v = w THEN Logged(call[w].name) ELSE call[v].logged
    BY <1>2, TypesOf DEF Calls
<1>4. pc' \in [Workers -> Statements] /\ call' \in [Workers -> Calls]
    BY <1>1, <1>3, TypesOf DEF Statements
<1>5. \A v \in Workers : ~At(v, "unlink")
    BY <1>1, TypesOf, NobodyAssumption
<1>6. \A v \in Workers : At(v, "unlink")' <=> v = w
    BY <1>1, <1>5, TypesOf DEF At
<1>7. \A f \in call[w].due : f = db
    <2> SUFFICES ASSUME NEW f \in call[w].due PROVE f = db
        OBVIOUS
    <2>1. f \in Names /\ call[w].name = Append(f, "wal")
        BY TypesOf, NamesApart DEF Calls, IInv
    <2> QED BY <2>1, DatabaseOfWal
<1>8. ASSUME NEW v \in Workers
      PROVE  /\ \A f \in call'[v].due : call'[v].name = Append(f, "wal")
             /\ pc'[v] # "return" => call'[v].outcome = "pending"
             /\ At(v, "unlink")' => /\ ToWal(v)'
                                    /\ call'[v].due = {}
                                    /\ Logged(call[v].name)' = call'[v].logged
    <2>1. call'[v] = c(v)
        BY <1>1
    <2>2. pc'[v] = IF v = w THEN "unlink" ELSE pc[v]
        BY <1>1, TypesOf
    <2>3. pc[v] # "return" => call[v].outcome = "pending"
        BY DEF IInv, At
    <2>4. pc'[v] # "return" => call'[v].outcome = "pending"
        BY <1>1, <1>3, <2>1, <2>2, <2>3 DEF At
    <2>5. \A f \in call'[v].due : call'[v].name = Append(f, "wal")
        BY <1>3, <2>1 DEF IInv
    <2>6. ASSUME At(v, "unlink")'
          PROVE  ToWal(v)' /\ call'[v].due = {} /\ Logged(call[v].name)' = call'[v].logged
        <3>1. v = w
            BY <1>6, <2>6
        <3>2. call'[v].name = call[w].name /\ call'[v].due = {}
            BY <1>3, <1>7, <2>1, <3>1
        <3>3. call'[v].logged = Logged(call[w].name)
            BY <1>3, <2>1, <3>1
        <3> QED BY <1>1, <3>2, <3>3 DEF ToWal, Logged
    <2> QED BY <2>4, <2>5, <2>6
<1>9. TypeOK'
    <2>1. unsaved' \subseteq files' /\ files' \subseteq DatabaseNames
          /\ nodes' \subseteq DatabaseNames \cup WalNames
          /\ DOMAIN walDir' \subseteq WalNames \cup HostFiles
          /\ \A n \in DOMAIN walDir' : walDir'[n] \in 0..MaxRecords
        BY <1>1, TypesOf
    <2>2. wmMu' = w
        BY <1>1
    <2>3. \A v \in Workers :
              /\ At(v, "unlink")' <=> wmMu' = v
              /\ pc'[v] \in Statements
              /\ pc'[v] \in {"unlink", "list_wals"} => call'[v].outcome = "pending"
        BY <1>4, <1>6, <1>8, <2>2
    <2> QED BY <1>4, <2>1, <2>2, <2>3 DEF TypeOK, Statements, Calls
<1> QED BY <1>4, <1>8, <1>9 DEF IInv, At

\* A removal ends, and gives the mutex back.
LEMMA UnlinkInv ==
    ASSUME IInv, NEW w \in Workers, Unlink(w) \/ UnlinkFails(w)
    PROVE  IInv'
<1>1. /\ At(w, "unlink") /\ wmMu = w /\ wmMu' = Nobody
      /\ UNCHANGED <<files, unsaved, nodes>>
    BY TypesOf DEF Unlink, UnlinkFails
<1>2. \E outcome \in {"ok", "error"} : Answer(w, outcome)
    BY DEF Unlink, UnlinkFails
<1>3. /\ DOMAIN walDir' \subseteq WalNames \cup HostFiles
      /\ \A n \in DOMAIN walDir' : walDir'[n] \in 0..MaxRecords
    BY TypesOf DEF Unlink, UnlinkFails, Unlinked
<1> QED BY <1>1, <1>2, <1>3, AnswerInv, TypesOf

LEMMA ReturnInv ==
    ASSUME IInv, NEW w \in Workers, Return(w)
    PROVE  IInv'
<1>1. ~At(w, "unlink") /\ NoCall.due = {} /\ NoCall.outcome = "pending"
    BY DEF Return, At, NoCall
<1> QED BY <1>1, NoCallType, OneRequest, TypesOf DEF Return, Goto, Statements

LEMMA CrashInv ==
    ASSUME IInv, Crash
    PROVE  IInv'
<1>1. pc' \in [Workers -> Statements] /\ call' \in [Workers -> Calls]
    BY NoCallType DEF Crash, Statements
<1>2. \A v \in Workers : /\ pc'[v] = "idle" /\ call'[v].due = {} /\ wmMu' # v
                         /\ call'[v].outcome = "pending"
    BY NobodyAssumption DEF Crash, NoCall
<1>3. /\ files' \subseteq DatabaseNames /\ unsaved' = {} /\ nodes' = {} /\ wmMu' = Nobody
      /\ DOMAIN walDir' \subseteq WalNames \cup HostFiles
      /\ \A n \in DOMAIN walDir' : walDir'[n] \in 0..MaxRecords
    BY DEF Crash, IInv, TypeOK
<1>4. TypeOK'
    BY <1>1, <1>2, <1>3 DEF TypeOK, Statements, Calls, At
<1> QED BY <1>1, <1>2, <1>4 DEF IInv, At

\* Every step of a handler, and the end of the daemon, keep the invariant.
LEMMA StepInv == IInv /\ [Next]_vars => IInv'
<1> SUFFICES ASSUME IInv, [Next]_vars PROVE IInv'
    OBVIOUS
<1>1. ASSUME NEW w \in Workers, Handlers(w) PROVE IInv'
    <2>1. CASE CallLookup(w) \/ CallReadDirAll(w) \/ CallCreate(w) \/ CallWrite(w)
               \/ CallRemove(w)
        BY <2>1, CallsInv
    <2>2. CASE LookupInvalid(w) \/ LookupWal(w) \/ LookupDatabase(w)
        BY <2>2, LookupInv
    <2>3. CASE ListFiles(w) \/ ListWals(w)
        BY <2>3, ListInv
    <2>4. CASE LookFails(w) \/ CreateOrWriteFails(w) \/ RemoveRefused(w)
        BY <2>4, FailsInv
    <2>5. CASE CreateWal(w) \/ CreateDatabase(w) \/ WriteWal(w) \/ WriteDatabase(w)
        BY <2>5, CreateWalInv, CreateDatabaseInv, WriteWalInv, WriteDatabaseInv
    <2>6. CASE CheckpointToRemove(w) \/ Unlink(w) \/ UnlinkFails(w) \/ Return(w)
        BY <2>6, CheckpointToRemoveInv, UnlinkInv, ReturnInv
    <2> QED BY <1>1, <2>1, <2>2, <2>3, <2>4, <2>5, <2>6 DEF Handlers
<1>2. CASE UNCHANGED vars
    BY <1>2 DEF vars, IInv, TypeOK, At, ToWal, Logged
<1> QED BY <1>1, <1>2, CrashInv DEF Next

----------------------------------------------------------------------------
(* The theorems                                                            *)

\* Every name is kept where its form says, whatever the requests are and however
\* they overlap (fsx.go:73-252).
THEOREM TypeCorrect == Spec => []TypeOK
<1>1. IInv => TypeOK
    BY DEF IInv
<1> QED BY <1>1, InitInv, StepInv, PTL DEF Spec

\* A removal unlinks a WAL file only when its own database has been saved
\* (wal.go:190-244).
THEOREM RemovalsSaveTheirDatabase == Spec => []RemovalSavesItsDatabase
<1>1. IInv => RemovalSavesItsDatabase
    BY DEF IInv, RemovalSavesItsDatabase
<1> QED BY <1>1, InitInv, StepInv, PTL DEF Spec

\* Between the checkpoint and the unlinking no record reaches the WAL: all that
\* is unlinked has been checkpointed (wal.go:190-244).
THEOREM RemovalsLoseNoRecord == Spec => []RemovesOnlyCheckpointed
<1>1. IInv => RemovesOnlyCheckpointed
    BY DEF IInv, RemovesOnlyCheckpointed
<1> QED BY <1>1, InitInv, StepInv, PTL DEF Spec

----------------------------------------------------------------------------
(* Fsx implements Directory                                                *)

RootNames == files \cup (DOMAIN walDir \cap WalForms)
RootCalls == [w \in Workers |-> AsDirectoryCall(pc[w], call[w])]

\* What a request about a name is for.
For(name) == {name} \ Unserved

\* A request about a name that no handler takes is for nothing that is there.
LEMMA ForIs ==
    ASSUME NEW name \in Names \cup {<< >>}
    PROVE  /\ name \in WalNames \cup DatabaseNames => For(name) = {name}
           /\ name \notin WalNames \cup DatabaseNames => For(name) \cap AllNames = {}
<1>1. << >> \notin AllNames
    BY NamesAssumption, HostFilesAssumption DEF AllNames
<1>2. name \in WalNames \cup DatabaseNames => For(name) = {name}
    BY NamesApart DEF For
<1>3. ASSUME name \in Names, name \notin WalNames \cup DatabaseNames
      PROVE  name \in Unserved
    BY <1>3 DEF WalNames, DatabaseNames, Unserved, AllNames
<1> QED BY <1>1, <1>2, <1>3 DEF For

LEMMA RootNamesType ==
    ASSUME IInv
    PROVE  RootNames \subseteq AllNames
BY NamesApart DEF RootNames, IInv, TypeOK

\* What a request is to the directory at each of its statements.
LEMMA DirectoryCallIs ==
    ASSUME NEW r
    PROVE  /\ AsDirectoryCall("idle", r) = Root!NoCall
           /\ AsDirectoryCall("lookup", r) = Root!Asked("look", For(r.name))
           /\ AsDirectoryCall("list_files", r) = Root!Asked("look", AllNames)
           /\ AsDirectoryCall("list_wals", r)
                  = [Root!Asked("look", WalForms) EXCEPT !.found = r.found]
           /\ AsDirectoryCall("create", r) = Root!Asked("create", For(r.name))
           /\ r.name \in WalNames =>
                  AsDirectoryCall("write", r) = Root!Asked("create", For(r.name))
           /\ r.name \notin WalNames =>
                  AsDirectoryCall("write", r) = Root!Asked("use", For(r.name))
           /\ AsDirectoryCall("remove", r) = Root!Asked("remove", For(r.name))
           /\ AsDirectoryCall("unlink", r) = Root!Asked("remove", For(r.name))
           /\ AsDirectoryCall("return", r) = Root!Answered(r.outcome, r.found)
<1>1. \A op, left : Asked(op, left) = Root!Asked(op, left)
    BY DEF Asked, Root!Asked
<1>2. AsDirectoryCall("idle", r) = Root!NoCall
    BY DEF AsDirectoryCall, Asked, Root!NoCall, Root!Asked
<1>3. /\ AsDirectoryCall("lookup", r) = Asked("look", For(r.name))
      /\ AsDirectoryCall("list_files", r) = Asked("look", AllNames)
      /\ AsDirectoryCall("list_wals", r) = [Asked("look", WalForms) EXCEPT !.found = r.found]
    BY DEF AsDirectoryCall, For
<1>4. /\ AsDirectoryCall("create", r) = Asked("create", For(r.name))
      /\ r.name \in WalNames => AsDirectoryCall("write", r) = Asked("create", For(r.name))
      /\ r.name \notin WalNames => AsDirectoryCall("write", r) = Asked("use", For(r.name))
    BY DEF AsDirectoryCall, For
<1>5. /\ AsDirectoryCall("remove", r) = Asked("remove", For(r.name))
      /\ AsDirectoryCall("unlink", r) = Asked("remove", For(r.name))
    BY DEF AsDirectoryCall, For
<1>6. AsDirectoryCall("return", r) = Root!Answered(r.outcome, r.found)
    BY DEF AsDirectoryCall, Root!Answered
<1> QED BY <1>1, <1>2, <1>3, <1>4, <1>5, <1>6

\* The goroutine w goes to a statement, and its request becomes c.
Moves(w, s, c) == pc' = [pc EXCEPT ![w] = s] /\ call' = [call EXCEPT ![w] = c]

\* A step of one goroutine is a step of one client.
LEMMA OneClient ==
    ASSUME IInv, NEW w \in Workers, NEW s, NEW c, Moves(w, s, c)
    PROVE  /\ RootCalls' = [RootCalls EXCEPT ![w] = AsDirectoryCall(s, c)]
           /\ RootCalls[w] = AsDirectoryCall(pc[w], call[w])
<1>1. \A v \in Workers : /\ pc'[v] = IF v = w THEN s ELSE pc[v]
                         /\ call'[v] = IF v = w THEN c ELSE call[v]
    BY TypesOf DEF Moves
<1>2. RootCalls' = [v \in Workers |-> AsDirectoryCall(pc'[v], call'[v])]
    BY DEF RootCalls
<1>3. \A v \in Workers : RootCalls[v] = AsDirectoryCall(pc[v], call[v])
    BY DEF RootCalls
<1>4. \A v \in Workers : RootCalls'[v] = IF v = w THEN AsDirectoryCall(s, c) ELSE RootCalls[v]
    BY <1>1, <1>2, <1>3
<1>5. RootCalls' = [v \in Workers |-> IF v = w THEN AsDirectoryCall(s, c) ELSE RootCalls[v]]
    BY <1>1, <1>2, <1>3
<1>6. DOMAIN RootCalls = Workers
    BY DEF RootCalls
<1>7. RootCalls' = [RootCalls EXCEPT ![w] = AsDirectoryCall(s, c)]
    BY <1>5, <1>6
<1> QED BY <1>3, <1>7

\* What the directory knows of a request before a step.
LEMMA RequestOf ==
    ASSUME IInv, NEW w \in Workers
    PROVE  LET name == call[w].name IN
           /\ At(w, "idle") => RootCalls[w] = Root!NoCall
           /\ At(w, "lookup") => RootCalls[w] = Root!Asked("look", For(name))
           /\ At(w, "list_files") => RootCalls[w] = Root!Asked("look", AllNames)
           /\ At(w, "list_wals") =>
                  RootCalls[w] = [Root!Asked("look", WalForms) EXCEPT !.found = call[w].found]
           /\ At(w, "create") => RootCalls[w] = Root!Asked("create", For(name))
           /\ At(w, "write") /\ name \in WalNames => RootCalls[w] = Root!Asked("create", For(name))
           /\ At(w, "write") /\ name \notin WalNames => RootCalls[w] = Root!Asked("use", For(name))
           /\ pc[w] \in {"remove", "unlink"} => RootCalls[w] = Root!Asked("remove", For(name))
           /\ At(w, "return") => RootCalls[w] = Root!Answered(call[w].outcome, call[w].found)
<1>1. RootCalls[w] = AsDirectoryCall(pc[w], call[w])
    BY DEF RootCalls
<1> QED BY <1>1, DirectoryCallIs DEF At

\* An answer is one to the client.
LEMMA AnswerStep ==
    ASSUME IInv, NEW w \in Workers, NEW outcome \in {"ok", "error"}, Answer(w, outcome)
    PROVE  RootCalls' = [RootCalls EXCEPT ![w] = Root!Answered(outcome, {})]
<1>1. PICK c : /\ Moves(w, "return", c)
               /\ c.outcome = outcome /\ c.found = {}
    <2> DEFINE c == [call[w] EXCEPT !.outcome = outcome, !.found = {}]
    <2>1. c.outcome = outcome /\ c.found = {}
        BY TypesOf DEF Calls
    <2> QED BY <2>1, AnswerIs DEF Moves
<1>2. AsDirectoryCall("return", c) = Root!Answered(outcome, {})
    BY <1>1, DirectoryCallIs
<1>3. RootCalls' = [RootCalls EXCEPT ![w] = AsDirectoryCall("return", c)]
    BY <1>1, OneClient
<1> QED BY <1>2, <1>3

LEMMA InitStep == Init => Root!Init
<1> SUFFICES ASSUME Init PROVE Root!Init
    OBVIOUS
<1>1. RootNames \in SUBSET (AllNames \ DatabaseNames)
    BY NamesApart DEF Init, RootNames
<1>2. \A w \in Workers : AsDirectoryCall(pc[w], call[w]) = Root!NoCall
    BY DirectoryCallIs DEF Init
<1>3. RootCalls = [w \in Workers |-> Root!NoCall]
    BY <1>2 DEF RootCalls
<1> QED BY <1>1, <1>3 DEF Root!Init, RootNames, RootCalls

\* The calls, each for the names it is about.
LEMMA CallStep ==
    ASSUME IInv, NEW w \in Workers,
           CallLookup(w) \/ CallReadDirAll(w) \/ CallCreate(w) \/ CallWrite(w) \/ CallRemove(w)
    PROVE  Root!Call(w)
<1>1. ASSUME NEW s, NEW name, Call(w, s, name)
      PROVE  /\ RootCalls[w] = Root!NoCall /\ UNCHANGED RootNames
             /\ s = "lookup" => RootCalls' = [RootCalls EXCEPT ![w] = Root!Asked("look", For(name))]
             /\ s = "list_files" => RootCalls' = [RootCalls EXCEPT ![w] = Root!Asked("look", AllNames)]
             /\ s = "create" => RootCalls' = [RootCalls EXCEPT ![w] = Root!Asked("create", For(name))]
             /\ s = "remove" => RootCalls' = [RootCalls EXCEPT ![w] = Root!Asked("remove", For(name))]
             /\ s = "write" =>
                   \E op \in {"create", "use"} :
                       RootCalls' = [RootCalls EXCEPT ![w] = Root!Asked(op, For(name))]
    <2> DEFINE c == [call[w] EXCEPT !.name = name,
                                    !.due = {f \in unsaved : name = Append(f, "wal")}]
    <2>1. Moves(w, s, c)
        BY <1>1, TypesOf DEF Call, Goto, Moves
    <2>2. c.name = name
        BY TypesOf DEF Calls
    <2> HIDE DEF c
    <2>3. RootCalls' = [RootCalls EXCEPT ![w] = AsDirectoryCall(s, c)]
        BY <2>1, OneClient
    <2>4. RootCalls[w] = Root!NoCall
        BY <1>1, RequestOf DEF Call
    <2>5. UNCHANGED RootNames
        BY <1>1 DEF Call, RootNames
    <2> QED BY <2>2, <2>3, <2>4, <2>5, DirectoryCallIs
<1>2. nodes \subseteq Names
    BY TypesOf, NamesApart
<1>3. /\ RootCalls[w] = Root!NoCall /\ UNCHANGED RootNames
      /\ \/ RootCalls' = [RootCalls EXCEPT ![w] = Root!Asked("look", AllNames)]
         \/ \E op \in {"look", "create", "remove", "use"}, n \in Names :
               RootCalls' = [RootCalls EXCEPT ![w] = Root!Asked(op, For(n))]
    <2>1. CASE CallReadDirAll(w)
        BY <1>1, <2>1 DEF CallReadDirAll
    <2>2. CASE CallLookup(w) \/ CallCreate(w) \/ CallRemove(w)
        BY <1>1, <2>2 DEF CallLookup, CallCreate, CallRemove
    <2>3. CASE CallWrite(w)
        <3>1. PICK n \in nodes : Call(w, "write", n)
            BY <2>3 DEF CallWrite
        <3>2. n \in Names
            BY <1>2
        <3> QED BY <1>1, <3>1, <3>2
    <2> QED BY <2>1, <2>2, <2>3
<1>4. Names \subseteq AllNames
    BY NamesApart
<1> QED BY <1>3, <1>4 DEF Root!Call, Root!Becomes, RootNames, RootCalls, For

\* A look at one name sees it as it is.
LEMMA LookupStep ==
    ASSUME IInv, NEW w \in Workers, LookupInvalid(w) \/ LookupWal(w) \/ LookupDatabase(w)
    PROVE  Root!LookAtLast(w)
<1> DEFINE seen == For(call[w].name) \cap RootNames
           c == [call[w] EXCEPT !.found = seen, !.outcome = "ok"]
<1>1. At(w, "lookup") /\ Sees(w, seen)
    <2>1. CASE LookupInvalid(w)
        <3>1. seen = {}
            BY <2>1, TypesOf, ForIs, RootNamesType DEF LookupInvalid, ToWal, ToDatabase, Calls
        <3> QED BY <2>1, <3>1 DEF LookupInvalid
    <2>2. CASE LookupWal(w)
        <3>1. seen = {call[w].name} \cap DOMAIN walDir
            BY <2>2, TypesOf, NamesApart, ForIs DEF LookupWal, ToWal, RootNames, Calls
        <3> QED BY <2>2, <3>1 DEF LookupWal
    <2>3. CASE LookupDatabase(w)
        <3>1. seen = {call[w].name} \cap files
            BY <2>3, TypesOf, NamesApart, ForIs DEF LookupDatabase, ToDatabase, RootNames, Calls
        <3> QED BY <2>3, <3>1 DEF LookupDatabase
    <2> QED BY <2>1, <2>2, <2>3
<1>2. Moves(w, "return", c)
    BY <1>1, TypesOf DEF Sees, Goto, Moves
<1>3. c.found = seen /\ c.outcome = "ok"
    BY TypesOf DEF Calls
<1> HIDE DEF c
<1>4. RootCalls' = [RootCalls EXCEPT ![w] = Root!Answered("ok", seen)]
    <2>1. RootCalls' = [RootCalls EXCEPT ![w] = AsDirectoryCall("return", c)]
        BY <1>2, OneClient
    <2>2. AsDirectoryCall("return", c) = Root!Answered("ok", seen)
        BY <1>3, DirectoryCallIs
    <2> QED BY <2>1, <2>2
<1>5. RootCalls[w] = Root!Asked("look", For(call[w].name))
    BY <1>1, RequestOf
<1>6. UNCHANGED RootNames
    BY <1>1 DEF Sees, RootNames
<1>7. /\ RootCalls[w].op = "look"
      /\ RootCalls[w].found \cup (RootCalls[w].left \cap RootNames) = seen
    BY <1>5 DEF Root!Asked
<1> QED BY <1>4, <1>6, <1>7 DEF Root!LookAtLast, Root!Becomes, RootNames, RootCalls

\* ReadDirAll looks at the names of databases first and at those of WAL files last.
LEMMA ListFilesStep ==
    ASSUME IInv, NEW w \in Workers, ListFiles(w)
    PROVE  Root!LookAtSome(w)
<1> DEFINE c == [call[w] EXCEPT !.found = files]
<1>1. Moves(w, "list_wals", c)
    BY TypesOf DEF ListFiles, Goto, Moves
<1>2. c.found = files
    BY TypesOf DEF Calls
<1> HIDE DEF c
<1>3. RootCalls' = [RootCalls EXCEPT ![w] = AsDirectoryCall("list_wals", c)]
    BY <1>1, OneClient
<1>4. AsDirectoryCall("list_wals", c) = [Root!Asked("look", WalForms) EXCEPT !.found = files]
    BY <1>2, DirectoryCallIs
<1>5. RootCalls[w] = Root!Asked("look", AllNames) /\ UNCHANGED RootNames
    BY RequestOf DEF ListFiles, RootNames
<1>6. AllNames \ (AllNames \ WalForms) = WalForms /\ (AllNames \ WalForms) \cap RootNames = files
    BY TypesOf, NamesApart DEF RootNames
<1>7. RootCalls[w].op = "look" /\ RootCalls[w].left = AllNames /\ RootCalls[w].found = {}
    BY <1>5 DEF Root!Asked
<1>8. (AllNames \ WalForms) \in SUBSET RootCalls[w].left
    BY <1>7
<1>9. RootCalls' = [RootCalls EXCEPT ![w] =
          [Root!Asked("look", RootCalls[w].left \ (AllNames \ WalForms))
              EXCEPT !.found = RootCalls[w].found \cup ((AllNames \ WalForms) \cap RootNames)]]
    <2>1. /\ RootCalls[w].left \ (AllNames \ WalForms) = WalForms
          /\ RootCalls[w].found \cup ((AllNames \ WalForms) \cap RootNames) = files
        BY <1>6, <1>7
    <2> QED BY <1>3, <1>4, <2>1
<1> QED BY <1>5, <1>7, <1>8, <1>9 DEF Root!LookAtSome, Root!Becomes, RootNames, RootCalls

LEMMA ListWalsStep ==
    ASSUME IInv, NEW w \in Workers, ListWals(w)
    PROVE  Root!LookAtLast(w)
<1> DEFINE c == [call[w] EXCEPT !.found = @ \cup ListWALFiles, !.outcome = "ok"]
<1>1. Moves(w, "return", c)
    BY TypesOf DEF ListWals, Goto, Moves
<1>2. ListWALFiles = WalForms \cap RootNames
    BY TypesOf, ListedAreWals, NamesApart DEF RootNames, IInv
<1>3. c.found = call[w].found \cup (WalForms \cap RootNames) /\ c.outcome = "ok"
    BY <1>2, TypesOf DEF Calls
<1> HIDE DEF c
<1>4. RootCalls' = [RootCalls EXCEPT ![w] = AsDirectoryCall("return", c)]
    BY <1>1, OneClient
<1>5. AsDirectoryCall("return", c)
          = Root!Answered("ok", call[w].found \cup (WalForms \cap RootNames))
    BY <1>3, DirectoryCallIs
<1>6. RootCalls[w] = [Root!Asked("look", WalForms) EXCEPT !.found = call[w].found]
      /\ UNCHANGED RootNames
    BY RequestOf DEF ListWals, RootNames
<1>7. /\ RootCalls[w].op = "look" /\ RootCalls[w].left = WalForms
      /\ RootCalls[w].found = call[w].found
    BY <1>6 DEF Root!Asked
<1>8. RootCalls' = [RootCalls EXCEPT ![w] =
          Root!Answered("ok", RootCalls[w].found \cup (RootCalls[w].left \cap RootNames))]
    BY <1>4, <1>5, <1>7
<1> QED BY <1>6, <1>7, <1>8 DEF Root!LookAtLast, Root!Becomes, RootNames, RootCalls

\* An error, and a request that is not allowed, change nothing.
LEMMA RefuseStep ==
    ASSUME IInv, NEW w \in Workers,
           \/ LookFails(w) \/ CreateOrWriteFails(w) \/ RemoveRefused(w) \/ UnlinkFails(w)
    PROVE  Root!Refuse(w)
<1>1. Answer(w, "error") /\ UNCHANGED RootNames
      /\ pc[w] \in {"lookup", "list_files", "list_wals", "create", "write", "remove", "unlink"}
    BY DEF LookFails, CreateOrWriteFails, RemoveRefused, UnlinkFails, RootNames, At
<1>2. RootCalls[w].op \in {"look", "create", "remove", "use"}
    <2>1. CASE At(w, "list_wals")
        <3>1. RootCalls[w] = [Root!Asked("look", WalForms) EXCEPT !.found = call[w].found]
            BY <2>1, RequestOf
        <3> QED BY <3>1 DEF Root!Asked
    <2>2. CASE ~At(w, "list_wals")
        <3>1. \E op \in {"look", "create", "remove", "use"} : \E left :
                  RootCalls[w] = Root!Asked(op, left)
            BY <1>1, <2>2, RequestOf DEF At
        <3> QED BY <3>1 DEF Root!Asked
    <2> QED BY <2>1, <2>2
<1>3. RootCalls' = [RootCalls EXCEPT ![w] = Root!Answered("error", {})]
    BY <1>1, AnswerStep
<1> QED BY <1>1, <1>2, <1>3 DEF Root!Refuse, Root!Becomes, RootNames, RootCalls

\* A file is created in the table or in the directory of the host.
LEMMA CreateStep ==
    ASSUME IInv, NEW w \in Workers, CreateWal(w) \/ CreateDatabase(w) \/ WriteWal(w)
    PROVE  Root!Create(w)
<1> DEFINE name == call[w].name
<1>1. RootCalls[w] = Root!Asked("create", For(name))
    BY RequestOf DEF CreateWal, CreateDatabase, WriteWal, ToWal, At
<1>2. \E outcome \in {"ok", "error"} : Answer(w, outcome)
    BY DEF CreateWal, CreateDatabase, WriteWal
<1>3. \E outcome \in {"ok", "error"} :
          RootCalls' = [RootCalls EXCEPT ![w] = Root!Answered(outcome, {})]
    BY <1>2, AnswerStep
<1>4. RootNames' = RootNames \cup {name} /\ (name \in DatabaseNames => name \notin RootNames)
    <2>1. CASE CreateDatabase(w)
        BY <2>1, TypesOf, NamesApart DEF CreateDatabase, ToDatabase, RootNames
    <2>2. CASE CreateWal(w) \/ WriteWal(w)
        <3>1. DOMAIN walDir' = DOMAIN walDir \cup {name}
            BY <2>2 DEF CreateWal, WriteWal, Written
        <3>2. files' = files /\ name \in WalNames
            BY <2>2 DEF CreateWal, WriteWal, ToWal
        <3> QED BY <3>1, <3>2, NamesApart DEF RootNames
    <2> QED BY <2>1, <2>2
<1>5. RootCalls[w].op = "create" /\ RootCalls[w].left = {name}
    <2>1. For(name) = {name}
        BY TypesOf, ForIs DEF CreateWal, CreateDatabase, WriteWal, ToWal, ToDatabase, Calls
    <2> QED BY <1>1, <2>1 DEF Root!Asked
<1> HIDE DEF name
<1> QED BY <1>3, <1>4, <1>5 DEF Root!Create, Root!Becomes, RootNames, RootCalls

LEMMA UseStep ==
    ASSUME IInv, NEW w \in Workers, WriteDatabase(w)
    PROVE  Root!Use(w)
<1>1. Answer(w, "ok") /\ At(w, "write") /\ call[w].name \notin WalNames /\ UNCHANGED RootNames
    BY NamesApart DEF WriteDatabase, ToDatabase, RootNames
<1>2. RootCalls[w].op = "use"
    <2>1. RootCalls[w] = Root!Asked("use", For(call[w].name))
        BY <1>1, RequestOf
    <2> QED BY <2>1 DEF Root!Asked
<1>3. RootCalls' = [RootCalls EXCEPT ![w] = Root!Answered("ok", {})]
    BY <1>1, AnswerStep
<1> QED BY <1>1, <1>2, <1>3 DEF Root!Use, Root!Becomes, RootNames, RootCalls

\* A checkpoint does not show.
LEMMA CheckpointStep ==
    ASSUME IInv, NEW w \in Workers, CheckpointToRemove(w)
    PROVE  UNCHANGED Root!vars
<1>1. UNCHANGED RootNames
    BY DEF CheckpointToRemove, RootNames
<1>2. /\ \A v \in Workers : call'[v].name = call[v].name /\ call'[v].found = call[v].found
                            /\ call'[v].outcome = call[v].outcome
      /\ \A v \in Workers : pc'[v] = IF v = w THEN "unlink" ELSE pc[v]
    BY TypesOf DEF CheckpointToRemove, Goto, Calls
<1>3. \A v \in Workers : AsDirectoryCall(pc'[v], call'[v]) = AsDirectoryCall(pc[v], call[v])
    <2> SUFFICES ASSUME NEW v \in Workers
                 PROVE  AsDirectoryCall(pc'[v], call'[v]) = AsDirectoryCall(pc[v], call[v])
        OBVIOUS
    <2>1. CASE v = w
        <3>1. pc'[v] = "unlink" /\ pc[v] = "remove"
            BY <1>2, <2>1 DEF CheckpointToRemove, At
        <3>2. AsDirectoryCall(pc'[v], call'[v]) = Root!Asked("remove", For(call'[v].name))
            BY <3>1, DirectoryCallIs
        <3>3. AsDirectoryCall(pc[v], call[v]) = Root!Asked("remove", For(call[v].name))
            BY <3>1, DirectoryCallIs
        <3> QED BY <1>2, <3>2, <3>3
    <2>2. CASE v # w
        <3>1. pc'[v] = pc[v]
            BY <1>2, <2>2
        <3> QED BY <1>2, <3>1 DEF AsDirectoryCall
    <2> QED BY <2>1, <2>2
<1>4. RootCalls' = RootCalls
    BY <1>3 DEF RootCalls
<1> QED BY <1>1, <1>4 DEF Root!vars, RootNames, RootCalls

LEMMA RemoveStep ==
    ASSUME IInv, NEW w \in Workers, Unlink(w)
    PROVE  Root!Remove(w)
<1> DEFINE name == call[w].name
<1>1. RootCalls[w] = Root!Asked("remove", For(name))
    BY RequestOf DEF Unlink, At
<1>2. RootCalls' = [RootCalls EXCEPT ![w] = Root!Answered("ok", {})]
    BY AnswerStep DEF Unlink
<1>3. name \in WalNames /\ name \in DOMAIN walDir
    BY DEF Unlink, IInv, ToWal
<1>4. /\ RootCalls[w].op = "remove"
      /\ name \in (RootCalls[w].left \cap RootNames) \ DatabaseNames
    <2>1. For(name) = {name}
        BY <1>3, TypesOf, ForIs DEF Calls
    <2>2. name \in RootNames \ DatabaseNames
        BY <1>3, NamesApart DEF RootNames
    <2> QED BY <1>1, <2>1, <2>2 DEF Root!Asked
<1>5. RootNames' = RootNames \ {name}
    <2>1. DOMAIN walDir' = DOMAIN walDir \ {name} /\ files' = files
        BY DEF Unlink, Unlinked
    <2> QED BY <1>3, <2>1, TypesOf, NamesApart DEF RootNames
<1> HIDE DEF name
<1> QED BY <1>2, <1>4, <1>5 DEF Root!Remove, Root!Becomes, RootNames, RootCalls

LEMMA ReturnStep ==
    ASSUME IInv, NEW w \in Workers, Return(w)
    PROVE  Root!Return(w)
<1>1. RootCalls[w].op = "answered" /\ UNCHANGED RootNames
    <2>1. RootCalls[w] = Root!Answered(call[w].outcome, call[w].found)
        BY RequestOf DEF Return
    <2>2. RootCalls[w].op = "answered"
        BY <2>1 DEF Root!Answered
    <2> QED BY <2>2 DEF Return, RootNames
<1>2. RootCalls' = [RootCalls EXCEPT ![w] = AsDirectoryCall("idle", NoCall)]
    <2>1. Moves(w, "idle", NoCall)
        BY DEF Return, Goto, Moves
    <2> QED BY <2>1, OneClient
<1> QED BY <1>1, <1>2, DirectoryCallIs DEF Root!Return, Root!Becomes, RootNames, RootCalls

LEMMA CrashStep == IInv /\ Crash => Root!Crash
<1> SUFFICES ASSUME IInv, Crash PROVE Root!Crash
    OBVIOUS
<1>1. UNCHANGED RootNames
    BY DEF Crash, RootNames
<1>2. \A w \in Workers : AsDirectoryCall(pc'[w], call'[w]) = Root!NoCall
    BY DirectoryCallIs DEF Crash
<1>3. RootCalls' = [w \in Workers |-> Root!NoCall]
    BY <1>2 DEF RootCalls
<1> QED BY <1>1, <1>3 DEF Root!Crash, RootNames, RootCalls

\* Every step is one of the directory's, or does not show.
LEMMA DirectoryStep == IInv /\ [Next]_vars => [Root!Next]_Root!vars
<1> SUFFICES ASSUME IInv, [Next]_vars PROVE Root!Next \/ UNCHANGED Root!vars
    OBVIOUS
<1>1. ASSUME NEW w \in Workers, Handlers(w)
      PROVE  \/ Root!Call(w) \/ Root!LookAtSome(w) \/ Root!LookAtLast(w)
             \/ Root!Create(w) \/ Root!Remove(w) \/ Root!Use(w) \/ Root!Refuse(w)
             \/ Root!Return(w) \/ UNCHANGED Root!vars
    <2>1. CASE CallLookup(w) \/ CallReadDirAll(w) \/ CallCreate(w) \/ CallWrite(w)
               \/ CallRemove(w)
        BY <2>1, CallStep
    <2>2. CASE LookupInvalid(w) \/ LookupWal(w) \/ LookupDatabase(w)
        BY <2>2, LookupStep
    <2>3. CASE ListFiles(w) \/ ListWals(w)
        BY <2>3, ListFilesStep, ListWalsStep
    <2>4. CASE LookFails(w) \/ CreateOrWriteFails(w) \/ RemoveRefused(w) \/ UnlinkFails(w)
        BY <2>4, RefuseStep
    <2>5. CASE CreateWal(w) \/ CreateDatabase(w) \/ WriteWal(w)
        BY <2>5, CreateStep
    <2>6. CASE WriteDatabase(w) \/ CheckpointToRemove(w) \/ Unlink(w) \/ Return(w)
        BY <2>6, UseStep, CheckpointStep, RemoveStep, ReturnStep
    <2> QED BY <1>1, <2>1, <2>2, <2>3, <2>4, <2>5, <2>6 DEF Handlers
<1>2. CASE UNCHANGED vars
    BY <1>2 DEF vars, Root!vars
<1> QED BY <1>1, <1>2, CrashStep DEF Next, Root!Next

\* The table and the directory of the host are one directory to all who use them
\* at the same time (fsx.go:142-168, wal.go:88-152).
THEOREM DirectoryImplemented == Spec => ImplementsDirectory
<1>1. Spec => []IInv
    BY InitInv, StepInv, PTL DEF Spec
<1> QED BY <1>1, InitStep, DirectoryStep, PTL DEF Spec, ImplementsDirectory, Root!Spec
============================================================================
