--------------------------- MODULE ManagerProofs ---------------------------
(***************************************************************************)
(* Proofs about Manager, for any number of goroutines, writes, versions    *)
(* and crashes.  The invariant has a part for each thing that must be      *)
(* known: who has the mutex, what the variables hold, which writes are     *)
(* saved, and what a write knows of the head, SizeOf of the sizes there    *)
(* have been, and a read of what it has yet to fetch.                      *)
(***************************************************************************)
EXTENDS Manager, NumberLemmas, TLAPS

Places == Waiting \cup Draining \cup Exclusive \cup Shared \cup Unlocked

\* The goroutines at the statements under the mutex are those that have it.
LockInv ==
    /\ mu \in [writer : Workers \cup {Nobody}, readers : SUBSET Workers]
    /\ pc \in [Workers -> Places]
    /\ \A w \in Workers :
          /\ pc[w] \in Draining \cup Exclusive <=> mu.writer = w
          /\ pc[w] \in Exclusive => mu.readers = {}
          /\ pc[w] \in Shared <=> w \in mu.readers

----------------------------------------------------------------------------
(* The mutex                                                               *)

\* Under the mutex there is one goroutine.
LEMMA OneWriter ==
    ASSUME LockInv, NEW w \in Workers, NEW other \in Workers,
           pc[w] \in Exclusive, pc[other] \in Exclusive \cup Draining \cup Shared
    PROVE  other = w
<1>1. mu.writer = w /\ mu.readers = {}
    BY DEF LockInv
<1>2. pc[other] \in Shared => other \in mu.readers
    BY DEF LockInv
<1>3. pc[other] \in Exclusive \cup Draining => mu.writer = other
    BY DEF LockInv
<1> QED BY <1>1, <1>2, <1>3

\* A step from one statement to another with the same right to the mutex.
LEMMA GotoLock ==
    ASSUME LockInv, NEW w \in Workers, NEW place \in Places, Goto(w, place), UNCHANGED mu,
           place \in Draining \cup Exclusive <=> pc[w] \in Draining \cup Exclusive,
           place \in Exclusive => mu.readers = {},
           place \in Shared <=> pc[w] \in Shared
    PROVE  LockInv'
<1>1. pc'[w] = place /\ \A v \in Workers \ {w} : pc'[v] = pc[v]
    BY DEF Goto, LockInv
<1>2. pc' \in [Workers -> Places]
    BY DEF Goto, LockInv
<1>3. ASSUME NEW v \in Workers
      PROVE  /\ pc'[v] \in Draining \cup Exclusive <=> mu'.writer = v
             /\ pc'[v] \in Exclusive => mu'.readers = {}
             /\ pc'[v] \in Shared <=> v \in mu'.readers
    <2>1. CASE v = w
        BY <2>1, <1>1 DEF LockInv
    <2>2. CASE v # w
        BY <2>2, <1>1 DEF LockInv
    <2> QED BY <2>1, <2>2
<1> QED BY <1>2, <1>3 DEF LockInv

\* Which goroutines the return of w lets in.
LEMMA AdmittedType ==
    ASSUME LockInv, NEW w \in Workers
    PROVE  /\ Admitted(w) \subseteq Workers \ {w}
           /\ \A r \in Admitted(w) : pc[r] = "read" /\ mu.writer = w
<1>1. \A r \in Admitted(w) : r \in Workers /\ pc[r] = "read" /\ mu.writer = w
    BY DEF Admitted, At
<1>2. mu.writer = w => pc[w] \in Draining \cup Exclusive
    BY DEF LockInv
<1>3. "read" \notin Draining \cup Exclusive
    BY DEF Draining, Exclusive
<1> QED BY <1>1, <1>2, <1>3

\* A return gives back what the call has locked.
LEMMA ReturnLock ==
    ASSUME LockInv, NEW w \in Workers, Return(w)
    PROVE  LockInv'
<1> DEFINE writer == IF mu.writer = w THEN Nobody ELSE mu.writer
           readers == (mu.readers \ {w}) \cup Admitted(w)
<1>1. mu' = [writer |-> writer, readers |-> readers]
    BY DEF Return
<1>2. writer \in Workers \cup {Nobody} /\ readers \in SUBSET Workers
    BY AdmittedType DEF LockInv
<1>3. mu' \in [writer : Workers \cup {Nobody}, readers : SUBSET Workers]
    BY <1>1, <1>2
<1>4. mu'.writer = writer /\ mu'.readers = readers
    BY <1>1
<1>5. ASSUME NEW v \in Workers
      PROVE  pc'[v] = IF v = w THEN "idle" ELSE IF v \in Admitted(w) THEN "read_head" ELSE pc[v]
    BY DEF Return
<1>6. pc' = [v \in Workers |-> pc'[v]]
    BY DEF Return
<1>7. ASSUME NEW v \in Workers
      PROVE  /\ pc'[v] \in Places
             /\ pc'[v] \in Draining \cup Exclusive <=> mu'.writer = v
             /\ pc'[v] \in Exclusive => mu'.readers = {}
             /\ pc'[v] \in Shared <=> v \in mu'.readers
    <2>1. CASE v = w
        <3>1. "idle" \in Places /\ "idle" \notin Draining \cup Exclusive \cup Shared
            BY DEF Places, Unlocked, Sizing, Draining, Exclusive, Shared
        <3>2. writer # w /\ w \notin readers
            BY AdmittedType, NobodyAssumption
        <3> QED BY <2>1, <3>1, <3>2, <1>4, <1>5
    <2>2. CASE v \in Admitted(w)
        <3>1. /\ "read_head" \in Places /\ "read_head" \in Shared
              /\ "read_head" \notin Draining \cup Exclusive
            BY DEF Places, Unlocked, Sizing, Draining, Exclusive, Shared
        <3>2. v # w /\ writer = Nobody /\ v \in readers
            BY <2>2, AdmittedType
        <3> QED BY <2>2, <3>1, <3>2, <1>4, <1>5, NobodyAssumption
    <2>3. CASE v # w /\ v \notin Admitted(w)
        <3>1. pc'[v] = pc[v] /\ pc[v] \in Places
            BY <2>3, <1>5 DEF LockInv
        <3>2. writer = v <=> mu.writer = v
            BY <2>3, NobodyAssumption
        <3>3. v \in readers <=> v \in mu.readers
            BY <2>3
        <3>4. pc[v] \in Exclusive => readers = {}
            <4>1. pc[v] \in Exclusive => mu.writer = v /\ mu.readers = {}
                BY DEF LockInv
            <4>2. mu.writer = v => Admitted(w) = {}
                BY <2>3, AdmittedType
            <4> QED BY <4>1, <4>2
        <3>5. /\ pc[v] \in Draining \cup Exclusive <=> mu.writer = v
              /\ pc[v] \in Shared <=> v \in mu.readers
            BY DEF LockInv
        <3> QED BY <3>1, <3>2, <3>3, <3>4, <3>5, <1>4
    <2> QED BY <2>1, <2>2, <2>3
<1>8. pc' \in [Workers -> Places]
    BY <1>6, <1>7
<1> HIDE DEF writer, readers
<1> QED BY <1>3, <1>7, <1>8 DEF LockInv

\* A writer that announces itself: no other is there, and nobody is admitted.
LEMMA AnnounceLock ==
    ASSUME LockInv, NEW w \in Workers, NEW place \in Draining,
           pc[w] \in Waiting, Announce(w), Goto(w, place)
    PROVE  LockInv'
<1>1. mu.writer = Nobody /\ mu' = [mu EXCEPT !.writer = w]
    BY DEF Announce
<1>2. /\ mu' \in [writer : Workers \cup {Nobody}, readers : SUBSET Workers]
      /\ mu'.writer = w /\ mu'.readers = mu.readers
    BY <1>1 DEF LockInv
<1>3. pc'[w] = place /\ \A v \in Workers \ {w} : pc'[v] = pc[v]
    BY DEF Goto, LockInv
<1>4. place \in Places /\ place \notin Exclusive \cup Shared
    BY DEF Places, Draining, Exclusive, Shared
<1>5. pc' \in [Workers -> Places]
    BY <1>4 DEF Goto, LockInv
<1>6. pc[w] \notin Shared
    BY DEF Waiting, Shared
<1>7. ASSUME NEW v \in Workers
      PROVE  /\ pc'[v] \in Draining \cup Exclusive <=> mu'.writer = v
             /\ pc'[v] \in Exclusive => mu'.readers = {}
             /\ pc'[v] \in Shared <=> v \in mu'.readers
    <2>1. CASE v = w
        BY <2>1, <1>2, <1>3, <1>4, <1>6 DEF LockInv
    <2>2. CASE v # w
        <3>1. pc[v] \notin Draining \cup Exclusive
            BY <1>1, NobodyAssumption DEF LockInv
        <3> QED BY <2>2, <3>1, <1>2, <1>3 DEF LockInv
    <2> QED BY <2>1, <2>2
<1> QED BY <1>2, <1>5, <1>7 DEF LockInv

\* A reader gets in only if no writer is there or waits.
LEMMA CallReadLock ==
    ASSUME LockInv, NEW w \in Workers, CallRead(w)
    PROVE  LockInv'
<1>1. CASE mu.writer = Nobody /\ mu' = [mu EXCEPT !.readers = @ \cup {w}] /\ Goto(w, "read_head")
    <2>1. /\ mu' \in [writer : Workers \cup {Nobody}, readers : SUBSET Workers]
          /\ mu'.writer = Nobody /\ mu'.readers = mu.readers \cup {w}
        BY <1>1 DEF LockInv
    <2>2. pc'[w] = "read_head" /\ \A v \in Workers \ {w} : pc'[v] = pc[v]
        BY <1>1 DEF Goto, LockInv
    <2>3. "read_head" \in Shared /\ "read_head" \in Places
          /\ "read_head" \notin Draining \cup Exclusive
        BY DEF Places, Draining, Exclusive, Shared
    <2>4. pc' \in [Workers -> Places]
        BY <1>1, <2>3 DEF Goto, LockInv
    <2>5. \A v \in Workers : pc[v] \notin Draining \cup Exclusive
        BY <1>1, NobodyAssumption DEF LockInv
    <2>6. ASSUME NEW v \in Workers
          PROVE  /\ pc'[v] \in Draining \cup Exclusive <=> mu'.writer = v
                 /\ pc'[v] \in Exclusive => mu'.readers = {}
                 /\ pc'[v] \in Shared <=> v \in mu'.readers
        <3>1. CASE v = w
            BY <3>1, <2>1, <2>2, <2>3, NobodyAssumption
        <3>2. CASE v # w
            BY <3>2, <2>1, <2>2, <2>5, NobodyAssumption DEF LockInv
        <3> QED BY <3>1, <3>2
    <2> QED BY <2>1, <2>4, <2>6 DEF LockInv
<1>2. CASE Goto(w, "read") /\ UNCHANGED mu
    <2>1. pc[w] = "idle"
        BY DEF CallRead, At
    <2> QED BY <1>2, <2>1, GotoLock
            DEF Places, Waiting, Draining, Exclusive, Shared, Unlocked, Sizing
<1> QED BY <1>1, <1>2 DEF CallRead

\* The actions that are a return, those that do nothing else first.
QuietReturns(w) ==
    \/ RefuseWrite(w) \/ WriteFails(w) \/ RefuseCheckpoint(w) \/ RollBack(w)
    \/ ReadReturns(w) \/ ReadFails(w) \/ SizeReturns(w)
Returns(w) ==
    \/ QuietReturns(w)
    \/ AppendWrite(w) \/ PutFails(w) \/ CommitUnacknowledged(w) \/ DeleteActive(w)

\* Every step keeps the discipline of the mutex.
LEMMA NextLock == ASSUME LockInv, [Next]_vars PROVE LockInv'
<1> USE DEF Places, Waiting, Draining, Exclusive, Shared, Unlocked, Sizing
<1>1. ASSUME NEW w \in Workers, Returns(w) PROVE LockInv'
    <2>1. Return(w)
        BY <1>1 DEF Returns, QuietReturns, RefuseWrite, AppendWrite, WriteFails,
               RefuseCheckpoint, PutFails, CommitUnacknowledged, RollBack, DeleteActive, ReadReturns,
               ReadFails, SizeReturns
    <2> QED BY <2>1, ReturnLock
<1>2. ASSUME NEW w \in Workers, Announces(w) PROVE LockInv'
    BY <1>2, AnnounceLock DEF Announces, AnnounceWrite, AnnounceCheckpoint, At
<1>3. ASSUME NEW w \in Workers, Calls(w) PROVE LockInv'
    <2>1. CASE CallRead(w)
        BY <2>1, CallReadLock
    <2>2. CASE CallWrite(w)
        BY <2>2, GotoLock DEF CallWrite, At
    <2>3. CASE CallCheckpoint(w)
        BY <2>3, GotoLock DEF CallCheckpoint, At
    <2>4. CASE CallSizeOf(w)
        BY <2>4, GotoLock DEF CallSizeOf, At
    <2> QED BY <1>3, <2>1, <2>2, <2>3, <2>4 DEF Calls
<1>4. ASSUME NEW w \in Workers, Statements(w), ~Returns(w) PROVE LockInv'
    <2>1. CASE LockToWrite(w)
        BY <2>1, GotoLock DEF LockToWrite, ReadersGone, At
    <2>2. CASE LockToCheckpoint(w)
        BY <2>2, GotoLock DEF LockToCheckpoint, ReadersGone, At
    <2>3. CASE CheckWritable(w) \/ HeadQueryFails(w) \/ FindActive(w)
        <3>1. mu.readers = {}
            BY <2>3 DEF CheckWritable, HeadQueryFails, FindActive, At, LockInv
        <3> QED BY <2>3, <3>1, GotoLock DEF CheckWritable, HeadQueryFails, FindActive, At
    <2>4. CASE InsertVersion(w) \/ PutObject(w) \/ Commit(w)
        <3>1. mu.readers = {}
            BY <2>4 DEF InsertVersion, PutObject, Commit, At, LockInv
        <3> QED BY <2>4, <3>1, GotoLock DEF InsertVersion, PutObject, Commit, At
    <2>5. CASE ReadHead(w)
        <3>1. PICK place \in {"read_active", "read_layer"} : Goto(w, place)
            BY <2>5 DEF ReadHead
        <3> QED BY <2>5, <3>1, GotoLock DEF ReadHead, At
    <2>6. CASE ReadVersionedLayer(w) \/ ReadMemtable(w) \/ ReadRows(w)
        BY <2>6, GotoLock DEF ReadVersionedLayer, ReadMemtable, ReadRows, At
    <2>7. CASE Fetch(w)
        BY <2>7 DEF Fetch, LockInv
    <2>8. CASE SizeFromMemtable(w)
        BY <2>8, GotoLock DEF SizeFromMemtable, At
    <2>9. CASE SizeRaces(w)
        BY <2>9, GotoLock DEF SizeRaces, RacesWith, At
    <2>10. CASE SizeFromDatabase(w) \/ SizeFromLayer(w)
        BY <2>10, GotoLock DEF SizeFromDatabase, SizeFromLayer, At
    <2> QED BY <1>4, <2>1, <2>2, <2>3, <2>4, <2>5, <2>6, <2>7, <2>8, <2>9, <2>10
            DEF Statements, Returns, QuietReturns
<1>5. CASE SetHead \/ DeleteHead \/ UNCHANGED vars
    BY <1>5 DEF SetHead, DeleteHead, vars, program, LockInv
<1>6. CASE Crash
    <2>1. mu'.writer = Nobody /\ mu'.readers = {}
        BY <1>6 DEF Crash
    <2>2. \A w \in Workers : pc'[w] = "idle"
        BY <1>6 DEF Crash
    <2> QED BY <1>6, <2>1, <2>2, NobodyAssumption DEF Crash, LockInv
<1> QED BY <1>1, <1>2, <1>3, <1>4, <1>5, <1>6 DEF Next, Steps

----------------------------------------------------------------------------
(* The types                                                               *)

Locals == [version : 0..MaxVersions, upTo : Nat, layer : Nat, rows : SUBSET Nat,
           seen : SUBSET Writes, size : 0..MaxEnd, unpinned : BOOLEAN, spoiled : BOOLEAN]
LayerRow == [version : 1..MaxVersions, writes : Seq(Writes),
             acknowledged : BOOLEAN, content : SUBSET Writes]

\* The active layers: the map has the last one or none, a write that appends has
\* found one there, and what a call keeps of layers and rows is among them.
HeapInv ==
    /\ ends \in Seq(Ends)
    /\ actives \in Seq(Seq(Writes)) /\ memtable \in {NoLayer, Len(actives)}
    /\ \A layer \in DOMAIN actives : Range(actives[layer]) \subseteq 1..writes
    /\ \A w \in Workers :
          /\ At(w, "write_append") => memtable # NoLayer
          /\ call[w].upTo \in {NoLayer} \cup DOMAIN layers
          /\ call[w].layer \in {NoLayer} \cup DOMAIN actives
          /\ call[w].rows \subseteq DOMAIN layers
          /\ pc[w] \notin {"read_active", "read_rows", "read_fetch"} => call[w].upTo = NoLayer

\* What the variables hold, and the object that a layer names is stored before
\* the layer is.
DataInv ==
    /\ writes \in 0..MaxWrites /\ lost \subseteq 1..writes /\ crashes \in 0..MaxCrashes
    /\ versionSeq \in 0..MaxVersions /\ head \in 0..MaxVersions
    /\ Active \in Seq(Writes) /\ Range(Active) \subseteq 1..writes
    /\ DOMAIN objects \subseteq 1..versionSeq
    /\ \A v \in DOMAIN objects : Range(objects[v]) \subseteq Writes
    /\ layers \in Seq(LayerRow)
    /\ \A i \in DOMAIN layers :
          layers[i].version \in DOMAIN objects /\ Range(layers[i].writes) \subseteq 1..writes
    /\ call \in [Workers -> Locals]
    /\ \A w \in Workers :
          /\ At(w, "put") => call[w].version \in 1..versionSeq
          /\ At(w, "commit") => call[w].version \in DOMAIN objects

data == <<Active, versionSeq, layers, objects, ends, writes, lost, crashes>>

\* What stays if what it is made of does.
LEMMA SameActive == UNCHANGED active => Active' = Active
BY DEF active, Active, Chunks

LEMMA SameHistory == UNCHANGED history => UNCHANGED <<ends, writes, lost, crashes>>
BY DEF history, writes

\* The elements of a sequence with one more.
LEMMA RangeAppend ==
    ASSUME NEW S, NEW s \in Seq(S), NEW x \in S
    PROVE  /\ Append(s, x) \in Seq(S)
           /\ DOMAIN Append(s, x) = DOMAIN s \cup {Len(s) + 1}
           /\ Len(Append(s, x)) = Len(s) + 1
           /\ \A i \in DOMAIN s : Append(s, x)[i] = s[i]
           /\ Append(s, x)[Len(s) + 1] = x
           /\ Range(Append(s, x)) = Range(s) \cup {x}
<1>1. /\ Append(s, x) \in Seq(S)
      /\ DOMAIN Append(s, x) = DOMAIN s \cup {Len(s) + 1}
      /\ Len(Append(s, x)) = Len(s) + 1
      /\ \A i \in DOMAIN s : Append(s, x)[i] = s[i]
      /\ Append(s, x)[Len(s) + 1] = x
    OBVIOUS
<1>2. Range(Append(s, x)) = Range(s) \cup {x}
    BY <1>1 DEF Range
<1> QED BY <1>1, <1>2

\* And with another element in a place.
LEMMA ReplaceAt ==
    ASSUME NEW S, NEW s \in Seq(S), NEW k \in DOMAIN s, NEW x \in S
    PROVE  /\ [s EXCEPT ![k] = x] \in Seq(S)
           /\ DOMAIN [s EXCEPT ![k] = x] = DOMAIN s
           /\ Len([s EXCEPT ![k] = x]) = Len(s)
           /\ \A i \in DOMAIN s : [s EXCEPT ![k] = x][i] = IF i = k THEN x ELSE s[i]
OBVIOUS

\* The writes in the layers have been made.
LEMMA CommittedType ==
    ASSUME DataInv
    PROVE  Committed \subseteq 1..writes /\ 1..writes \subseteq Writes /\ Surviving \subseteq Writes
<1>1. Committed \subseteq 1..writes
    BY DEF DataInv, Committed, Seen
<1>2. writes \in Nat /\ writes <= MaxWrites
    BY LimitsAssumption DEF DataInv
<1>3. 1..writes \subseteq Writes
    BY <1>2, LimitsAssumption DEF Writes
<1> QED BY <1>1, <1>3 DEF Surviving

\* A return is a return of one call, and lets waiting readers go on.
LEMMA ReturnEffect ==
    ASSUME LockInv, HeapInv, DataInv, NEW w \in Workers, Return(w)
    PROVE  /\ call' \in [Workers -> Locals]
           /\ \A v \in Workers : call'[v] = IF v = w THEN NoLocals ELSE call[v]
           /\ \A v \in Workers : pc'[v] \notin {"idle", "read_head"} =>
                  v # w /\ pc'[v] = pc[v] /\ call'[v] = call[v]
<1>1. NoLocals \in Locals
    BY LimitsAssumption DEF NoLocals, Locals, NoVersion, NoLayer
<1>2. call' = [call EXCEPT ![w] = NoLocals]
    BY DEF Return
<1>3. call' \in [Workers -> Locals]
    BY <1>1, <1>2 DEF DataInv
<1>4. ASSUME NEW v \in Workers
      PROVE  pc'[v] = IF v = w THEN "idle" ELSE IF v \in Admitted(w) THEN "read_head" ELSE pc[v]
    BY DEF Return
<1>5. \A v \in Workers : call'[v] = IF v = w THEN NoLocals ELSE call[v]
    BY <1>2 DEF DataInv
<1> QED BY <1>3, <1>4, <1>5

\* A step that leaves the data alone and puts no call further in a checkpoint.
LEMMA DataStep ==
    ASSUME DataInv, UNCHANGED data, head' \in 0..MaxVersions,
           call' \in [Workers -> Locals],
           \A v \in Workers : pc'[v] \in {"put", "commit"} =>
               pc'[v] = pc[v] /\ call'[v].version = call[v].version
    PROVE  DataInv'
<1>1. \A v \in Workers :
          /\ At(v, "put")' => call'[v].version \in 1..versionSeq
          /\ At(v, "commit")' => call'[v].version \in DOMAIN objects
    BY DEF DataInv, At
<1> QED BY <1>1 DEF DataInv, data, At

\* A step of w to another statement leaves the others where they are.
LEMMA GotoEffect ==
    ASSUME LockInv, NEW w \in Workers, NEW place, Goto(w, place)
    PROVE  pc'[w] = place /\ \A v \in Workers \ {w} : pc'[v] = pc[v]
BY DEF Goto, LockInv

\* A write puts its number on top of the active layer.
LEMMA AppendEffect ==
    ASSUME LockInv, HeapInv, DataInv, NEW w \in Workers, AppendWrite(w)
    PROVE  /\ writes \in Nat /\ writes' = writes + 1 /\ writes + 1 \in Writes
           /\ Active' = Append(Active, writes + 1)
           /\ memtable = Len(actives) /\ memtable \in DOMAIN actives /\ memtable # NoLayer
           /\ memtable' = memtable
           /\ actives' = [actives EXCEPT ![memtable] = Append(Active, writes + 1)]
           /\ \E end \in Ends : ends' = Append(ends, end)
           /\ UNCHANGED <<versionSeq, layers, objects, head, lost, crashes>>
           /\ Return(w)
<1>1. /\ memtable # NoLayer /\ memtable = Len(actives) /\ actives \in Seq(Seq(Writes))
      /\ ends \in Seq(Ends)
    BY DEF HeapInv, AppendWrite
<1>2. memtable \in DOMAIN actives
    BY <1>1 DEF NoLayer
<1>3. Active = actives[memtable]
    BY <1>1 DEF Active, Chunks
<1>4. /\ actives' = [actives EXCEPT ![memtable] = Append(Active, writes + 1)]
      /\ memtable' = memtable
    BY <1>3 DEF AppendWrite
<1>5. Active' = actives'[memtable]
    BY <1>1, <1>4 DEF Active, Chunks
<1>6. actives'[memtable] = Append(Active, writes + 1)
    BY <1>2, <1>4
<1>7. PICK end \in Ends : ends' = Append(ends, end)
    BY DEF AppendWrite
<1>8. Len(ends') = Len(ends) + 1 /\ Len(ends) \in Nat
    BY <1>1, <1>7
<1>9. writes \in Nat /\ writes' = writes + 1
    BY <1>8 DEF writes
<1>10. writes + 1 \in Writes
    BY <1>9, LimitsAssumption DEF AppendWrite, Writes
<1> QED BY <1>1, <1>2, <1>4, <1>5, <1>6, <1>7, <1>9, <1>10 DEF AppendWrite, stored

\* A new active layer has no chunk, like none.
LEMMA FindEffect ==
    ASSUME HeapInv, NEW w \in Workers, FindActive(w)
    PROVE  /\ Active' = Active
           /\ memtable' = Len(actives') /\ memtable' # NoLayer /\ actives' \in Seq(Seq(Writes))
           /\ Len(actives) <= Len(actives')
           /\ \A layer \in DOMAIN actives' :
                  actives'[layer] = IF layer \in DOMAIN actives THEN actives[layer] ELSE << >>
           /\ DOMAIN actives \subseteq DOMAIN actives'
<1>1. actives \in Seq(Seq(Writes)) /\ memtable \in {NoLayer, Len(actives)}
    BY DEF HeapInv
<1>2. CASE memtable = NoLayer
    <2>1. actives' = Append(actives, << >>) /\ memtable' = Len(actives) + 1
        BY <1>2 DEF FindActive
    <2>2. << >> \in Seq(Writes)
        OBVIOUS
    <2>3. /\ actives' \in Seq(Seq(Writes))
          /\ DOMAIN actives' = DOMAIN actives \cup {Len(actives) + 1}
          /\ Len(actives') = Len(actives) + 1
          /\ \A i \in DOMAIN actives : actives'[i] = actives[i]
          /\ actives'[Len(actives) + 1] = << >>
        BY <1>1, <2>1, <2>2, RangeAppend
    <2>4. Len(actives) \in Nat /\ Len(actives) + 1 \notin DOMAIN actives
        BY <1>1
    <2>5. memtable' # NoLayer
        BY <2>1, <2>4 DEF NoLayer
    <2>6. Active' = << >> /\ Active = << >>
        BY <1>2, <2>1, <2>3, <2>5 DEF Active, Chunks
    <2> QED BY <2>1, <2>3, <2>4, <2>5, <2>6
<1>3. CASE memtable # NoLayer
    <2>1. memtable' = memtable /\ actives' = actives
        BY <1>3 DEF FindActive, active
    <2>2. Active' = Active
        BY <2>1 DEF Active, Chunks
    <2>3. Len(actives) \in Nat
        BY <1>1
    <2> QED BY <1>1, <1>3, <2>1, <2>2, <2>3
<1> QED BY <1>2, <1>3

\* The chunks of the layer that a call has at hand, and the row it fetches next.
LEMMA ChunksType ==
    ASSUME HeapInv, NEW w \in Workers
    PROVE  Range(Chunks(call[w].layer)) \in SUBSET (1..writes)
<1>1. CASE call[w].layer = NoLayer
    BY <1>1 DEF Chunks, Range
<1>2. CASE call[w].layer # NoLayer
    BY <1>2 DEF Chunks, HeapInv
<1> QED BY <1>1, <1>2

LEMMA NextRow ==
    ASSUME HeapInv, DataInv, NEW w \in Workers, call[w].rows # {}
    PROVE  Min(call[w].rows) \in call[w].rows /\ Min(call[w].rows) \in DOMAIN layers
<1>1. call[w].rows \subseteq DOMAIN layers /\ DOMAIN layers \subseteq Nat
    BY DEF HeapInv, DataInv
<1>2. \E x \in call[w].rows : \A y \in call[w].rows : x <= y
    BY <1>1, NatHasMin
<1>3. Min(call[w].rows) \in call[w].rows
    BY <1>2 DEF Min
<1> QED BY <1>1, <1>3

\* op head delete marks the writes, and changes no other local.
LEMMA HeadEffect ==
    ASSUME DataInv, NEW v \in Workers, DeleteHead
    PROVE  /\ call'[v] \in Locals
           /\ call'[v].unpinned = (call[v].unpinned \/ pc[v] \in Writing)
           /\ call'[v].version = call[v].version /\ call'[v].upTo = call[v].upTo
           /\ call'[v].layer = call[v].layer /\ call'[v].rows = call[v].rows
           /\ call'[v].seen = call[v].seen /\ call'[v].size = call[v].size
           /\ call'[v].spoiled = call[v].spoiled
<1> DEFINE b == call[v].unpinned \/ pc[v] \in Writing
<1>1. b \in BOOLEAN
    BY DEF DataInv, Locals
<1>2. call'[v] = [call[v] EXCEPT !.unpinned = b]
    BY DEF DeleteHead
<1> HIDE DEF b
<1>3. /\ call'[v] \in Locals /\ call'[v].unpinned = b
      /\ call'[v].version = call[v].version /\ call'[v].upTo = call[v].upTo
      /\ call'[v].layer = call[v].layer /\ call'[v].rows = call[v].rows
      /\ call'[v].seen = call[v].seen /\ call'[v].size = call[v].size
      /\ call'[v].spoiled = call[v].spoiled
    BY <1>1, <1>2 DEF DataInv, Locals
<1> QED BY <1>3 DEF b

\* The statements that change no data and go on to another.
Quiet(w) ==
    \/ Calls(w) \/ Announces(w)
    \/ LockToWrite(w) \/ LockToCheckpoint(w)
    \/ CheckWritable(w) \/ HeadQueryFails(w) \/ FindActive(w)
    \/ ReadHead(w) \/ ReadVersionedLayer(w) \/ ReadMemtable(w) \/ ReadRows(w) \/ Fetch(w)
    \/ SizeFromMemtable(w) \/ SizeRaces(w) \/ SizeFromDatabase(w) \/ SizeFromLayer(w)

\* The places they go on to.
QuietPlaces ==
    {"write", "checkpoint", "read_head", "read", "size_memtable", "write_drain",
     "checkpoint_drain", "write_head", "head", "write_active", "write_append", "read_layer",
     "read_active", "read_rows", "read_fetch", "size_db", "size_again", "size_return"}

LEMMA QuietPlace ==
    ASSUME LockInv, NEW w \in Workers, Quiet(w)
    PROVE  pc'[w] \in QuietPlaces /\ \A v \in Workers \ {w} : pc'[v] = pc[v]
<1>1. CASE Fetch(w)
    BY <1>1 DEF Fetch, At, QuietPlaces
<1>2. CASE ~Fetch(w)
    <2>1. PICK place \in QuietPlaces : Goto(w, place)
        BY <1>2
           DEF Quiet, Calls, Announces, CallWrite, CallCheckpoint, CallRead,
               CallSizeOf, AnnounceWrite, AnnounceCheckpoint, LockToWrite,
               LockToCheckpoint, CheckWritable, HeadQueryFails, FindActive, ReadHead,
               ReadVersionedLayer, ReadMemtable, ReadRows, SizeFromMemtable, SizeRaces,
               SizeFromDatabase, SizeFromLayer, QuietPlaces
    <2> QED BY <2>1, GotoEffect
<1> QED BY <1>1, <1>2

\* Numbers up to a bound have a highest.
LEMMA MaxType ==
    ASSUME NEW T \in SUBSET (0..MaxEnd), T # {}
    PROVE  Max(T) \in T /\ \A y \in T : Max(T) >= y
<1>1. T \subseteq Nat /\ \A y \in T : y <= MaxEnd
    BY LimitsAssumption
<1>2. \E x \in T : \A y \in T : y <= x
    BY <1>1, NatHasMax, LimitsAssumption
<1>3. \E x \in T : \A y \in T : x >= y
    BY <1>1, <1>2
<1> QED BY <1>3 DEF Max

\* What the ends of writes, and their highest, can be.
LEMMA HighestType ==
    ASSUME HeapInv, NEW S \in SUBSET (1..writes)
    PROVE  /\ {ends[n] : n \in S} \cup {0} \in SUBSET (0..MaxEnd)
           /\ HighestEnd(S) \in {ends[n] : n \in S} \cup {0}
           /\ \A x \in {ends[n] : n \in S} \cup {0} : HighestEnd(S) >= x
           /\ HighestEnd(S) \in 0..MaxEnd
<1> DEFINE T == {ends[n] : n \in S} \cup {0}
<1>1. \A n \in 1..writes : ends[n] \in Ends
    BY DEF HeapInv, writes
<1>2. T \in SUBSET (0..MaxEnd) /\ T # {}
    BY <1>1, LimitsAssumption DEF Ends
<1>3. HighestEnd(S) = Max(T)
    BY DEF HighestEnd
<1> HIDE DEF T
<1>4. Max(T) \in T /\ \A x \in T : Max(T) >= x
    BY <1>2, MaxType
<1> QED BY <1>2, <1>3, <1>4 DEF T

\* The locals they change.
LEMMA QuietLocals ==
    ASSUME LockInv, HeapInv, DataInv, NEW w \in Workers, Quiet(w)
    PROVE  /\ call' \in [Workers -> Locals]
           /\ \A v \in Workers \ {w} : call'[v] = call[v]
           /\ ~ReadVersionedLayer(w) => call'[w].upTo = call[w].upTo
           /\ ~ReadMemtable(w) /\ ~SizeFromMemtable(w) => call'[w].layer = call[w].layer
           /\ ~ReadRows(w) /\ ~Fetch(w) => call'[w].rows = call[w].rows
<1>1. call \in [Workers -> Locals]
    BY DEF DataInv
<1>2. CASE UNCHANGED call
    BY <1>1, <1>2
<1>3. CASE CallWrite(w)
    <2> DEFINE b == (head = NoVersion)
    <2>1. call' = [call EXCEPT ![w].unpinned = b] /\ b \in BOOLEAN
        BY <1>3 DEF CallWrite
    <2> HIDE DEF b
    <2> QED BY <1>1, <2>1 DEF Locals
<1>4. CASE HeadQueryFails(w)
    BY <1>1, <1>4 DEF HeadQueryFails, Locals
<1>5. CASE ReadHead(w)
    BY <1>1, <1>5 DEF ReadHead, Locals, DataInv
<1>6. CASE ReadVersionedLayer(w)
    <2>1. PICK i \in DOMAIN layers : call' = [call EXCEPT ![w].upTo = i]
        BY <1>6 DEF ReadVersionedLayer
    <2>2. i \in Nat
        BY DEF DataInv
    <2> QED BY <1>1, <1>6, <2>1, <2>2 DEF Locals
<1>7. CASE ReadMemtable(w)
    <2>1. memtable \in Nat
        BY DEF HeapInv, NoLayer
    <2> QED BY <1>1, <1>7, <2>1 DEF ReadMemtable, Locals
<1>8. CASE ReadRows(w)
    <2> DEFINE upTo == call[w].upTo
               rows == {i \in DOMAIN layers : upTo # NoLayer => i <= upTo}
               seen == IF upTo = NoLayer THEN Range(Chunks(call[w].layer)) ELSE {}
    <2>1. call' = [call EXCEPT ![w].rows = rows, ![w].seen = seen]
        BY <1>8 DEF ReadRows
    <2>2. rows \in SUBSET Nat
        BY DEF DataInv
    <2>3. seen \in SUBSET Writes
        BY ChunksType, CommittedType
    <2> HIDE DEF rows, seen
    <2>4. call' = [call EXCEPT ![w] = [call[w] EXCEPT !.rows = rows, !.seen = seen]]
        BY <1>1, <2>1
    <2>5. call'[w] = [call[w] EXCEPT !.rows = rows, !.seen = seen]
        BY <1>1, <2>4
    <2>6. [call[w] EXCEPT !.rows = rows, !.seen = seen] \in Locals
        BY <1>1, <2>2, <2>3 DEF Locals
    <2>7. call'[w].upTo = call[w].upTo /\ call'[w].layer = call[w].layer
        BY <1>1, <2>5 DEF Locals
    <2> QED BY <1>1, <1>8, <2>4, <2>6, <2>7
<1>9. CASE Fetch(w)
    <2> DEFINE next == Min(call[w].rows)
               rows == call[w].rows \ {next}
               seen == call[w].seen \cup Range(objects[layers[next].version])
    <2>1. call' = [call EXCEPT ![w].rows = rows, ![w].seen = seen]
        BY <1>1, <1>9 DEF Fetch
    <2>2. rows \in SUBSET Nat
        BY <1>1 DEF Locals
    <2>3. next \in DOMAIN layers
        BY <1>9, NextRow DEF Fetch
    <2>4. seen \in SUBSET Writes
        BY <1>1, <2>3 DEF DataInv, Locals
    <2> HIDE DEF rows, seen
    <2>5. call' = [call EXCEPT ![w] = [call[w] EXCEPT !.rows = rows, !.seen = seen]]
        BY <1>1, <2>1
    <2>6. call'[w] = [call[w] EXCEPT !.rows = rows, !.seen = seen]
        BY <1>1, <2>5
    <2>7. [call[w] EXCEPT !.rows = rows, !.seen = seen] \in Locals
        BY <1>1, <2>2, <2>4 DEF Locals
    <2>8. call'[w].upTo = call[w].upTo /\ call'[w].layer = call[w].layer
        BY <1>1, <2>6 DEF Locals
    <2> QED BY <1>1, <1>9, <2>5, <2>7, <2>8
<1>10. CASE SizeFromMemtable(w)
    <2>1. Range(Active) \in SUBSET (1..writes)
        BY DEF DataInv
    <2> DEFINE size == HighestEnd(Range(Active))
    <2>2. size \in 0..MaxEnd
        BY <2>1, HighestType
    <2>3. memtable \in Nat
        BY DEF HeapInv, NoLayer
    <2>4. \/ call' = [call EXCEPT ![w].size = size]
          \/ call' = [call EXCEPT ![w].layer = memtable]
        BY <1>10 DEF SizeFromMemtable
    <2> HIDE DEF size
    <2> QED BY <1>1, <1>10, <2>2, <2>3, <2>4 DEF Locals
<1>11. CASE SizeRaces(w)
    BY <1>1, <1>11 DEF SizeRaces, Locals
<1>12. CASE SizeFromDatabase(w)
    <2> DEFINE size == HighestEnd(Committed)
    <2>1. size \in 0..MaxEnd
        BY CommittedType, HighestType
    <2>2. call' = [call EXCEPT ![w].size = size]
        BY <1>12 DEF SizeFromDatabase
    <2> HIDE DEF size
    <2> QED BY <1>1, <2>1, <2>2 DEF Locals
<1>13. CASE SizeFromLayer(w)
    <2> DEFINE size == Max({call[w].size, HighestEnd(Range(Chunks(call[w].layer)))})
    <2>1. /\ call[w].size \in 0..MaxEnd
          /\ HighestEnd(Range(Chunks(call[w].layer))) \in 0..MaxEnd
        BY <1>1, ChunksType, HighestType DEF Locals
    <2>2. size \in 0..MaxEnd
        BY <2>1, MaxType
    <2>3. call' = [call EXCEPT ![w].size = size]
        BY <1>1, <1>13 DEF SizeFromLayer
    <2> HIDE DEF size
    <2> QED BY <1>1, <2>2, <2>3 DEF Locals
<1> QED BY <1>2, <1>3, <1>4, <1>5, <1>6, <1>7, <1>8, <1>9, <1>10, <1>11, <1>12, <1>13
        DEF Quiet, Calls, Announces, CallCheckpoint, CallRead, CallSizeOf,
            AnnounceWrite, AnnounceCheckpoint, LockToWrite, LockToCheckpoint,
            CheckWritable, FindActive

\* What they leave alone.
LEMMA QuietGoto ==
    ASSUME LockInv, HeapInv, DataInv, NEW w \in Workers, Quiet(w)
    PROVE  /\ UNCHANGED <<data, head>>
           /\ call' \in [Workers -> Locals]
           /\ \A v \in Workers \ {w} : pc'[v] = pc[v] /\ call'[v] = call[v]
           /\ pc'[w] \in QuietPlaces
<1>1. CASE FindActive(w)
    BY <1>1, FindEffect, QuietPlace DEF FindActive, data, stored, history, writes, DataInv
<1>2. CASE ~FindActive(w)
    <2>1. UNCHANGED <<data, head, memtable, actives>>
        BY <1>2
           DEF Quiet, Calls, Announces, CallWrite, CallCheckpoint, CallRead,
               CallSizeOf, AnnounceWrite, AnnounceCheckpoint, LockToWrite,
               LockToCheckpoint, CheckWritable, HeadQueryFails, ReadHead,
               ReadVersionedLayer, ReadMemtable, ReadRows, Fetch, SizeFromMemtable,
               SizeRaces, SizeFromDatabase, SizeFromLayer, data, stored, history, writes,
               active, Active, Chunks
    <2>2. call' \in [Workers -> Locals] /\ \A v \in Workers \ {w} : call'[v] = call[v]
        BY <1>2, QuietLocals
    <2> QED BY <2>1, <2>2, QuietPlace
<1> QED BY <1>1, <1>2

\* The returns that do nothing else.
LEMMA QuietReturnEffect ==
    ASSUME NEW w \in Workers, QuietReturns(w)
    PROVE  /\ Return(w) /\ UNCHANGED <<data, head, actives, memtable>>
           /\ pc[w] \notin {"put", "delete"}
BY DEF QuietReturns, RefuseWrite, WriteFails, RefuseCheckpoint, RollBack, ReadReturns,
       ReadFails, SizeReturns, Assembled, At, Shared, data, stored, history, writes, active,
       Active, Chunks

\* These statements keep the types.
LEMMA QuietData ==
    ASSUME LockInv, HeapInv, DataInv, NEW w \in Workers, Quiet(w) \/ QuietReturns(w)
    PROVE  DataInv'
<1>1. CASE QuietReturns(w)
    <2>1. Return(w) /\ UNCHANGED <<data, head>>
        BY <1>1, QuietReturnEffect
    <2>2. \A v \in Workers : pc'[v] \in {"put", "commit"} =>
              pc'[v] = pc[v] /\ call'[v].version = call[v].version
        BY <2>1, ReturnEffect
    <2>3. call' \in [Workers -> Locals]
        BY <2>1, ReturnEffect
    <2>4. head' \in 0..MaxVersions
        BY <2>1 DEF DataInv
    <2> QED BY <2>1, <2>2, <2>3, <2>4, DataStep
<1>2. CASE Quiet(w)
    <2>1. \A v \in Workers : pc'[v] \in {"put", "commit"} =>
              pc'[v] = pc[v] /\ call'[v].version = call[v].version
        BY <1>2, QuietGoto DEF QuietPlaces
    <2>2. head' \in 0..MaxVersions
        BY <1>2, QuietGoto DEF DataInv
    <2>3. UNCHANGED data /\ call' \in [Workers -> Locals]
        BY <1>2, QuietGoto
    <2> QED BY <2>1, <2>2, <2>3, DataStep
<1> QED BY <1>1, <1>2

\* The row that a commit makes visible.
LEMMA CommittedRow ==
    ASSUME DataInv, NEW w \in Workers, At(w, "commit"), NEW acknowledged \in BOOLEAN,
           CommittedLayer(w, acknowledged)
    PROVE  LET row == [version |-> call[w].version, writes |-> Active,
                       acknowledged |-> acknowledged, content |-> Surviving]
           IN  row \in LayerRow /\ layers' = Append(layers, row)
<1>1. call[w].version \in 1..versionSeq /\ versionSeq \in 0..MaxVersions
    BY DEF DataInv
<1>2. call[w].version \in 1..MaxVersions
    BY <1>1, LimitsAssumption
<1>3. Surviving \in SUBSET Writes /\ Active \in Seq(Writes)
    BY CommittedType DEF DataInv
<1> QED BY <1>2, <1>3 DEF CommittedLayer, LayerRow

\* The object that an upload stores.
LEMMA StoredType ==
    ASSUME DataInv, NEW version \in 1..versionSeq, Stored(version)
    PROVE  /\ DOMAIN objects' = DOMAIN objects \cup {version}
           /\ DOMAIN objects' \subseteq 1..versionSeq
           /\ objects'[version] = Active
           /\ \A v \in DOMAIN objects \ {version} : objects'[v] = objects[v]
           /\ \A v \in DOMAIN objects' : Range(objects'[v]) \subseteq Writes
<1>1. Range(Active) \subseteq Writes
    BY CommittedType DEF DataInv
<1>2. /\ DOMAIN objects' = DOMAIN objects \cup {version}
      /\ objects'[version] = Active
      /\ \A v \in DOMAIN objects \ {version} : objects'[v] = objects[v]
    BY DEF Stored
<1> QED BY <1>1, <1>2 DEF DataInv

\* Every step keeps the types.
LEMMA NextData == ASSUME LockInv, HeapInv, DataInv, [Next]_vars PROVE DataInv'
<1>1. ASSUME NEW w \in Workers, AppendWrite(w) PROVE DataInv'
    <2>1. /\ writes \in Nat /\ writes + 1 \in Writes /\ writes' = writes + 1
          /\ Active' = Append(Active, writes + 1) /\ Return(w)
          /\ UNCHANGED <<stored, head, lost, crashes>>
        BY <1>1, AppendEffect DEF stored
    <2>2. Active' \in Seq(Writes) /\ Range(Active') = Range(Active) \cup {writes + 1}
        BY <2>1, RangeAppend DEF DataInv
    <2>3. writes' \in 0..MaxWrites /\ 1..writes \subseteq 1..writes' /\ writes + 1 \in 1..writes'
        BY <1>1, <2>1, LimitsAssumption DEF AppendWrite
    <2>4. \A v \in Workers : pc'[v] \in {"put", "commit"} =>
              pc'[v] = pc[v] /\ call'[v] = call[v]
        BY <2>1, ReturnEffect
    <2>5. \A v \in Workers :
              /\ At(v, "put")' => call'[v].version \in 1..versionSeq
              /\ At(v, "commit")' => call'[v].version \in DOMAIN objects
        BY <2>4 DEF DataInv, At
    <2> QED BY <2>1, <2>2, <2>3, <2>5, ReturnEffect DEF DataInv, stored
<1>2. ASSUME NEW w \in Workers, InsertVersion(w) PROVE DataInv'
    <2>1. versionSeq \in Nat /\ versionSeq' = versionSeq + 1 /\ versionSeq' \in 1..MaxVersions
        BY <1>2, LimitsAssumption DEF InsertVersion, DataInv
    <2>2. 1..versionSeq \subseteq 1..versionSeq' /\ versionSeq' \in 1..versionSeq'
        BY <2>1
    <2>3. call' = [call EXCEPT ![w].version = versionSeq'] /\ call \in [Workers -> Locals]
        BY <1>2 DEF InsertVersion, DataInv
    <2>4. /\ call' \in [Workers -> Locals] /\ call'[w].version = versionSeq'
          /\ \A v \in Workers \ {w} : call'[v] = call[v]
        BY <2>1, <2>3, LimitsAssumption DEF Locals
    <2>5. pc'[w] = "put" /\ \A v \in Workers \ {w} : pc'[v] = pc[v]
        BY <1>2, GotoEffect DEF InsertVersion
    <2>6. \A v \in Workers :
              /\ At(v, "put")' => call'[v].version \in 1..versionSeq'
              /\ At(v, "commit")' => call'[v].version \in DOMAIN objects
        BY <2>2, <2>4, <2>5 DEF DataInv, At
    <2> QED BY <1>2, <2>1, <2>2, <2>4, <2>6, SameActive, SameHistory, LimitsAssumption
           DEF InsertVersion, DataInv
<1>3. ASSUME NEW w \in Workers, PutObject(w) PROVE DataInv'
    <2>1. call[w].version \in 1..versionSeq
        BY <1>3 DEF PutObject, DataInv
    <2>2. /\ DOMAIN objects' = DOMAIN objects \cup {call[w].version}
          /\ DOMAIN objects' \subseteq 1..versionSeq
          /\ \A v \in DOMAIN objects' : Range(objects'[v]) \subseteq Writes
        BY <1>3, <2>1, StoredType DEF PutObject
    <2>3. pc'[w] = "commit" /\ \A v \in Workers \ {w} : pc'[v] = pc[v]
        BY <1>3, GotoEffect DEF PutObject
    <2>4. \A v \in Workers :
              /\ At(v, "put")' => call'[v].version \in 1..versionSeq
              /\ At(v, "commit")' => call'[v].version \in DOMAIN objects'
        BY <1>3, <2>2, <2>3 DEF DataInv, At, PutObject
    <2> QED BY <1>3, <2>2, <2>4, SameActive, SameHistory DEF PutObject, DataInv
<1>4. ASSUME NEW w \in Workers, PutFails(w) PROVE DataInv'
    <2>1. call[w].version \in 1..versionSeq
        BY <1>4 DEF PutFails, DataInv
    <2>2. /\ DOMAIN objects \subseteq DOMAIN objects'
          /\ DOMAIN objects' \subseteq 1..versionSeq
          /\ \A v \in DOMAIN objects' : Range(objects'[v]) \subseteq Writes
        BY <1>4, <2>1, StoredType DEF PutFails, DataInv
    <2>3. call' \in [Workers -> Locals]
        BY <1>4, ReturnEffect DEF PutFails
    <2>4. \A v \in Workers : pc'[v] \in {"put", "commit"} =>
              pc'[v] = pc[v] /\ call'[v] = call[v]
        BY <1>4, ReturnEffect DEF PutFails
    <2>5. \A v \in Workers :
              /\ At(v, "put")' => call'[v].version \in 1..versionSeq
              /\ At(v, "commit")' => call'[v].version \in DOMAIN objects'
        BY <2>2, <2>4 DEF DataInv, At
    <2> QED BY <1>4, <2>2, <2>3, <2>5, SameActive, SameHistory DEF PutFails, DataInv
<1>5. ASSUME NEW w \in Workers, NEW acknowledged \in BOOLEAN, At(w, "commit"),
             CommittedLayer(w, acknowledged),
             UNCHANGED <<Active, versionSeq, objects, head, writes, lost, crashes>>,
             call' \in [Workers -> Locals],
             \A v \in Workers : pc'[v] \in {"put", "commit"} =>
                 pc'[v] = pc[v] /\ call'[v] = call[v]
      PROVE  DataInv'
    <2> DEFINE row == [version |-> call[w].version, writes |-> Active,
                       acknowledged |-> acknowledged, content |-> Surviving]
    <2>1. row \in LayerRow /\ layers' = Append(layers, row)
        BY <1>5, CommittedRow
    <2>2. row.version \in DOMAIN objects /\ Range(row.writes) \subseteq 1..writes
        BY <1>5 DEF DataInv
    <2> HIDE DEF row
    <2>3. /\ layers' \in Seq(LayerRow)
          /\ DOMAIN layers' = DOMAIN layers \cup {Len(layers) + 1}
          /\ \A i \in DOMAIN layers : layers'[i] = layers[i]
          /\ layers'[Len(layers) + 1] = row
        BY <2>1, RangeAppend DEF DataInv
    <2>4. \A i \in DOMAIN layers' :
              layers'[i].version \in DOMAIN objects /\ Range(layers'[i].writes) \subseteq 1..writes
        BY <2>2, <2>3 DEF DataInv
    <2>5. \A v \in Workers :
              /\ At(v, "put")' => call'[v].version \in 1..versionSeq
              /\ At(v, "commit")' => call'[v].version \in DOMAIN objects
        BY <1>5 DEF DataInv, At
    <2> QED BY <1>5, <2>3, <2>4, <2>5 DEF DataInv
<1>6. ASSUME NEW w \in Workers, Commit(w) PROVE DataInv'
    <2>1. pc'[w] = "delete" /\ \A v \in Workers \ {w} : pc'[v] = pc[v]
        BY <1>6, GotoEffect DEF Commit
    <2> QED BY <1>5, <1>6, <2>1, SameActive, SameHistory DEF Commit, DataInv
<1>7. ASSUME NEW w \in Workers, CommitUnacknowledged(w) PROVE DataInv'
    <2>1. /\ call' \in [Workers -> Locals]
          /\ \A v \in Workers : pc'[v] \in {"put", "commit"} =>
                 pc'[v] = pc[v] /\ call'[v] = call[v]
        BY <1>7, ReturnEffect DEF CommitUnacknowledged
    <2> QED BY <1>5, <1>7, <2>1, SameActive, SameHistory DEF CommitUnacknowledged
<1>8. ASSUME NEW w \in Workers, DeleteActive(w) PROVE DataInv'
    <2>1. /\ call' \in [Workers -> Locals]
          /\ \A v \in Workers : pc'[v] \in {"put", "commit"} =>
                 pc'[v] = pc[v] /\ call'[v] = call[v]
        BY <1>8, ReturnEffect DEF DeleteActive
    <2>2. Active' = << >> /\ UNCHANGED <<stored, head, history>>
        BY <1>8 DEF DeleteActive, Active, Chunks
    <2>3. \A v \in Workers :
              /\ At(v, "put")' => call'[v].version \in 1..versionSeq
              /\ At(v, "commit")' => call'[v].version \in DOMAIN objects
        BY <2>1 DEF DataInv, At
    <2>4. << >> \in Seq(Writes) /\ Range(<< >>) = {}
        BY DEF Range
    <2> QED BY <2>1, <2>2, <2>3, <2>4, SameHistory DEF DataInv, stored
<1>9. CASE SetHead
    <2>1. head' \in 0..MaxVersions
        BY <1>9, LimitsAssumption DEF SetHead, DataInv, LayerRow
    <2> QED BY <1>9, <2>1, DataStep, SameActive, SameHistory
           DEF SetHead, DataInv, data, stored
<1>10. CASE DeleteHead
    <2>1. head' \in 0..MaxVersions
        BY <1>10, LimitsAssumption DEF DeleteHead, NoVersion
    <2>2. ASSUME NEW w \in Workers
          PROVE  call'[w] \in Locals /\ call'[w].version = call[w].version
        BY <1>10, HeadEffect
    <2>3. call' \in [Workers -> Locals]
        BY <1>10, <2>2 DEF DeleteHead
    <2> QED BY <1>10, <2>1, <2>2, <2>3, DataStep, SameActive, SameHistory
           DEF DeleteHead, data, stored
<1>11. CASE Crash
    <2>1. NoLocals \in Locals
        BY LimitsAssumption DEF NoLocals, Locals, NoVersion, NoLayer
    <2>2. call' \in [Workers -> Locals] /\ \A w \in Workers : pc'[w] = "idle"
        BY <1>11, <2>1 DEF Crash
    <2>3. << >> \in Seq(Writes) /\ Range(<< >>) = {}
        BY DEF Range
    <2>4. lost' \subseteq 1..writes
        BY <1>11 DEF Crash, DataInv
    <2>5. crashes' \in 0..MaxCrashes
        <3>1. crashes \in Nat
            BY LimitsAssumption DEF DataInv
        <3> QED BY <1>11, <3>1, LimitsAssumption DEF Crash
    <2>6. Active' = << >> /\ writes' = writes
        BY <1>11 DEF Crash, Active, Chunks, writes
    <2> QED BY <1>11, <2>2, <2>3, <2>4, <2>5, <2>6 DEF Crash, DataInv, stored, At
<1>12. CASE UNCHANGED vars
    BY <1>12, DataStep, SameActive, SameHistory DEF vars, program, stored, DataInv, data
<1>13. ASSUME NEW w \in Workers, Quiet(w) \/ QuietReturns(w) PROVE DataInv'
    BY <1>13, QuietData
<1> QED BY <1>1, <1>2, <1>3, <1>4, <1>6, <1>7, <1>8, <1>9, <1>10, <1>11, <1>12, <1>13
        DEF Next, Steps, Statements, Quiet, QuietReturns

----------------------------------------------------------------------------
(* Active layers and what calls keep of them                               *)

\* A step that makes no active layer and no row, and sets no such local.
LEMMA HeapStep ==
    ASSUME HeapInv, UNCHANGED <<actives, layers, ends>>, memtable' \in {memtable, NoLayer},
           \A w \in Workers : pc'[w] = "write_append" => memtable' # NoLayer,
           \A w \in Workers :
               \/ call'[w] = NoLocals
               \/ /\ call'[w].upTo = call[w].upTo
                  /\ call'[w].layer = call[w].layer
                  /\ call'[w].rows = call[w].rows
                  /\ \/ pc'[w] \in {"read_active", "read_rows", "read_fetch"}
                     \/ pc[w] \notin {"read_active", "read_rows", "read_fetch"}
    PROVE  HeapInv'
<1>1. ASSUME NEW w \in Workers
      PROVE  /\ call'[w].upTo \in {NoLayer} \cup DOMAIN layers
             /\ call'[w].layer \in {NoLayer} \cup DOMAIN actives
             /\ call'[w].rows \subseteq DOMAIN layers
             /\ pc'[w] \notin {"read_active", "read_rows", "read_fetch"} =>
                    call'[w].upTo = NoLayer
    <2>1. NoLocals.upTo = NoLayer /\ NoLocals.layer = NoLayer /\ NoLocals.rows = {}
        BY DEF NoLocals
    <2> QED BY <2>1 DEF HeapInv
<1>2. writes' = writes
    BY DEF writes
<1> QED BY <1>1, <1>2 DEF HeapInv, At

\* Every step keeps these.
LEMMA NextHeap ==
    ASSUME LockInv, HeapInv, DataInv, DataInv', [Next]_vars
    PROVE  HeapInv'
<1>1. ASSUME NEW w \in Workers, NEW v \in Workers, pc[w] \in Exclusive, v # w
      PROVE  pc[v] # "write_append"
    BY <1>1, OneWriter DEF Exclusive
<1>2. ASSUME NEW w \in Workers, AppendWrite(w) PROVE HeapInv'
    <2>1. /\ writes \in Nat /\ writes' = writes + 1 /\ writes + 1 \in Writes
          /\ memtable \in DOMAIN actives /\ memtable = Len(actives) /\ memtable # NoLayer
          /\ memtable' = memtable
          /\ actives' = [actives EXCEPT ![memtable] = Append(Active, writes + 1)]
          /\ UNCHANGED layers /\ Return(w)
        BY <1>2, AppendEffect
    <2>2. PICK end \in Ends : ends' = Append(ends, end)
        BY <1>2, AppendEffect
    <2>3. ends' \in Seq(Ends)
        BY <2>2 DEF HeapInv
    <2>4. /\ Append(Active, writes + 1) \in Seq(Writes)
          /\ Range(Append(Active, writes + 1)) = Range(Active) \cup {writes + 1}
        BY <2>1, RangeAppend DEF DataInv
    <2> DEFINE new == Append(Active, writes + 1)
    <2>5. new \in Seq(Writes) /\ Range(new) \subseteq 1..writes'
        BY <2>1, <2>4 DEF DataInv
    <2>6. actives' = [actives EXCEPT ![memtable] = new]
        BY <2>1
    <2> HIDE DEF new
    <2>7. actives \in Seq(Seq(Writes))
        BY DEF HeapInv
    <2>8. /\ actives' \in Seq(Seq(Writes)) /\ DOMAIN actives' = DOMAIN actives
          /\ Len(actives') = Len(actives)
          /\ \A layer \in DOMAIN actives :
                 actives'[layer] = IF layer = memtable THEN new ELSE actives[layer]
        <3> DEFINE S == Seq(Writes)
        <3>1. actives \in Seq(S) /\ new \in S /\ memtable \in DOMAIN actives
            BY <2>1, <2>5, <2>7
        <3> HIDE DEF S
        <3>2. /\ actives' \in Seq(S) /\ DOMAIN actives' = DOMAIN actives
              /\ Len(actives') = Len(actives)
              /\ \A layer \in DOMAIN actives :
                     actives'[layer] = IF layer = memtable THEN new ELSE actives[layer]
            BY <3>1, <2>6, ReplaceAt
        <3> QED BY <3>2 DEF S
    <2>9. 1..writes \subseteq 1..writes'
        BY <2>1
    <2>10. \A layer \in DOMAIN actives' : Range(actives'[layer]) \subseteq 1..writes'
        BY <2>5, <2>8, <2>9 DEF HeapInv
    <2>11. ASSUME NEW v \in Workers
           PROVE  /\ call'[v].upTo \in {NoLayer} \cup DOMAIN layers
                  /\ call'[v].layer \in {NoLayer} \cup DOMAIN actives
                  /\ call'[v].rows \subseteq DOMAIN layers
                  /\ pc'[v] \notin {"read_active", "read_rows", "read_fetch"} =>
                         call'[v].upTo = NoLayer
        <3>1. NoLocals.upTo = NoLayer /\ NoLocals.layer = NoLayer /\ NoLocals.rows = {}
            BY DEF NoLocals
        <3>2. /\ call'[v] = IF v = w THEN NoLocals ELSE call[v]
              /\ v # w => \/ pc'[v] \in {"read_active", "read_rows", "read_fetch"}
                          \/ pc[v] \notin {"read_active", "read_rows", "read_fetch"}
            BY <2>1, ReturnEffect, AdmittedType DEF Return
        <3> QED BY <3>1, <3>2 DEF HeapInv
    <2> QED BY <2>1, <2>3, <2>8, <2>10, <2>11 DEF HeapInv, At
<1>3. ASSUME NEW w \in Workers, FindActive(w) PROVE HeapInv'
    <2>1. /\ memtable' = Len(actives') /\ memtable' # NoLayer /\ actives' \in Seq(Seq(Writes))
          /\ \A layer \in DOMAIN actives' :
                 actives'[layer] = IF layer \in DOMAIN actives THEN actives[layer] ELSE << >>
          /\ DOMAIN actives \subseteq DOMAIN actives'
        BY <1>3, FindEffect
    <2>2. UNCHANGED <<layers, ends, writes, call>>
        BY <1>3, SameHistory DEF FindActive, stored
    <2>3. pc'[w] = "write_append" /\ pc[w] = "write_active"
          /\ \A v \in Workers \ {w} : pc'[v] = pc[v]
        BY <1>3, GotoEffect DEF FindActive, At
    <2>4. Range(<< >>) = {}
        BY DEF Range
    <2>5. \A layer \in DOMAIN actives' : Range(actives'[layer]) \subseteq 1..writes
        BY <2>1, <2>4 DEF HeapInv
    <2>6. \A v \in Workers : pc'[v] \notin {"read_active", "read_rows", "read_fetch"} =>
              pc[v] \notin {"read_active", "read_rows", "read_fetch"}
        BY <2>3
    <2> QED BY <2>1, <2>2, <2>5, <2>6 DEF HeapInv, At
<1>4. ASSUME NEW w \in Workers, Commit(w) \/ CommitUnacknowledged(w) PROVE HeapInv'
    <2>1. PICK acknowledged \in BOOLEAN : CommittedLayer(w, acknowledged)
        BY <1>4 DEF Commit, CommitUnacknowledged
    <2>2. PICK row \in LayerRow : layers' = Append(layers, row)
        BY <1>4, <2>1, CommittedRow DEF Commit, CommitUnacknowledged
    <2>3. layers \in Seq(LayerRow)
        BY DEF DataInv
    <2>4. DOMAIN layers \subseteq DOMAIN layers'
        BY <2>2, <2>3
    <2>5. UNCHANGED <<actives, memtable, ends, writes>>
        BY <1>4, SameHistory DEF Commit, CommitUnacknowledged, active
    <2>6. ASSUME NEW v \in Workers
          PROVE  /\ call'[v] = NoLocals \/ call'[v] = call[v]
                 /\ pc'[v] # "write_append"
                 /\ \/ pc'[v] \in {"read_active", "read_rows", "read_fetch"}
                    \/ pc[v] \notin {"read_active", "read_rows", "read_fetch"}
                    \/ call'[v] = NoLocals
        <3>1. CASE Commit(w)
            BY <1>1, <3>1, GotoEffect DEF Commit, At, Exclusive
        <3>2. CASE CommitUnacknowledged(w)
            <4>1. pc[v] # "write_append"
                BY <1>1, <3>2 DEF CommitUnacknowledged, At, Exclusive
            <4>2. Return(w)
                BY <3>2 DEF CommitUnacknowledged
            <4> QED BY <4>1, <4>2, ReturnEffect, AdmittedType DEF Return
        <3> QED BY <1>4, <3>1, <3>2
    <2>7. NoLocals.upTo = NoLayer /\ NoLocals.layer = NoLayer /\ NoLocals.rows = {}
        BY DEF NoLocals
    <2>8. ASSUME NEW v \in Workers
          PROVE  /\ call'[v].upTo \in {NoLayer} \cup DOMAIN layers'
                 /\ call'[v].layer \in {NoLayer} \cup DOMAIN actives
                 /\ call'[v].rows \subseteq DOMAIN layers'
                 /\ pc'[v] \notin {"read_active", "read_rows", "read_fetch"} =>
                        call'[v].upTo = NoLayer
        BY <2>4, <2>6, <2>7 DEF HeapInv
    <2> QED BY <2>5, <2>6, <2>8 DEF HeapInv, At
<1>5. ASSUME NEW w \in Workers, QuietReturns(w) \/ PutFails(w) \/ DeleteActive(w)
      PROVE  HeapInv'
    <2>1. /\ Return(w) /\ UNCHANGED <<actives, layers, ends>>
          /\ memtable' = memtable \/ (memtable' = NoLayer /\ pc[w] = "delete")
        BY <1>5, QuietReturnEffect, SameHistory
           DEF PutFails, DeleteActive, stored, data, active, At
    <2>2. \A v \in Workers : pc'[v] = "write_append" => memtable' # NoLayer
        <3>1. \A v \in Workers : pc'[v] = "write_append" => v # w /\ pc[v] = "write_append"
            BY <2>1, ReturnEffect
        <3>2. pc[w] = "delete" => \A v \in Workers \ {w} : pc[v] # "write_append"
            BY <1>1 DEF Exclusive
        <3> QED BY <2>1, <3>1, <3>2 DEF HeapInv, At
    <2>3. \A v \in Workers \ {w} :
              \/ pc'[v] \in {"read_active", "read_rows", "read_fetch"}
              \/ pc[v] \notin {"read_active", "read_rows", "read_fetch"}
        BY <2>1, AdmittedType DEF Return
    <2> QED BY <2>1, <2>2, <2>3, ReturnEffect, HeapStep
<1>6. ASSUME NEW w \in Workers, InsertVersion(w) \/ PutObject(w) PROVE HeapInv'
    <2>1. UNCHANGED <<actives, memtable, layers, ends>>
        BY <1>6, SameHistory DEF InsertVersion, PutObject, active
    <2>2. /\ pc'[w] \in {"put", "commit"} /\ \A v \in Workers \ {w} : pc'[v] = pc[v]
          /\ pc[w] \in {"head", "put"}
        BY <1>6, GotoEffect DEF InsertVersion, PutObject, At
    <2>3. \A v \in Workers : /\ call'[v].upTo = call[v].upTo
                             /\ call'[v].layer = call[v].layer
                             /\ call'[v].rows = call[v].rows
        <3>1. CASE InsertVersion(w)
            BY <3>1 DEF InsertVersion, DataInv, Locals
        <3>2. CASE PutObject(w)
            BY <3>2 DEF PutObject
        <3> QED BY <1>6, <3>1, <3>2
    <2>4. \A v \in Workers : pc'[v] = "write_append" => memtable' # NoLayer
        BY <2>1, <2>2 DEF HeapInv, At
    <2> QED BY <2>1, <2>2, <2>3, <2>4, HeapStep
<1>7. ASSUME NEW w \in Workers, Quiet(w), ~FindActive(w),
             ~ReadVersionedLayer(w), ~ReadMemtable(w), ~ReadRows(w), ~Fetch(w),
             ~SizeFromMemtable(w)
      PROVE  HeapInv'
    <2>1. UNCHANGED <<actives, memtable, layers, ends>>
        BY <1>7, SameHistory
           DEF Quiet, Calls, Announces, CallWrite, CallCheckpoint, CallRead, CallSizeOf,
               AnnounceWrite, AnnounceCheckpoint, LockToWrite, LockToCheckpoint,
               CheckWritable, HeadQueryFails, ReadHead, SizeRaces, SizeFromDatabase,
               SizeFromLayer, stored, active
    <2>2. \A v \in Workers : /\ call'[v].upTo = call[v].upTo
                             /\ call'[v].layer = call[v].layer
                             /\ call'[v].rows = call[v].rows
        BY <1>7, QuietLocals
    <2>3. pc[w] \notin {"read_active", "read_rows", "read_fetch"}
        BY <1>7, QuietPlace
           DEF Quiet, Calls, Announces, CallWrite, CallCheckpoint, CallRead, CallSizeOf,
               AnnounceWrite, AnnounceCheckpoint, LockToWrite, LockToCheckpoint,
               CheckWritable, HeadQueryFails, ReadHead, SizeRaces, SizeFromDatabase,
               SizeFromLayer, RacesWith, At
    <2>4. pc'[w] # "write_append"
        <3>1. PICK place \in QuietPlaces \ {"write_append"} : Goto(w, place)
            BY <1>7
               DEF Quiet, Calls, Announces, CallWrite, CallCheckpoint, CallRead, CallSizeOf,
                   AnnounceWrite, AnnounceCheckpoint, LockToWrite, LockToCheckpoint,
                   CheckWritable, HeadQueryFails, ReadHead, SizeRaces, SizeFromDatabase,
                   SizeFromLayer, QuietPlaces
        <3> QED BY <3>1, GotoEffect
    <2>5. \A v \in Workers \ {w} : pc'[v] = pc[v]
        BY <1>7, QuietPlace
    <2>6. \A v \in Workers : pc'[v] = "write_append" => memtable' # NoLayer
        BY <2>1, <2>4, <2>5 DEF HeapInv, At
    <2> QED BY <2>1, <2>2, <2>3, <2>5, <2>6, HeapStep
<1>8. ASSUME NEW w \in Workers,
             \/ ReadVersionedLayer(w) \/ ReadMemtable(w) \/ ReadRows(w) \/ Fetch(w)
             \/ SizeFromMemtable(w)
      PROVE  HeapInv'
    <2>1. UNCHANGED <<actives, memtable, layers, ends, writes>>
        BY <1>8, SameHistory
           DEF ReadVersionedLayer, ReadMemtable, ReadRows, Fetch, SizeFromMemtable, stored,
               active
    <2>2. /\ \A v \in Workers \ {w} : pc'[v] = pc[v] /\ call'[v] = call[v]
          /\ ~ReadVersionedLayer(w) => call'[w].upTo = call[w].upTo
          /\ ~ReadMemtable(w) /\ ~SizeFromMemtable(w) => call'[w].layer = call[w].layer
          /\ ~ReadRows(w) /\ ~Fetch(w) => call'[w].rows = call[w].rows
        BY <1>8, QuietPlace, QuietLocals DEF Quiet
    <2>3. /\ pc'[w] \in {"read_active", "read_rows", "read_fetch", "size_db", "size_return"}
          /\ pc'[w] \in {"size_db", "size_return"} => pc[w] = "size_memtable"
        BY <1>8, GotoEffect
           DEF ReadVersionedLayer, ReadMemtable, ReadRows, Fetch, SizeFromMemtable, At
    <2>4. call'[w].upTo \in {NoLayer} \cup DOMAIN layers
        <3>1. CASE ReadVersionedLayer(w)
            <4>1. PICK i \in DOMAIN layers : call' = [call EXCEPT ![w].upTo = i]
                BY <3>1 DEF ReadVersionedLayer
            <4> QED BY <4>1 DEF DataInv, Locals
        <3> QED BY <2>2, <3>1 DEF HeapInv
    <2>5. call'[w].layer \in {NoLayer} \cup DOMAIN actives
        <3>1. call' = [call EXCEPT ![w].layer = memtable] => call'[w].layer = memtable
            BY DEF DataInv, Locals
        <3>2. memtable \in {NoLayer} \cup DOMAIN actives
            BY DEF HeapInv, NoLayer
        <3>3. CASE ReadMemtable(w)
            BY <3>1, <3>2, <3>3 DEF ReadMemtable
        <3>4. CASE SizeFromMemtable(w)
            <4> DEFINE size == HighestEnd(Range(Active))
            <4>1. \/ call' = [call EXCEPT ![w].size = size]
                  \/ call' = [call EXCEPT ![w].layer = memtable]
                BY <3>4 DEF SizeFromMemtable
            <4> HIDE DEF size
            <4>2. call' = [call EXCEPT ![w].size = size] => call'[w].layer = call[w].layer
                BY DEF DataInv, Locals
            <4> QED BY <3>1, <3>2, <4>1, <4>2 DEF HeapInv
        <3> QED BY <2>2, <3>3, <3>4 DEF HeapInv
    <2>6. call'[w].rows \subseteq DOMAIN layers
        <3>1. CASE ReadRows(w)
            <4> DEFINE upTo == call[w].upTo
                       rows == {i \in DOMAIN layers : upTo # NoLayer => i <= upTo}
                       seen == IF upTo = NoLayer THEN Range(Chunks(call[w].layer)) ELSE {}
            <4>1. call' = [call EXCEPT ![w].rows = rows, ![w].seen = seen]
                BY <3>1 DEF ReadRows
            <4>2. rows \subseteq DOMAIN layers
                OBVIOUS
            <4> HIDE DEF rows, seen
            <4>3. call'[w].rows = rows
                BY <4>1 DEF DataInv, Locals
            <4> QED BY <4>2, <4>3
        <3>2. CASE Fetch(w)
            <4> DEFINE next == Min(call[w].rows)
                       rows == call[w].rows \ {next}
                       seen == call[w].seen \cup Range(objects[layers[next].version])
            <4>1. call' = [call EXCEPT ![w].rows = rows, ![w].seen = seen]
                BY <3>2 DEF Fetch, DataInv
            <4>2. rows \subseteq DOMAIN layers
                BY DEF HeapInv
            <4> HIDE DEF rows, seen
            <4>3. call'[w].rows = rows
                BY <4>1 DEF DataInv, Locals
            <4> QED BY <4>2, <4>3
        <3> QED BY <2>2, <3>1, <3>2 DEF HeapInv
    <2>7. pc'[w] \notin {"read_active", "read_rows", "read_fetch"} => call'[w].upTo = NoLayer
        BY <2>2, <2>3 DEF HeapInv, ReadVersionedLayer, At
    <2>8. pc'[w] # "write_append"
        BY <2>3
    <2>9. \A v \in Workers :
              /\ pc'[v] = "write_append" => memtable # NoLayer
              /\ call'[v].upTo \in {NoLayer} \cup DOMAIN layers
              /\ call'[v].layer \in {NoLayer} \cup DOMAIN actives
              /\ call'[v].rows \subseteq DOMAIN layers
              /\ pc'[v] \notin {"read_active", "read_rows", "read_fetch"} =>
                     call'[v].upTo = NoLayer
        BY <2>2, <2>4, <2>5, <2>6, <2>7, <2>8 DEF HeapInv, At
    <2> QED BY <2>1, <2>9 DEF HeapInv, At
<1>9. CASE SetHead \/ DeleteHead \/ UNCHANGED vars
    <2>1. UNCHANGED <<actives, memtable, layers, ends, pc>>
        BY <1>9, SameHistory DEF SetHead, DeleteHead, vars, program, stored, active
    <2>2. ASSUME NEW v \in Workers
          PROVE  /\ call'[v].upTo = call[v].upTo /\ call'[v].layer = call[v].layer
                 /\ call'[v].rows = call[v].rows
        <3>1. CASE DeleteHead
            BY <3>1, HeadEffect
        <3> QED BY <1>9, <3>1 DEF SetHead, vars, program
    <2>3. \A v \in Workers : pc'[v] = "write_append" => memtable' # NoLayer
        BY <2>1 DEF HeapInv, At
    <2> QED BY <2>1, <2>2, <2>3, HeapStep
<1>10. CASE Crash
    <2>1. /\ actives' = << >> /\ memtable' = NoLayer /\ ends' = ends /\ layers' = layers
          /\ \A v \in Workers : pc'[v] = "idle" /\ call'[v] = NoLocals
        BY <1>10 DEF Crash, stored
    <2>2. NoLocals.upTo = NoLayer /\ NoLocals.layer = NoLayer /\ NoLocals.rows = {}
        BY DEF NoLocals
    <2> QED BY <2>1, <2>2 DEF HeapInv, At
<1> QED BY <1>2, <1>3, <1>4, <1>5, <1>6, <1>7, <1>8, <1>9, <1>10
        DEF Next, Steps, Statements, Quiet, QuietReturns

----------------------------------------------------------------------------
(* Acknowledged writes                                                     *)

\* No acknowledged write is lost, which needs that the active layer is dropped
\* only when it is committed, and holds the last write if it holds any.
AckInv ==
    /\ AckedWritesKept
    /\ lost \cap Range(Active) = {}
    /\ Active # << >> => writes \in Range(Active)
    /\ \A w \in Workers : At(w, "delete") => Range(Active) \subseteq Committed

\* The committed writes are those in the layers.
LEMMA CommittedIs ==
    ASSUME NEW S, layers \in Seq(S)
    PROVE  \A x : x \in Committed <=> \E i \in DOMAIN layers : x \in Range(layers[i].writes)
<1>1. \A i \in DOMAIN layers : i <= Len(layers)
    OBVIOUS
<1> QED BY <1>1 DEF Committed, Seen

\* A commit adds the active layer to them.
LEMMA CommitAdds ==
    ASSUME DataInv, DataInv', NEW w \in Workers, At(w, "commit"), NEW acknowledged \in BOOLEAN,
           CommittedLayer(w, acknowledged)
    PROVE  Committed' = Committed \cup Range(Active)
<1> DEFINE row == [version |-> call[w].version, writes |-> Active,
                   acknowledged |-> acknowledged, content |-> Surviving]
<1>1. row \in LayerRow /\ layers' = Append(layers, row) /\ layers \in Seq(LayerRow)
    BY CommittedRow DEF DataInv
<1>2. row.writes = Active
    OBVIOUS
<1> HIDE DEF row
<1>3. /\ DOMAIN layers' = DOMAIN layers \cup {Len(layers) + 1}
      /\ \A i \in DOMAIN layers : layers'[i] = layers[i]
      /\ layers'[Len(layers) + 1] = row
    BY <1>1, RangeAppend
<1>4. \A x : x \in Committed <=> \E i \in DOMAIN layers : x \in Range(layers[i].writes)
    BY <1>1, CommittedIs
<1>5. \A x : x \in Committed' <=> \E i \in DOMAIN layers' : x \in Range(layers'[i].writes)
    <2>1. layers' \in Seq(LayerRow)
        BY DEF DataInv
    <2>2. \A i \in DOMAIN layers' : i <= Len(layers')
        BY <2>1
    <2> QED BY <2>2 DEF Committed, Seen
<1>6. \A x : (\E i \in DOMAIN layers' : x \in Range(layers'[i].writes)) <=>
             x \in Committed \/ x \in Range(Active)
    BY <1>2, <1>3, <1>4
<1> QED BY <1>5, <1>6

\* A step that leaves the writes where they are keeps them if it puts no call
\* where it may drop the active layer.
LEMMA AckStep ==
    ASSUME AckInv, UNCHANGED <<Active, layers, writes, lost>>,
           \A v \in Workers : pc'[v] = "delete" => pc[v] = "delete"
    PROVE  AckInv'
BY DEF AckInv, AckedWritesKept, Surviving, Committed, Seen, At

\* No step loses an acknowledged write.
LEMMA NextAck == ASSUME LockInv, HeapInv, DataInv, DataInv', AckInv, [Next]_vars PROVE AckInv'
<1>1. ASSUME NEW w \in Workers, Return(w)
      PROVE  \A v \in Workers : pc'[v] = "delete" => pc[v] = "delete" /\ v # w
    BY <1>1, ReturnEffect
<1>2. ASSUME NEW w \in Workers, NEW place, Goto(w, place), place # "delete"
      PROVE  \A v \in Workers : pc'[v] = "delete" => pc[v] = "delete"
    BY <1>2, GotoEffect
<1>3. ASSUME NEW w \in Workers, AppendWrite(w) PROVE AckInv'
    <2>1. /\ writes \in Nat /\ writes + 1 \in Writes /\ writes' = writes + 1
          /\ Active' = Append(Active, writes + 1) /\ UNCHANGED <<layers, lost>>
        BY <1>3, AppendEffect
    <2>2. Range(Active') = Range(Active) \cup {writes'}
        BY <2>1, RangeAppend DEF DataInv
    <2>3. lost \subseteq 1..writes /\ writes' \notin lost
        BY <2>1 DEF DataInv
    <2>4. Surviving' = Surviving \cup {writes'}
        BY <2>1, <2>3 DEF Surviving
    <2>5. Committed' = Committed
        BY <2>1 DEF Committed, Seen
    <2>6. \A v \in Workers : ~At(v, "delete")'
        <3>1. \A v \in Workers : pc[v] = "delete" => v = w
            BY <1>3, OneWriter DEF AppendWrite, At, Exclusive
        <3>2. \A v \in Workers : pc'[v] = "delete" => pc[v] = "delete" /\ v # w
            BY <1>1, <1>3 DEF AppendWrite
        <3> QED BY <3>1, <3>2 DEF At
    <2>7. lost \cap Range(Active') = {} /\ writes' \in Range(Active')
        BY <2>2, <2>3 DEF AckInv
    <2>8. AckedWritesKept'
        BY <2>1, <2>2, <2>4, <2>5 DEF AckInv, AckedWritesKept
    <2> QED BY <2>1, <2>6, <2>7, <2>8 DEF AckInv
<1>4. ASSUME NEW w \in Workers, NEW acknowledged \in BOOLEAN, At(w, "commit"),
             CommittedLayer(w, acknowledged), UNCHANGED <<Active, writes, lost>>
      PROVE  AckInv'
    <2>1. Committed' = Committed \cup Range(Active)
        BY <1>4, CommitAdds
    <2>2. AckedWritesKept'
        BY <1>4, <2>1 DEF AckInv, AckedWritesKept, Surviving
    <2> QED BY <1>4, <2>1, <2>2 DEF AckInv
<1>5. ASSUME NEW w \in Workers, DeleteActive(w) PROVE AckInv'
    <2>1. Range(Active) \subseteq Committed /\ Active' = << >>
          /\ UNCHANGED <<layers, writes, lost>>
        BY <1>5, SameHistory DEF DeleteActive, AckInv, stored, Active, Chunks, At
    <2>2. Surviving' = Surviving /\ Committed' = Committed /\ Range(Active') = {}
        BY <2>1 DEF Surviving, Committed, Seen, Range
    <2>3. AckedWritesKept'
        BY <2>1, <2>2 DEF AckInv, AckedWritesKept
    <2> QED BY <2>1, <2>2, <2>3 DEF AckInv
<1>6. CASE Crash
    <2>1. /\ lost' = lost \cup (Range(Active) \ Committed) /\ Active' = << >>
          /\ UNCHANGED <<layers, writes>> /\ \A w \in Workers : pc'[w] = "idle"
        BY <1>6 DEF Crash, stored, Active, Chunks, writes
    <2>2. Committed' = Committed /\ Range(Active') = {}
        BY <2>1 DEF Committed, Seen, Range
    <2>3. Surviving' \subseteq Surviving \ (Range(Active) \ Committed)
        BY <2>1 DEF Surviving
    <2>4. AckedWritesKept'
        BY <2>1, <2>2, <2>3 DEF AckInv, AckedWritesKept
    <2> QED BY <2>1, <2>2, <2>4 DEF AckInv, At
<1>7. CASE SetHead \/ DeleteHead \/ UNCHANGED vars
    BY <1>7, AckStep, SameActive, SameHistory
       DEF SetHead, DeleteHead, vars, program, stored
<1>8. ASSUME NEW w \in Workers, Quiet(w) PROVE AckInv'
    <2>1. \A v \in Workers : pc'[v] = "delete" => pc[v] = "delete"
        BY <1>8, QuietGoto DEF QuietPlaces
    <2> QED BY <1>8, <2>1, QuietGoto, AckStep DEF data
<1>9. ASSUME NEW w \in Workers,
             InsertVersion(w) \/ PutObject(w) \/ PutFails(w) \/ QuietReturns(w)
      PROVE  AckInv'
    <2>1. UNCHANGED <<Active, layers, writes, lost>>
        BY <1>9, QuietReturnEffect, SameActive, SameHistory
           DEF InsertVersion, PutObject, PutFails, data
    <2>2. \A v \in Workers : pc'[v] = "delete" => pc[v] = "delete"
        BY <1>1, <1>2, <1>9, QuietReturnEffect DEF InsertVersion, PutObject, PutFails
    <2> QED BY <2>1, <2>2, AckStep
<1>10. ASSUME NEW w \in Workers, Commit(w) \/ CommitUnacknowledged(w) PROVE AckInv'
    BY <1>4, <1>10, SameActive, SameHistory DEF Commit, CommitUnacknowledged
<1> QED BY <1>3, <1>5, <1>6, <1>7, <1>8, <1>9, <1>10
        DEF Next, Steps, Statements, Quiet, QuietReturns

----------------------------------------------------------------------------
(* Writes and heads                                                        *)

\* A write that is under way while no head is set has met no head, and one that
\* goes through has, unless its query failed.
PinInv ==
    /\ \A w \in Workers : pc[w] \in Writing /\ head = NoVersion => call[w].unpinned
    /\ \A w \in Workers : At(w, "write_active") /\ ~call[w].spoiled => call[w].unpinned
    /\ PinnedRefusesWrites

\* A step that does not touch the head, and takes no call further in a write.
LEMMA PinStep ==
    ASSUME PinInv, UNCHANGED head,
           \A v \in Workers : pc'[v] \in Writing =>
               pc'[v] = pc[v] /\ call'[v] = call[v]
    PROVE  PinInv'
<1>1. "write_append" \in Writing /\ "write_active" \in Writing
    BY DEF Writing
<1> QED BY <1>1 DEF PinInv, PinnedRefusesWrites, At

\* A step of w in the course of a write.
LEMMA PinGoto ==
    ASSUME PinInv, LockInv, UNCHANGED head, NEW w \in Workers,
           \A v \in Workers \ {w} : pc'[v] = pc[v] /\ call'[v] = call[v],
           pc'[w] \in Writing, head = NoVersion => call'[w].unpinned,
           pc'[w] \in {"write_active", "write_append"} => call'[w].spoiled \/ call'[w].unpinned
    PROVE  PinInv'
<1>1. \A v \in Workers : pc'[v] \in Writing /\ head' = NoVersion => call'[v].unpinned
    BY DEF PinInv
<1>2. \A v \in Workers : pc'[v] \in {"write_active", "write_append"} =>
          call'[v].spoiled \/ call'[v].unpinned
    BY DEF PinInv, PinnedRefusesWrites, At
<1> QED BY <1>1, <1>2 DEF PinInv, PinnedRefusesWrites, At

\* No step lets a write past a head.
LEMMA NextPin == ASSUME LockInv, HeapInv, DataInv, PinInv, [Next]_vars PROVE PinInv'
<1>1. ASSUME NEW w \in Workers, Return(w), UNCHANGED head PROVE PinInv'
    <2>1. "idle" \notin Writing /\ "read_head" \notin Writing
        BY DEF Writing
    <2>2. \A v \in Workers : pc'[v] \in Writing => pc'[v] = pc[v] /\ call'[v] = call[v]
        BY <1>1, <2>1, ReturnEffect
    <2> QED BY <1>1, <2>2, PinStep
<1>2. ASSUME NEW w \in Workers, NEW place, Goto(w, place), place \notin Writing,
             \A v \in Workers \ {w} : call'[v] = call[v], UNCHANGED head
      PROVE  PinInv'
    BY <1>2, GotoEffect, PinStep
<1>3. ASSUME NEW w \in Workers, CallWrite(w) PROVE PinInv'
    <2>1. pc'[w] = "write" /\ \A v \in Workers \ {w} : pc'[v] = pc[v]
        BY <1>3, GotoEffect DEF CallWrite
    <2>2. /\ \A v \in Workers \ {w} : call'[v] = call[v]
          /\ call'[w] = [call[w] EXCEPT !.unpinned = (head = NoVersion)]
        BY <1>3 DEF CallWrite, DataInv
    <2>3. "unpinned" \in DOMAIN call[w]
        BY DEF DataInv, Locals
    <2>4. call'[w].unpinned = (head = NoVersion)
        BY <2>2, <2>3, Zenon
    <2> QED BY <1>3, <2>1, <2>2, <2>4, PinGoto DEF CallWrite, Writing
<1>4. ASSUME NEW w \in Workers, AnnounceWrite(w) \/ LockToWrite(w) PROVE PinInv'
    <2>1. PICK place \in {"write_drain", "write_head"} : Goto(w, place)
        BY <1>4 DEF AnnounceWrite, LockToWrite
    <2>2. pc'[w] = place /\ \A v \in Workers \ {w} : pc'[v] = pc[v]
        BY <2>1, GotoEffect
    <2>3. call' = call /\ head' = head /\ pc[w] \in Writing
        BY <1>4 DEF AnnounceWrite, LockToWrite, At, Writing
    <2>4. head = NoVersion => call[w].unpinned
        BY <2>3 DEF PinInv
    <2> QED BY <2>2, <2>3, <2>4, PinGoto DEF Writing
<1>5. ASSUME NEW w \in Workers, CheckWritable(w) PROVE PinInv'
    <2>1. pc'[w] = "write_active" /\ \A v \in Workers \ {w} : pc'[v] = pc[v]
        BY <1>5, GotoEffect DEF CheckWritable
    <2>2. call' = call /\ head' = head /\ head = NoVersion /\ pc[w] \in Writing
        BY <1>5 DEF CheckWritable, At, Writing
    <2>3. call[w].unpinned
        BY <2>2 DEF PinInv
    <2> QED BY <2>1, <2>2, <2>3, PinGoto DEF Writing
<1>6. ASSUME NEW w \in Workers, HeadQueryFails(w) PROVE PinInv'
    <2>1. pc'[w] = "write_active" /\ \A v \in Workers \ {w} : pc'[v] = pc[v]
        BY <1>6, GotoEffect DEF HeadQueryFails
    <2>2. call' = [call EXCEPT ![w].spoiled = TRUE] /\ head' = head /\ pc[w] \in Writing
        BY <1>6 DEF HeadQueryFails, At, Writing
    <2>3. /\ \A v \in Workers \ {w} : call'[v] = call[v]
          /\ call'[w].spoiled /\ call'[w].unpinned = call[w].unpinned
        BY <2>2 DEF DataInv, Locals
    <2>4. head = NoVersion => call[w].unpinned
        BY <2>2 DEF PinInv
    <2> QED BY <2>1, <2>2, <2>3, <2>4, PinGoto DEF Writing
<1>7. ASSUME NEW w \in Workers, FindActive(w) PROVE PinInv'
    <2>1. pc'[w] = "write_append" /\ \A v \in Workers \ {w} : pc'[v] = pc[v]
        BY <1>7, GotoEffect DEF FindActive
    <2>2. call' = call /\ head' = head /\ pc[w] = "write_active" /\ pc[w] \in Writing
        BY <1>7 DEF FindActive, At, Writing
    <2>3. call[w].spoiled \/ call[w].unpinned
        BY <2>2 DEF PinInv, At
    <2>4. head = NoVersion => call[w].unpinned
        BY <2>2 DEF PinInv
    <2> QED BY <2>1, <2>2, <2>3, <2>4, PinGoto DEF Writing
<1>8. CASE SetHead
    <2>1. head' # NoVersion
        BY <1>8 DEF SetHead, DataInv, LayerRow, NoVersion
    <2> QED BY <1>8, <2>1 DEF SetHead, PinInv, PinnedRefusesWrites, At
<1>9. CASE DeleteHead
    <2>1. ASSUME NEW w \in Workers
          PROVE  /\ pc[w] \in Writing => call'[w].unpinned
                 /\ call'[w].spoiled = call[w].spoiled
                 /\ call[w].unpinned => call'[w].unpinned
        BY <1>9, HeadEffect
    <2> QED BY <1>9, <2>1 DEF DeleteHead, PinInv, PinnedRefusesWrites, At
<1>10. CASE Crash
    <2>1. \A w \in Workers : pc'[w] = "idle"
        BY <1>10 DEF Crash
    <2> QED BY <2>1 DEF PinInv, PinnedRefusesWrites, At, Writing
<1>11. CASE UNCHANGED vars
    BY <1>11, PinStep DEF vars, program
<1>12. ASSUME NEW w \in Workers, Returns(w) PROVE PinInv'
    <2>1. Return(w) /\ UNCHANGED head
        BY <1>12, QuietReturnEffect
           DEF Returns, AppendWrite, PutFails, CommitUnacknowledged, DeleteActive
    <2> QED BY <2>1, <1>1
<1>13. ASSUME NEW w \in Workers, InsertVersion(w) \/ PutObject(w) \/ Commit(w) PROVE PinInv'
    <2>1. PICK place \in {"put", "commit", "delete"} : Goto(w, place)
        BY <1>13 DEF InsertVersion, PutObject, Commit
    <2>2. UNCHANGED head /\ \A v \in Workers \ {w} : call'[v] = call[v]
        BY <1>13 DEF InsertVersion, PutObject, Commit, DataInv
    <2> QED BY <1>2, <2>1, <2>2 DEF Writing
<1>14. ASSUME NEW w \in Workers, Quiet(w), ~CallWrite(w), ~AnnounceWrite(w), ~LockToWrite(w),
              ~CheckWritable(w), ~HeadQueryFails(w), ~FindActive(w)
       PROVE  PinInv'
    <2>1. UNCHANGED head /\ \A v \in Workers \ {w} : pc'[v] = pc[v] /\ call'[v] = call[v]
        BY <1>14, QuietGoto
    <2>2. pc'[w] \notin Writing
        <3>1. CASE Fetch(w)
            BY <3>1 DEF Fetch, At, Writing
        <3>2. CASE ~Fetch(w)
            <4>1. PICK place \in QuietPlaces \ Writing : Goto(w, place)
                BY <1>14, <3>2
                   DEF Quiet, Calls, Announces, CallCheckpoint, CallRead, CallSizeOf,
                       AnnounceCheckpoint, LockToCheckpoint, ReadHead, ReadVersionedLayer,
                       ReadMemtable, ReadRows, SizeFromMemtable, SizeRaces,
                       SizeFromDatabase, SizeFromLayer, QuietPlaces, Writing
            <4> QED BY <4>1, GotoEffect
        <3> QED BY <3>1, <3>2
    <2>3. \A v \in Workers : pc'[v] \in Writing => pc'[v] = pc[v] /\ call'[v] = call[v]
        BY <2>1, <2>2
    <2> QED BY <2>1, <2>3, PinStep
<1> QED BY <1>3, <1>4, <1>5, <1>6, <1>7, <1>8, <1>9, <1>10, <1>11, <1>12, <1>13, <1>14
        DEF Next, Steps, Calls, Announces, Statements, Returns, QuietReturns, Quiet

----------------------------------------------------------------------------
(* Sizes                                                                   *)

\* The layer that a call of SizeOf has at hand, and its size.
Hand(w) == Chunks(call[w].layer)
HandSize(w) == HighestEnd(Range(Hand(w)))

\* The size has been the file's during the call: the one it has now; before the
\* database is asked, that of the layers; and, if there are chunks by then, that
\* of the layer at hand.
SizeInv ==
    /\ \A w \in Workers : pc[w] \in Sizing =>
          /\ SizeUnderLock \in sizes[w]
          /\ At(w, "size_db") => HighestEnd(Committed) \in sizes[w]
          /\ pc[w] \in {"size_db", "size_again"} => Hand(w) = << >> \/ HandSize(w) \in sizes[w]
          /\ At(w, "size_again") => call[w].size \in sizes[w]
    /\ SizeOfSomeMoment

\* The highest of two sets of ends is one of theirs.
LEMMA MaxUnion ==
    ASSUME NEW S \in SUBSET (0..MaxEnd), NEW T \in SUBSET (0..MaxEnd), S # {}, T # {}
    PROVE  Max(S \cup T) \in {Max(S), Max(T)}
<1>1. /\ Max(S) \in S /\ \A y \in S : Max(S) >= y
      /\ Max(T) \in T /\ \A y \in T : Max(T) >= y
    BY MaxType
<1>2. S \cup T \in SUBSET (0..MaxEnd) /\ S \cup T # {}
    OBVIOUS
<1>3. Max(S \cup T) \in S \cup T /\ \A y \in S \cup T : Max(S \cup T) >= y
    BY <1>2, MaxType
<1> DEFINE s == Max(S)
           t == Max(T)
           m == Max(S \cup T)
<1>4. s \in S /\ t \in T /\ m \in S \cup T
    BY <1>1, <1>3
<1>5. m >= s /\ m >= t /\ (m \in S => s >= m) /\ (m \in T => t >= m)
    BY <1>1, <1>3, <1>4
<1> HIDE DEF s, t, m
<1>6. \A x \in S \cup T : x \in Int
    OBVIOUS
<1>7. s \in Int /\ t \in Int /\ m \in Int
    BY <1>4, <1>6
<1>8. m \in {s, t}
    BY <1>4, <1>5, <1>7
<1> QED BY <1>8 DEF s, t, m

LEMMA HighestUnion ==
    ASSUME HeapInv, NEW S \in SUBSET (1..writes), NEW T \in SUBSET (1..writes)
    PROVE  HighestEnd(S \cup T) \in {HighestEnd(S), HighestEnd(T)}
<1> DEFINE s == {ends[n] : n \in S} \cup {0}
           t == {ends[n] : n \in T} \cup {0}
<1>1. s \in SUBSET (0..MaxEnd) /\ t \in SUBSET (0..MaxEnd) /\ s # {} /\ t # {}
    BY HighestType
<1>2. s \cup t = {ends[n] : n \in S \cup T} \cup {0}
    OBVIOUS
<1>3. HighestEnd(S) = Max(s) /\ HighestEnd(T) = Max(t) /\ HighestEnd(S \cup T) = Max(s \cup t)
    BY <1>2 DEF HighestEnd
<1> HIDE DEF s, t
<1> QED BY <1>1, <1>3, MaxUnion

\* The ends of earlier writes stay.
LEMMA HighestSame ==
    ASSUME HeapInv, NEW end \in Ends, ends' = Append(ends, end),
           NEW S \in SUBSET (1..writes)
    PROVE  HighestEnd(S)' = HighestEnd(S)
<1>1. \A n \in 1..writes : ends'[n] = ends[n]
    BY DEF HeapInv, writes
<1>2. {ends'[n] : n \in S} = {ends[n] : n \in S}
    BY <1>1
<1> QED BY <1>2 DEF HighestEnd

\* A step that changes no call of SizeOf further than its end, and no size but
\* to the one that the file has then, or has had since the call.
LEMMA SizeStep ==
    ASSUME SizeInv, Observe,
           \A v \in Workers : pc'[v] \in Sizing =>
               /\ pc'[v] = pc[v]
               /\ call'[v].size = call[v].size
               /\ call'[v].spoiled = call[v].spoiled
               /\ \/ Hand(v)' = << >>
                  \/ HandSize(v)' = SizeUnderLock'
                  \/ Hand(v) # << >> /\ HandSize(v)' = HandSize(v),
           HighestEnd(Committed)' \in {HighestEnd(Committed), SizeUnderLock}
    PROVE  SizeInv'
<1> DEFINE now == SizeUnderLock'
<1>1. \A v \in Workers : pc'[v] \in Sizing => sizes'[v] = sizes[v] \cup {now}
    BY DEF Observe
<1> HIDE DEF now
<1>2. ASSUME NEW v \in Workers, pc'[v] \in Sizing
      PROVE  /\ SizeUnderLock' \in sizes'[v]
             /\ pc'[v] = "size_db" => HighestEnd(Committed)' \in sizes'[v]
             /\ pc'[v] \in {"size_db", "size_again"} =>
                    Hand(v)' = << >> \/ HandSize(v)' \in sizes'[v]
             /\ pc'[v] = "size_again" => call'[v].size \in sizes'[v]
             /\ pc'[v] = "size_return" /\ ~call'[v].spoiled => call'[v].size \in sizes'[v]
    <2>1. sizes'[v] = sizes[v] \cup {now} /\ SizeUnderLock' = now /\ pc'[v] = pc[v]
        BY <1>1, <1>2 DEF now
    <2>2. /\ SizeUnderLock \in sizes[v]
          /\ pc[v] = "size_db" => HighestEnd(Committed) \in sizes[v]
          /\ pc[v] \in {"size_db", "size_again"} => Hand(v) = << >> \/ HandSize(v) \in sizes[v]
          /\ pc[v] = "size_again" => call[v].size \in sizes[v]
          /\ pc[v] = "size_return" /\ ~call[v].spoiled => call[v].size \in sizes[v]
        BY <1>2, <2>1 DEF SizeInv, SizeOfSomeMoment, At
    <2> QED BY <1>2, <2>1, <2>2
<1>3. \A v \in Workers : At(v, "size_return")' => pc'[v] \in Sizing
    BY DEF At, Sizing
<1> QED BY <1>2, <1>3 DEF SizeInv, SizeOfSomeMoment, At

\* The same of steps that leave the layers and the ends alone.
LEMMA SizeSame ==
    ASSUME SizeInv, Observe, UNCHANGED <<layers, ends>>,
           \A v \in Workers : pc'[v] \in Sizing =>
               /\ pc'[v] = pc[v]
               /\ call'[v].size = call[v].size
               /\ call'[v].spoiled = call[v].spoiled
               /\ Hand(v)' = Hand(v)
    PROVE  SizeInv'
<1>1. HighestEnd(Committed)' = HighestEnd(Committed)
    BY DEF HighestEnd, Committed, Seen
<1>2. \A v \in Workers : Hand(v)' = Hand(v) => HandSize(v)' = HandSize(v)
    BY DEF HandSize, HighestEnd
<1> QED BY <1>1, <1>2, SizeStep

\* A step of w in SizeOf, which changes nothing but its own place and locals.
LEMMA SizeGoto ==
    ASSUME SizeInv, Observe, NEW w \in Workers, UNCHANGED <<actives, memtable, layers, ends>>,
           \A v \in Workers \ {w} : pc'[v] = pc[v] /\ call'[v] = call[v],
           pc'[w] \in Sizing =>
               LET now == SizeUnderLock
               IN  /\ pc'[w] = "size_db" => HighestEnd(Committed) \in sizes[w] \cup {now}
                   /\ pc'[w] \in {"size_db", "size_again"} =>
                          Hand(w)' = << >> \/ HandSize(w)' \in sizes[w] \cup {now}
                   /\ pc'[w] = "size_again" => call'[w].size \in sizes[w] \cup {now}
                   /\ pc'[w] = "size_return" /\ ~call'[w].spoiled =>
                          call'[w].size \in sizes[w] \cup {now}
    PROVE  SizeInv'
<1>1. /\ HighestEnd(Committed)' = HighestEnd(Committed) /\ Active' = Active
      /\ SizeUnderLock' = SizeUnderLock
    BY DEF HighestEnd, Committed, Seen, SizeUnderLock, Active, Chunks
<1>2. \A v \in Workers : pc'[v] \in Sizing => sizes'[v] = sizes[v] \cup {SizeUnderLock}
    BY <1>1 DEF Observe
<1>3. \A v \in Workers \ {w} : Hand(v)' = Hand(v) /\ HandSize(v)' = HandSize(v)
    BY DEF Hand, HandSize, HighestEnd, Chunks
<1>4. ASSUME NEW v \in Workers, pc'[v] \in Sizing
      PROVE  /\ SizeUnderLock' \in sizes'[v]
             /\ pc'[v] = "size_db" => HighestEnd(Committed)' \in sizes'[v]
             /\ pc'[v] \in {"size_db", "size_again"} =>
                    Hand(v)' = << >> \/ HandSize(v)' \in sizes'[v]
             /\ pc'[v] = "size_again" => call'[v].size \in sizes'[v]
             /\ pc'[v] = "size_return" /\ ~call'[v].spoiled => call'[v].size \in sizes'[v]
    <2>1. CASE v = w
        BY <1>1, <1>2, <1>4, <2>1
    <2>2. CASE v # w
        BY <1>1, <1>2, <1>3, <1>4, <2>2 DEF SizeInv, SizeOfSomeMoment, At
    <2> QED BY <2>1, <2>2
<1>5. \A v \in Workers : At(v, "size_return")' => pc'[v] \in Sizing
    BY DEF At, Sizing
<1> QED BY <1>4, <1>5 DEF SizeInv, SizeOfSomeMoment, At

\* No step makes SizeOf answer what has not been the size since its call.
LEMMA NextSize ==
    ASSUME LockInv, HeapInv, DataInv, DataInv', AckInv, SizeInv, [Next]_vars
    PROVE  SizeInv'
<1>1. ASSUME NEW w \in Workers, Return(w)
      PROVE  \A v \in Workers : pc'[v] \in Sizing => pc'[v] = pc[v] /\ call'[v] = call[v]
    BY <1>1, ReturnEffect DEF Sizing
<1>2. ASSUME NEW w \in Workers, AppendWrite(w), Observe PROVE SizeInv'
    <2>1. /\ writes \in Nat /\ Active' = Append(Active, writes + 1)
          /\ memtable \in DOMAIN actives /\ memtable' = memtable /\ memtable # NoLayer
          /\ actives' = [actives EXCEPT ![memtable] = Append(Active, writes + 1)]
          /\ UNCHANGED <<layers>> /\ Return(w)
        BY <1>2, AppendEffect
    <2>2. PICK end \in Ends : ends' = Append(ends, end)
        BY <1>2, AppendEffect
    <2>3. HighestEnd(Committed)' = HighestEnd(Committed)
        <3>1. PICK C \in SUBSET (1..writes) : C = Committed
            BY CommittedType
        <3>2. Committed' = C
            BY <2>1, <3>1 DEF Committed, Seen
        <3>3. HighestEnd(C)' = HighestEnd(C)
            BY <2>2, HighestSame
        <3>4. HighestEnd(Committed)' = HighestEnd(C)'
            BY <3>2 DEF HighestEnd
        <3> QED BY <3>1, <3>3, <3>4
    <2>4. SizeUnderLock' = HighestEnd(Range(Active))'
        <3>1. Active' # << >>
            BY <2>1 DEF DataInv
        <3> QED BY <3>1 DEF SizeUnderLock
    <2>5. ASSUME NEW v \in Workers, call'[v] = call[v]
          PROVE  \/ Hand(v)' = << >>
                 \/ HandSize(v)' = SizeUnderLock'
                 \/ Hand(v) # << >> /\ HandSize(v)' = HandSize(v)
        <3>1. CASE call[v].layer = memtable
            <4>1. Hand(v)' = Active'
                BY <2>1, <2>5, <3>1 DEF Hand, Active
            <4> QED BY <2>4, <4>1 DEF HandSize
        <3>2. CASE call[v].layer # memtable
            <4>1. Hand(v)' = Hand(v)
                BY <2>1, <2>5, <3>2 DEF Hand, Chunks, HeapInv
            <4>2. PICK S \in SUBSET (1..writes) : S = Range(Hand(v))
                BY ChunksType DEF Hand
            <4>3. HighestEnd(S)' = HighestEnd(S)
                BY <2>2, HighestSame
            <4>4. HandSize(v) = HighestEnd(S) /\ HandSize(v)' = HighestEnd(S)'
                BY <4>1, <4>2 DEF HandSize, HighestEnd
            <4> QED BY <4>1, <4>3, <4>4
        <3> QED BY <3>1, <3>2
    <2>6. \A v \in Workers : pc'[v] \in Sizing => pc'[v] = pc[v] /\ call'[v] = call[v]
        BY <1>1, <2>1
    <2> QED BY <1>2, <2>3, <2>5, <2>6, SizeStep
<1>3. ASSUME NEW w \in Workers, Observe, Commit(w) \/ CommitUnacknowledged(w)
      PROVE  SizeInv'
    <2>1. Committed' = Committed \cup Range(Active)
        BY <1>3, CommitAdds DEF Commit, CommitUnacknowledged
    <2>2. UNCHANGED <<actives, memtable, ends, writes>>
        BY <1>3, SameHistory DEF Commit, CommitUnacknowledged, active
    <2>3. HighestEnd(Committed)' \in {HighestEnd(Committed), SizeUnderLock}
        <3>1. HighestEnd(Committed)' = HighestEnd(Committed \cup Range(Active))
            BY <2>1, <2>2 DEF HighestEnd
        <3>2. CASE Active = << >>
            <4>1. Committed \cup Range(Active) = Committed
                BY <3>2 DEF Range
            <4> QED BY <3>1, <4>1
        <3>3. CASE Active # << >>
            <4>1. SizeUnderLock = HighestEnd(Range(Active))
                BY <3>3 DEF SizeUnderLock
            <4>2. Committed \in SUBSET (1..writes) /\ Range(Active) \in SUBSET (1..writes)
                BY CommittedType DEF DataInv
            <4> QED BY <3>1, <4>1, <4>2, HighestUnion
        <3> QED BY <3>2, <3>3
    <2>4. \A v \in Workers : pc'[v] \in Sizing => pc'[v] = pc[v] /\ call'[v] = call[v]
        <3>1. CASE Commit(w)
            <4>1. pc'[w] = "delete" /\ call' = call /\ \A v \in Workers \ {w} : pc'[v] = pc[v]
                BY <3>1, GotoEffect DEF Commit
            <4> QED BY <4>1 DEF Sizing
        <3>2. CASE CommitUnacknowledged(w)
            BY <1>1, <3>2 DEF CommitUnacknowledged
        <3> QED BY <1>3, <3>1, <3>2
    <2>5. ASSUME NEW v \in Workers, call'[v] = call[v]
          PROVE  Hand(v)' = Hand(v) /\ HandSize(v)' = HandSize(v)
        BY <2>2, <2>5 DEF Hand, HandSize, HighestEnd, Chunks
    <2> QED BY <1>3, <2>3, <2>4, <2>5, SizeStep
<1>4. ASSUME NEW w \in Workers, Observe, QuietReturns(w) \/ PutFails(w) \/ DeleteActive(w)
      PROVE  SizeInv'
    <2>1. Return(w) /\ UNCHANGED <<actives, layers, ends>>
        BY <1>4, QuietReturnEffect, SameHistory
           DEF PutFails, DeleteActive, stored, data, active
    <2>2. \A v \in Workers : call'[v] = call[v] => Hand(v)' = Hand(v)
        BY <2>1 DEF Hand, Chunks
    <2> QED BY <1>1, <1>4, <2>1, <2>2, SizeSame
<1>5. ASSUME NEW w \in Workers, Observe, InsertVersion(w) \/ PutObject(w) PROVE SizeInv'
    <2>1. UNCHANGED <<actives, layers, ends>>
        BY <1>5, SameHistory DEF InsertVersion, PutObject, active
    <2>2. pc'[w] \in {"put", "commit"} /\ \A v \in Workers \ {w} : pc'[v] = pc[v]
        BY <1>5, GotoEffect DEF InsertVersion, PutObject
    <2>3. \A v \in Workers \ {w} : call'[v] = call[v]
        BY <1>5 DEF InsertVersion, PutObject, DataInv
    <2>4. \A v \in Workers : call'[v] = call[v] => Hand(v)' = Hand(v)
        BY <2>1 DEF Hand, Chunks
    <2>5. pc'[w] \notin Sizing
        BY <2>2 DEF Sizing
    <2> QED BY <1>5, <2>1, <2>2, <2>3, <2>4, <2>5, SizeSame
<1>6. ASSUME NEW w \in Workers, Observe, FindActive(w) PROVE SizeInv'
    <2>1. UNCHANGED <<layers, ends, call>>
        BY <1>6, SameHistory DEF FindActive, stored
    <2>2. pc'[w] = "write_append" /\ \A v \in Workers \ {w} : pc'[v] = pc[v]
        BY <1>6, GotoEffect DEF FindActive
    <2>3. pc'[w] \notin Sizing
        BY <2>2 DEF Sizing
    <2>4. \A v \in Workers : Hand(v)' = Hand(v)
        BY <1>6, <2>1, FindEffect DEF Hand, Chunks, HeapInv
    <2> QED BY <1>6, <2>1, <2>2, <2>3, <2>4, SizeSame
<1>7. ASSUME NEW w \in Workers, Observe, SizeFromMemtable(w) PROVE SizeInv'
    <2>1. /\ UNCHANGED <<actives, memtable, layers, ends>>
          /\ \A v \in Workers \ {w} : pc'[v] = pc[v] /\ call'[v] = call[v]
        BY <1>7, SameHistory, QuietGoto DEF SizeFromMemtable, Quiet, stored, active
    <2>2. CASE Active # << >>
        <3> DEFINE size == HighestEnd(Range(Active))
        <3>1. size = SizeUnderLock
            BY <2>2 DEF SizeUnderLock
        <3>2. call' = [call EXCEPT ![w].size = size] /\ pc'[w] = "size_return"
            BY <1>7, <2>2, GotoEffect DEF SizeFromMemtable
        <3> HIDE DEF size
        <3>3. call'[w].size = size
            BY <3>2 DEF DataInv, Locals
        <3> QED BY <1>7, <2>1, <3>1, <3>2, <3>3, SizeGoto
    <2>3. CASE Active = << >>
        <3>1. call' = [call EXCEPT ![w].layer = memtable] /\ pc'[w] = "size_db"
            BY <1>7, <2>3, GotoEffect DEF SizeFromMemtable
        <3>2. call'[w].layer = memtable
            BY <3>1 DEF DataInv, Locals
        <3>3. Hand(w)' = << >>
            BY <2>1, <2>3, <3>2 DEF Hand, Active, Chunks
        <3>4. SizeUnderLock = HighestEnd(Committed)
            BY <2>3 DEF SizeUnderLock
        <3> QED BY <1>7, <2>1, <3>1, <3>3, <3>4, SizeGoto
    <2> QED BY <2>2, <2>3
<1>8. ASSUME NEW w \in Workers, Observe, SizeRaces(w) PROVE SizeInv'
    <2>1. /\ UNCHANGED <<actives, memtable, layers, ends>>
          /\ \A v \in Workers \ {w} : pc'[v] = pc[v] /\ call'[v] = call[v]
        BY <1>8, SameHistory, QuietGoto DEF SizeRaces, Quiet, stored, active
    <2>2. pc'[w] = "size_return"
        BY <1>8, GotoEffect DEF SizeRaces
    <2>3. call'[w].spoiled
        BY <1>8 DEF SizeRaces, DataInv, Locals
    <2> QED BY <1>8, <2>1, <2>2, <2>3, SizeGoto
<1>9. ASSUME NEW w \in Workers, Observe, SizeFromDatabase(w) PROVE SizeInv'
    <2> DEFINE size == HighestEnd(Committed)
    <2>1. /\ UNCHANGED <<actives, memtable, layers, ends>>
          /\ \A v \in Workers \ {w} : pc'[v] = pc[v] /\ call'[v] = call[v]
        BY <1>9, SameHistory, QuietGoto DEF SizeFromDatabase, Quiet, stored, active
    <2>2. size \in sizes[w] /\ (Hand(w) = << >> \/ HandSize(w) \in sizes[w])
        BY <1>9 DEF SizeFromDatabase, SizeInv, At, Sizing
    <2>3. call' = [call EXCEPT ![w].size = size] /\ pc'[w] = "size_again"
        BY <1>9, GotoEffect DEF SizeFromDatabase
    <2> HIDE DEF size
    <2>4. call'[w].size = size /\ call'[w].layer = call[w].layer
        BY <2>3 DEF DataInv, Locals
    <2>5. Hand(w)' = Hand(w) /\ HandSize(w)' = HandSize(w)
        BY <2>1, <2>4 DEF Hand, HandSize, HighestEnd, Chunks
    <2> QED BY <1>9, <2>1, <2>2, <2>3, <2>4, <2>5, SizeGoto
<1>10. ASSUME NEW w \in Workers, Observe, SizeFromLayer(w) PROVE SizeInv'
    <2> DEFINE size == Max({call[w].size, HandSize(w)})
    <2>1. /\ UNCHANGED <<actives, memtable, layers, ends>>
          /\ \A v \in Workers \ {w} : pc'[v] = pc[v] /\ call'[v] = call[v]
        BY <1>10, SameHistory, QuietGoto DEF SizeFromLayer, Quiet, stored, active
    <2>2. /\ call[w].size \in sizes[w]
          /\ Hand(w) = << >> \/ HandSize(w) \in sizes[w]
        BY <1>10 DEF SizeFromLayer, SizeInv, At, Sizing
    <2>3. call[w].size \in 0..MaxEnd /\ HandSize(w) \in 0..MaxEnd
        BY ChunksType, HighestType DEF HandSize, Hand, DataInv, Locals
    <2>4. /\ size \in {call[w].size, HandSize(w)}
          /\ size >= call[w].size
        BY <2>3, MaxType
    <2>5. Hand(w) = << >> => HandSize(w) = 0
        <3>1. Hand(w) = << >> => Range(Hand(w)) = {}
            BY DEF Range
        <3>2. HighestEnd({}) \in {ends[n] : n \in {}} \cup {0}
            BY HighestType
        <3>3. HighestEnd({}) = 0
            BY <3>2
        <3> QED BY <3>1, <3>3 DEF HandSize
    <2>6. call' = [call EXCEPT ![w].size = size] /\ pc'[w] = "size_return"
        BY <1>10, GotoEffect DEF SizeFromLayer, HandSize, Hand, DataInv
    <2> HIDE DEF size
    <2>7. size \in sizes[w]
        BY <2>2, <2>3, <2>4, <2>5
    <2>8. call'[w].size = size
        BY <2>6 DEF DataInv, Locals
    <2> QED BY <1>10, <2>1, <2>6, <2>7, <2>8, SizeGoto
<1>11. ASSUME NEW w \in Workers, Observe, Quiet(w), ~FindActive(w), ~SizeFromMemtable(w),
              ~SizeRaces(w), ~SizeFromDatabase(w), ~SizeFromLayer(w)
       PROVE  SizeInv'
    <2>1. UNCHANGED <<actives, memtable, layers, ends>>
        BY <1>11, SameHistory
           DEF Quiet, Calls, Announces, CallWrite, CallCheckpoint, CallRead, CallSizeOf,
               AnnounceWrite, AnnounceCheckpoint, LockToWrite, LockToCheckpoint,
               CheckWritable, HeadQueryFails, ReadHead, ReadVersionedLayer, ReadMemtable,
               ReadRows, Fetch, stored, active
    <2>2. \A v \in Workers \ {w} : pc'[v] = pc[v] /\ call'[v] = call[v]
        BY <1>11, QuietGoto
    <2>3. pc'[w] \in Sizing => pc'[w] = "size_memtable"
        <3>1. CASE Fetch(w)
            BY <3>1 DEF Fetch, At, Sizing
        <3>2. CASE ~Fetch(w)
            <4>1. PICK place \in (QuietPlaces \ Sizing) \cup {"size_memtable"} : Goto(w, place)
                BY <1>11, <3>2
                   DEF Quiet, Calls, Announces, CallWrite, CallCheckpoint, CallRead,
                       CallSizeOf, AnnounceWrite, AnnounceCheckpoint, LockToWrite,
                       LockToCheckpoint, CheckWritable, HeadQueryFails, ReadHead,
                       ReadVersionedLayer, ReadMemtable, ReadRows, QuietPlaces, Sizing
            <4> QED BY <4>1, GotoEffect
        <3> QED BY <3>1, <3>2
    <2> QED BY <1>11, <2>1, <2>2, <2>3, SizeGoto
<1>12. CASE (SetHead \/ DeleteHead) /\ Observe
    <2>1. UNCHANGED <<actives, layers, ends, pc>>
        BY <1>12, SameHistory DEF SetHead, DeleteHead, stored, active
    <2>2. ASSUME NEW v \in Workers
          PROVE  /\ call'[v].layer = call[v].layer /\ call'[v].size = call[v].size
                 /\ call'[v].spoiled = call[v].spoiled
        BY <1>12, HeadEffect DEF SetHead
    <2>3. \A v \in Workers : Hand(v)' = Hand(v)
        BY <2>1, <2>2 DEF Hand, Chunks
    <2> QED BY <1>12, <2>1, <2>2, <2>3, SizeSame
<1>13. CASE Crash
    <2>1. \A w \in Workers : pc'[w] = "idle"
        BY <1>13 DEF Crash
    <2> QED BY <2>1 DEF SizeInv, SizeOfSomeMoment, At, Sizing
<1>14. CASE UNCHANGED vars
    <2>1. UNCHANGED <<actives, memtable, layers, ends, pc, call, sizes>>
        BY <1>14, SameHistory DEF vars, program, stored, active
    <2>2. /\ HighestEnd(Committed)' = HighestEnd(Committed)
          /\ SizeUnderLock' = SizeUnderLock
          /\ \A v \in Workers : Hand(v)' = Hand(v) /\ HandSize(v)' = HandSize(v)
        BY <2>1 DEF HighestEnd, Committed, Seen, SizeUnderLock, Active, Chunks, Hand, HandSize
    <2> QED BY <2>1, <2>2 DEF SizeInv, SizeOfSomeMoment, At
<1> QED BY <1>2, <1>3, <1>4, <1>5, <1>6, <1>7, <1>8, <1>9, <1>10, <1>11, <1>12, <1>13, <1>14
        DEF Next, Steps, Statements, Quiet, QuietReturns

----------------------------------------------------------------------------
(* Versions                                                                *)

\* What an append does to what the layers show: the new layer is on top.
LEMMA CommitEffect ==
    ASSUME DataInv, DataInv', NEW w \in Workers, At(w, "commit"), NEW acknowledged \in BOOLEAN,
           CommittedLayer(w, acknowledged)
    PROVE  LET n == Len(layers) + 1 IN
           /\ n \notin DOMAIN layers /\ DOMAIN layers' = DOMAIN layers \cup {n}
           /\ Len(layers') = n
           /\ \A i \in DOMAIN layers : i < n /\ layers'[i] = layers[i]
           /\ layers'[n].version = call[w].version
           /\ layers'[n].writes = Active
           /\ layers'[n].acknowledged = acknowledged
           /\ layers'[n].content = Surviving
           /\ \A i \in DOMAIN layers : Seen(i)' = Seen(i)
           /\ \A i \in DOMAIN layers' \ DOMAIN layers : Seen(i)' = Committed \cup Range(Active)
<1> DEFINE n == Len(layers) + 1
           row == [version |-> call[w].version, writes |-> Active,
                   acknowledged |-> acknowledged, content |-> Surviving]
<1>1. row \in LayerRow /\ layers' = Append(layers, row) /\ layers \in Seq(LayerRow)
    BY CommittedRow DEF DataInv
<1>2. /\ row.version = call[w].version /\ row.writes = Active
      /\ row.acknowledged = acknowledged /\ row.content = Surviving
    OBVIOUS
<1> HIDE DEF row
<1>3. /\ DOMAIN layers' = DOMAIN layers \cup {n} /\ Len(layers') = n
      /\ \A i \in DOMAIN layers : layers'[i] = layers[i]
      /\ layers'[n] = row
    BY <1>1, RangeAppend
<1>4. DOMAIN layers = 1..Len(layers) /\ Len(layers) \in Nat
    BY <1>1
<1>5. \A i \in DOMAIN layers : i \in Nat /\ i < n
    BY <1>4
<1>6. n \notin DOMAIN layers
    BY <1>4
<1>7. ASSUME NEW i \in DOMAIN layers PROVE Seen(i)' = Seen(i)
    <2>1. {k \in DOMAIN layers' : k <= i} = {k \in DOMAIN layers : k <= i}
        BY <1>3, <1>4, <1>5
    <2>2. \A k \in {k \in DOMAIN layers : k <= i} : layers'[k] = layers[k]
        BY <1>3
    <2> QED BY <2>1, <2>2 DEF Seen
<1>8. ASSUME NEW i \in DOMAIN layers' \ DOMAIN layers
      PROVE  Seen(i)' = Committed \cup Range(Active)
    <2>1. Committed' = Committed \cup Range(Active)
        BY CommitAdds
    <2>2. i = Len(layers')
        BY <1>3
    <2> QED BY <2>1, <2>2 DEF Committed, Seen
<1> QED BY <1>2, <1>3, <1>5, <1>6, <1>7, <1>8

\* Ids grow with the layers; a checkpoint holds the highest, no layer has it, and
\* its object is the active layer; the active layer is in order and on top of
\* what is committed, and shares writes only with layers that nobody knows of.
SaveInv ==
    /\ \A i, j \in DOMAIN layers : i < j => layers[i].version < layers[j].version
    /\ \A w \in Workers : pc[w] \in {"put", "commit"} =>
          /\ call[w].version = versionSeq
          /\ \A i \in DOMAIN layers : layers[i].version < versionSeq
    /\ \A w \in Workers : pc[w] = "commit" => objects[versionSeq] = Active
    /\ \A j, k \in DOMAIN Active : j < k => Active[j] < Active[k]
    /\ \A x \in Range(Active), y \in Committed : y > x => y \in Range(Active)
    /\ \A i \in DOMAIN layers : Range(layers[i].writes) \cap Range(Active) # {} =>
          \/ ~layers[i].acknowledged
          \/ i = Len(layers) /\ \E w \in Workers : pc[w] = "delete"
    /\ VersionHoldsItsWrites
    /\ SavedOnce

\* A step that leaves rows, objects and the active layer alone.
LEMMA SaveStep ==
    ASSUME SaveInv, UNCHANGED <<Active, versionSeq, layers, objects>>,
           \A v \in Workers : pc'[v] \in {"put", "commit"} =>
               pc'[v] = pc[v] /\ call'[v].version = call[v].version,
           \A v \in Workers : pc[v] = "delete" => pc'[v] = "delete"
    PROVE  SaveInv'
<1>1. Committed' = Committed /\ \A i : Seen(i)' = Seen(i)
    BY DEF Committed, Seen
<1>2. VersionHoldsItsWrites' /\ SavedOnce'
    BY <1>1 DEF SaveInv, VersionHoldsItsWrites, SavedOnce
<1> QED BY <1>1, <1>2 DEF SaveInv

\* The same if the active layer goes.
LEMMA SaveEmpty ==
    ASSUME SaveInv, Active' = << >>, UNCHANGED <<versionSeq, layers, objects>>,
           \A v \in Workers : pc'[v] \notin {"put", "commit"}
    PROVE  SaveInv'
<1>1. Committed' = Committed /\ \A i : Seen(i)' = Seen(i)
    BY DEF Committed, Seen
<1>2. VersionHoldsItsWrites' /\ SavedOnce'
    BY <1>1 DEF SaveInv, VersionHoldsItsWrites, SavedOnce
<1>3. DOMAIN Active' = {} /\ Range(Active') = {}
    BY DEF Range
<1> QED BY <1>1, <1>2, <1>3 DEF SaveInv

\* The same if only objects of the highest id change, which no layer has.
LEMMA SaveObject ==
    ASSUME LockInv, HeapInv, DataInv, SaveInv, NEW w \in Workers, At(w, "put"),
           Stored(call[w].version), UNCHANGED <<Active, versionSeq, layers>>,
           \A v \in Workers \ {w} : pc'[v] \in {"put", "commit"} =>
               pc'[v] = pc[v] /\ call'[v].version = call[v].version,
           pc'[w] # "idle" => pc'[w] = "commit" /\ call'[w].version = call[w].version,
           \A v \in Workers : pc[v] = "delete" => pc'[v] = "delete"
    PROVE  SaveInv'
<1>1. call[w].version = versionSeq /\ versionSeq \in 1..versionSeq
    BY DEF SaveInv, DataInv, At
<1>2. /\ DOMAIN objects' = DOMAIN objects \cup {versionSeq}
      /\ objects'[versionSeq] = Active
      /\ \A v \in DOMAIN objects \ {versionSeq} : objects'[v] = objects[v]
    BY <1>1, StoredType
<1>3. \A i \in DOMAIN layers : layers[i].version < versionSeq
    BY DEF SaveInv, At
<1>4. \A i \in DOMAIN layers : layers[i].version \in DOMAIN objects \ {versionSeq}
    <2>1. \A i \in DOMAIN layers : layers[i].version \in DOMAIN objects
        BY DEF DataInv
    <2>2. versionSeq \in Nat
        BY LimitsAssumption DEF DataInv
    <2> QED BY <1>3, <2>1, <2>2
<1>5. Committed' = Committed /\ \A i : Seen(i)' = Seen(i)
    BY DEF Committed, Seen
<1>6. \A i \in DOMAIN layers : objects'[layers[i].version] = objects[layers[i].version]
    BY <1>2, <1>4
<1>7. VersionHoldsItsWrites' /\ SavedOnce'
    BY <1>2, <1>5, <1>6 DEF SaveInv, VersionHoldsItsWrites, SavedOnce
<1>8. \A v \in Workers : pc'[v] \in {"put", "commit"} =>
          call'[v].version = versionSeq
    BY <1>1 DEF SaveInv
<1> QED BY <1>2, <1>3, <1>5, <1>7, <1>8 DEF SaveInv

\* A commit, acknowledged or not.
LEMMA CommitSave ==
    ASSUME LockInv, HeapInv, DataInv, DataInv', AckInv, SaveInv, NEW w \in Workers, At(w, "commit"),
           NEW acknowledged \in BOOLEAN, CommittedLayer(w, acknowledged),
           UNCHANGED <<Active, versionSeq, objects>>,
           \A v \in Workers : pc'[v] \notin {"put", "commit"},
           acknowledged => pc'[w] = "delete"
    PROVE  SaveInv'
<1> DEFINE n == Len(layers) + 1
<1>1. /\ n \notin DOMAIN layers /\ DOMAIN layers' = DOMAIN layers \cup {n}
      /\ Len(layers') = n
      /\ \A i \in DOMAIN layers : i < n /\ layers'[i] = layers[i]
      /\ layers'[n].version = call[w].version
      /\ layers'[n].writes = Active
      /\ layers'[n].acknowledged = acknowledged
      /\ layers'[n].content = Surviving
      /\ \A i \in DOMAIN layers : Seen(i)' = Seen(i)
      /\ \A i \in DOMAIN layers' \ DOMAIN layers : Seen(i)' = Committed \cup Range(Active)
    BY CommitEffect
<1>2. layers \in Seq(LayerRow)
    BY DEF DataInv
<1>3. DOMAIN layers \subseteq Nat /\ n \in Nat
    BY <1>2
<1> HIDE DEF n
<1>4. /\ call[w].version = versionSeq /\ objects[versionSeq] = Active
      /\ \A i \in DOMAIN layers : layers[i].version < versionSeq
      /\ versionSeq \in DOMAIN objects
    BY DEF SaveInv, DataInv, At
<1>5. \A v \in Workers : pc[v] # "delete"
    BY OneWriter DEF At, Exclusive
<1>6. \A i \in DOMAIN layers : Range(layers[i].writes) \cap Range(Active) # {} =>
          ~layers[i].acknowledged
    BY <1>5 DEF SaveInv
<1>7. Committed' = Committed \cup Range(Active)
    BY CommitAdds
<1>8. Committed \cup Range(Active) = Surviving
    <2>1. Committed \subseteq 1..writes
        BY CommittedType
    <2> QED BY <2>1 DEF AckInv, AckedWritesKept, Surviving, DataInv
<1>9. \A i, j \in DOMAIN layers' : i < j => layers'[i].version < layers'[j].version
    <2>1. \A i \in DOMAIN layers : ~(n < i)
        BY <1>1, <1>3
    <2>2. ~(n < n)
        BY <1>3
    <2> QED BY <1>1, <1>4, <2>1, <2>2 DEF SaveInv
<1>10. \A x \in Range(Active), y \in Committed' : y > x => y \in Range(Active)
    BY <1>7 DEF SaveInv
<1>11. \A i \in DOMAIN layers' : Range(layers'[i].writes) \cap Range(Active) # {} =>
          \/ ~layers'[i].acknowledged
          \/ i = Len(layers') /\ \E v \in Workers : pc'[v] = "delete"
    BY <1>1, <1>6
<1>12. SavedOnce'
    <2>1. \A i \in DOMAIN layers : ~(n < i)
        BY <1>1, <1>3
    <2>2. ~(n < n)
        BY <1>3
    <2> QED BY <1>1, <1>6, <2>1, <2>2 DEF SaveInv, SavedOnce
<1>13. VersionHoldsItsWrites'
    <2>1. ASSUME NEW i \in DOMAIN layers
          PROVE  /\ layers'[i].version \in DOMAIN objects'
                 /\ objects'[layers'[i].version] = layers'[i].writes
                 /\ Seen(i)' = layers'[i].content
                 /\ \A j, k \in DOMAIN layers'[i].writes :
                       j < k => layers'[i].writes[j] < layers'[i].writes[k]
                 /\ \A older \in 1..(i - 1), x \in Range(layers'[i].writes) :
                       \A y \in Range(layers'[older].writes) :
                           y > x => y \in Range(layers'[i].writes)
        <3>1. /\ layers[i].version \in DOMAIN objects
              /\ objects[layers[i].version] = layers[i].writes
              /\ Seen(i) = layers[i].content
              /\ \A j, k \in DOMAIN layers[i].writes :
                    j < k => layers[i].writes[j] < layers[i].writes[k]
              /\ \A older \in 1..(i - 1), x \in Range(layers[i].writes) :
                    \A y \in Range(layers[older].writes) :
                        y > x => y \in Range(layers[i].writes)
            BY DEF SaveInv, VersionHoldsItsWrites
        <3>2. \A older \in 1..(i - 1) : older \in DOMAIN layers
            BY <1>2
        <3> QED BY <1>1, <3>1, <3>2
    <2>2. /\ layers'[n].version \in DOMAIN objects'
          /\ objects'[layers'[n].version] = layers'[n].writes
          /\ \A j, k \in DOMAIN layers'[n].writes :
                j < k => layers'[n].writes[j] < layers'[n].writes[k]
        BY <1>1, <1>4, <1>8 DEF SaveInv
    <2>3. ASSUME NEW older \in 1..(n - 1), NEW x \in Range(layers'[n].writes),
                 NEW y \in Range(layers'[older].writes), y > x
          PROVE  y \in Range(layers'[n].writes)
        <3>1. older \in DOMAIN layers
            BY <1>2 DEF n
        <3>2. y \in Range(layers[older].writes) /\ x \in Range(Active)
            BY <1>1, <3>1
        <3>3. y \in Committed
            BY <1>2, <3>1, <3>2, CommittedIs
        <3> QED BY <1>1, <2>3, <3>2, <3>3 DEF SaveInv
    <2>4. ASSUME NEW i \in DOMAIN layers'
          PROVE  /\ layers'[i].version \in DOMAIN objects'
                 /\ objects'[layers'[i].version] = layers'[i].writes
                 /\ Seen(i)' = layers'[i].content
                 /\ \A j, k \in DOMAIN layers'[i].writes :
                       j < k => layers'[i].writes[j] < layers'[i].writes[k]
                 /\ \A older \in 1..(i - 1), x \in Range(layers'[i].writes) :
                       \A y \in Range(layers'[older].writes) :
                           y > x => y \in Range(layers'[i].writes)
        <3>1. CASE i \in DOMAIN layers
            BY <2>1, <3>1
        <3>2. CASE i = n
            <4>1. Seen(i)' = layers'[i].content
                BY <1>1, <1>8, <3>2
            <4>2. \A older \in 1..(n - 1), x \in Range(layers'[n].writes) :
                      \A y \in Range(layers'[older].writes) :
                          y > x => y \in Range(layers'[n].writes)
                BY <2>3
            <4> QED BY <2>2, <3>2, <4>1, <4>2
        <3> QED BY <1>1, <3>1, <3>2
    <2> QED BY <2>4 DEF VersionHoldsItsWrites
<1>14. \A j, k \in DOMAIN Active' : j < k => Active'[j] < Active'[k]
    BY DEF SaveInv
<1> QED BY <1>9, <1>10, <1>11, <1>12, <1>13, <1>14 DEF SaveInv

\* Every step keeps versions whole and in order.
LEMMA NextSave ==
    ASSUME LockInv, HeapInv, DataInv, DataInv', AckInv, SaveInv, [Next]_vars
    PROVE  SaveInv'
<1>1. ASSUME NEW w \in Workers, pc[w] \in Exclusive
      PROVE  \A v \in Workers \ {w} : pc[v] \notin {"put", "commit", "delete"}
    BY <1>1, OneWriter DEF Exclusive
<1>2. ASSUME NEW w \in Workers, Return(w)
      PROVE  /\ \A v \in Workers : pc'[v] \in {"put", "commit"} =>
                    v # w /\ pc'[v] = pc[v] /\ call'[v] = call[v]
             /\ \A v \in Workers \ {w} : pc[v] = "delete" => pc'[v] = "delete"
    <2>1. \A v \in Workers \ {w} : pc[v] = "delete" => pc'[v] = "delete"
        BY <1>2, AdmittedType DEF Return
    <2> QED BY <1>2, <2>1, ReturnEffect
<1>3. ASSUME NEW w \in Workers, AppendWrite(w) PROVE SaveInv'
    <2>1. /\ writes \in Nat /\ writes + 1 \in Writes /\ Active \in Seq(Writes)
          /\ Active' = Append(Active, writes + 1) /\ Return(w)
          /\ UNCHANGED <<versionSeq, layers, objects>>
        BY <1>3, AppendEffect DEF DataInv
    <2>2. /\ Range(Active') = Range(Active) \cup {writes + 1}
          /\ DOMAIN Active' = DOMAIN Active \cup {Len(Active) + 1}
          /\ \A i \in DOMAIN Active : Active'[i] = Active[i]
          /\ Active'[Len(Active) + 1] = writes + 1
        BY <2>1, RangeAppend
    <2>3. \A v \in Workers : pc[v] \notin {"put", "commit", "delete"}
        BY <1>1, <1>3 DEF AppendWrite, At, Exclusive
    <2>4. \A v \in Workers : pc'[v] \notin {"put", "commit"}
        BY <1>2, <2>1, <2>3
    <2>5. Committed' = Committed /\ \A i : Seen(i)' = Seen(i)
        BY <2>1 DEF Committed, Seen
    <2>6. VersionHoldsItsWrites' /\ SavedOnce'
        BY <2>1, <2>5 DEF SaveInv, VersionHoldsItsWrites, SavedOnce
    <2>7. ASSUME NEW j \in DOMAIN Active', NEW k \in DOMAIN Active', j < k
          PROVE  Active'[j] < Active'[k]
        <3>1. DOMAIN Active = 1..Len(Active) /\ Len(Active) \in Nat
            BY <2>1
        <3>2. j \in DOMAIN Active
            BY <2>2, <2>7, <3>1
        <3>3. Active[j] \in Range(Active)
            BY <3>2 DEF Range
        <3>4. Active[j] \in Nat /\ Active[j] < writes + 1
            BY <2>1, <3>3 DEF DataInv
        <3> QED BY <2>2, <2>7, <3>2, <3>4 DEF SaveInv
    <2>8. \A x \in Range(Active'), y \in Committed' : y > x => y \in Range(Active')
        <3>1. \A y \in Committed : y \in Nat /\ ~(y > writes + 1)
            BY <2>1, CommittedType
        <3> QED BY <2>2, <2>5, <3>1 DEF SaveInv
    <2>9. \A i \in DOMAIN layers : Range(layers[i].writes) \cap Range(Active') # {} =>
              ~layers[i].acknowledged
        <3>1. \A i \in DOMAIN layers : writes + 1 \notin Range(layers[i].writes)
            <4>1. \A i \in DOMAIN layers : Range(layers[i].writes) \subseteq 1..writes
                BY DEF DataInv
            <4>2. writes + 1 \notin 1..writes
                BY <2>1
            <4> QED BY <4>1, <4>2
        <3> QED BY <2>2, <2>3, <3>1 DEF SaveInv
    <2> QED BY <2>1, <2>4, <2>6, <2>7, <2>8, <2>9 DEF SaveInv
<1>4. ASSUME NEW w \in Workers, InsertVersion(w) PROVE SaveInv'
    <2>1. /\ versionSeq \in Nat /\ versionSeq' = versionSeq + 1
          /\ UNCHANGED <<Active, layers, objects>>
        BY <1>4, SameActive, LimitsAssumption DEF InsertVersion, DataInv
    <2>2. call' = [call EXCEPT ![w].version = versionSeq']
        BY <1>4 DEF InsertVersion
    <2>3. call'[w].version = versionSeq'
        BY <2>2 DEF DataInv, Locals
    <2>4. pc'[w] = "put" /\ \A v \in Workers \ {w} : pc'[v] = pc[v]
        BY <1>4, GotoEffect DEF InsertVersion
    <2>5. \A v \in Workers : pc[v] \notin {"put", "commit", "delete"}
        BY <1>1, <1>4 DEF InsertVersion, At, Exclusive
    <2>6. \A i \in DOMAIN layers : layers[i].version < versionSeq'
        <3>1. \A i \in DOMAIN layers : layers[i].version \in 1..versionSeq
            BY DEF DataInv
        <3> QED BY <2>1, <3>1
    <2>7. Committed' = Committed /\ \A i : Seen(i)' = Seen(i)
        BY <2>1 DEF Committed, Seen
    <2>8. VersionHoldsItsWrites' /\ SavedOnce'
        BY <2>1, <2>7 DEF SaveInv, VersionHoldsItsWrites, SavedOnce
    <2>9. \A v \in Workers : pc'[v] \in {"put", "commit"} => v = w /\ pc'[v] = "put"
        BY <2>4, <2>5
    <2>10. \A i \in DOMAIN layers : Range(layers[i].writes) \cap Range(Active) # {} =>
              ~layers[i].acknowledged
        BY <2>5 DEF SaveInv
    <2> QED BY <2>1, <2>3, <2>6, <2>7, <2>8, <2>9, <2>10 DEF SaveInv
<1>5. ASSUME NEW w \in Workers, PutObject(w) PROVE SaveInv'
    <2>1. pc'[w] = "commit" /\ \A v \in Workers \ {w} : pc'[v] = pc[v]
        BY <1>5, GotoEffect DEF PutObject
    <2> QED BY <1>5, <2>1, SaveObject, SameActive DEF PutObject, At
<1>6. ASSUME NEW w \in Workers, PutFails(w) PROVE SaveInv'
    <2>1. Return(w) /\ At(w, "put") /\ UNCHANGED <<Active, versionSeq, layers>>
        BY <1>6, SameActive DEF PutFails
    <2>2. pc'[w] = "idle"
        BY <2>1 DEF Return
    <2>3. \A v \in Workers : pc[v] = "delete" => pc'[v] = "delete"
        BY <1>2, <2>1 DEF At
    <2>4. CASE Stored(call[w].version)
        BY <1>2, <2>1, <2>2, <2>3, <2>4, SaveObject
    <2>5. CASE UNCHANGED objects
        BY <1>2, <2>1, <2>3, <2>5, SaveStep
    <2> QED BY <1>6, <2>4, <2>5 DEF PutFails
<1>7. ASSUME NEW w \in Workers, Commit(w) PROVE SaveInv'
    <2>1. pc'[w] = "delete" /\ \A v \in Workers \ {w} : pc'[v] = pc[v]
        BY <1>7, GotoEffect DEF Commit
    <2>2. \A v \in Workers \ {w} : pc[v] \notin {"put", "commit", "delete"}
        BY <1>1, <1>7 DEF Commit, At, Exclusive
    <2>3. \A v \in Workers : pc'[v] \notin {"put", "commit"}
        BY <2>1, <2>2
    <2> QED BY <1>7, <2>1, <2>3, CommitSave, SameActive DEF Commit
<1>8. ASSUME NEW w \in Workers, CommitUnacknowledged(w) PROVE SaveInv'
    <2>1. \A v \in Workers \ {w} : pc[v] \notin {"put", "commit", "delete"}
        BY <1>1, <1>8 DEF CommitUnacknowledged, At, Exclusive
    <2>2. \A v \in Workers : pc'[v] \notin {"put", "commit"}
        BY <1>2, <1>8, <2>1 DEF CommitUnacknowledged
    <2> QED BY <1>8, <2>2, CommitSave, SameActive DEF CommitUnacknowledged
<1>9. ASSUME NEW w \in Workers, DeleteActive(w) PROVE SaveInv'
    <2>1. \A v \in Workers \ {w} : pc[v] \notin {"put", "commit", "delete"}
        BY <1>1, <1>9 DEF DeleteActive, At, Exclusive
    <2>2. \A v \in Workers : pc'[v] \notin {"put", "commit"}
        BY <1>2, <1>9, <2>1 DEF DeleteActive
    <2> QED BY <1>9, <2>2, SaveEmpty DEF DeleteActive, stored, Active, Chunks
<1>10. CASE Crash
    BY <1>10, SaveEmpty DEF Crash, stored, Active, Chunks
<1>11. CASE SetHead \/ UNCHANGED vars
    BY <1>11, SaveStep, SameActive DEF SetHead, vars, program, stored
<1>12. CASE DeleteHead
    <2>1. UNCHANGED <<Active, versionSeq, layers, objects, pc>>
        BY <1>12, SameActive DEF DeleteHead, stored
    <2>2. \A w \in Workers : call'[w].version = call[w].version
        BY <1>12, HeadEffect
    <2> QED BY <2>1, <2>2, SaveStep
<1>13. ASSUME NEW w \in Workers, QuietReturns(w) PROVE SaveInv'
    <2>1. /\ Return(w) /\ pc[w] # "delete"
          /\ UNCHANGED <<Active, versionSeq, layers, objects>>
        BY <1>13, QuietReturnEffect DEF data
    <2> QED BY <1>2, <2>1, SaveStep
<1>14. ASSUME NEW w \in Workers, Quiet(w) PROVE SaveInv'
    <2>1. pc[w] # "delete"
        BY <1>14
           DEF Quiet, Calls, Announces, CallWrite, CallCheckpoint, CallRead, CallSizeOf,
               AnnounceWrite, AnnounceCheckpoint, LockToWrite, LockToCheckpoint,
               CheckWritable, HeadQueryFails, FindActive, ReadHead, ReadVersionedLayer,
               ReadMemtable, ReadRows, Fetch, SizeFromMemtable, SizeRaces, RacesWith,
               SizeFromDatabase, SizeFromLayer, At
    <2>2. pc'[w] \notin {"put", "commit"}
        BY <1>14, QuietPlace DEF QuietPlaces
    <2>3. /\ UNCHANGED <<Active, versionSeq, layers, objects>>
          /\ \A v \in Workers \ {w} : pc'[v] = pc[v] /\ call'[v] = call[v]
        BY <1>14, QuietGoto DEF data
    <2> QED BY <2>1, <2>2, <2>3, SaveStep
<1> QED BY <1>3, <1>4, <1>5, <1>6, <1>7, <1>8, <1>9, <1>10, <1>11, <1>12, <1>13, <1>14
        DEF Next, Steps, Statements, Quiet, QuietReturns

----------------------------------------------------------------------------
(* Reads                                                                   *)

InLayers(version) == \E i \in DOMAIN layers : layers[i].version = version

Looked == {"read_active", "read_rows", "read_fetch"}

\* The writes in the objects that a read has yet to fetch.
Unread(w) == UNION {Range(layers[i].writes) : i \in call[w].rows}

\* What the read found out about the head, and what it makes of that.
Pinned(w) ==
    IF call[w].version = NoVersion THEN call[w].upTo = NoLayer
    ELSE /\ call[w].upTo \in DOMAIN layers
         /\ layers[call[w].upTo].version = call[w].version
Wanted(w) ==
    IF call[w].version = NoVersion THEN Surviving ELSE layers[call[w].upTo].content

\* A head that a read found leads to a layer, the active layer it found is still
\* the file's, and what it has and what it has yet to fetch are the version, or
\* the file.
ReadOf(w) ==
    /\ pc[w] = "read_layer" => call[w].version # NoVersion /\ InLayers(call[w].version)
    /\ pc[w] \in Looked => Pinned(w)
    /\ pc[w] = "read_rows" => call[w].layer = memtable
    /\ pc[w] = "read_fetch" => call[w].seen \cup Unread(w) = Wanted(w)

ReadInv ==
    /\ head # NoVersion => InLayers(head)
    /\ \A w \in Workers : ReadOf(w)

\* A read that has everything has what it should.
LEMMA ReadDone == ASSUME ReadInv PROVE ReadsSnapshot
<1>1. ASSUME NEW w \in Workers, Assembled(w)
      PROVE  IF call[w].version = NoVersion THEN call[w].seen = Surviving
             ELSE \E i \in DOMAIN layers :
                     layers[i].version = call[w].version /\ call[w].seen = layers[i].content
    <2>1. pc[w] = "read_fetch" /\ call[w].rows = {}
        BY <1>1 DEF Assembled, At
    <2>2. Unread(w) = {}
        BY <2>1 DEF Unread
    <2>3. call[w].seen = Wanted(w) /\ Pinned(w)
        BY <2>1, <2>2 DEF ReadInv, ReadOf, Looked
    <2>4. CASE call[w].version = NoVersion
        BY <2>3, <2>4 DEF Wanted
    <2>5. CASE call[w].version # NoVersion
        <3>1. call[w].upTo \in DOMAIN layers /\ layers[call[w].upTo].version = call[w].version
            BY <2>3, <2>5 DEF Pinned
        <3>2. call[w].seen = layers[call[w].upTo].content
            BY <2>3, <2>5 DEF Wanted
        <3> QED BY <2>5, <3>1, <3>2
    <2> QED BY <2>4, <2>5
<1> QED BY <1>1 DEF ReadsSnapshot

\* A step that leaves a read where it is, and what it reads as it is.
LEMMA ReadSame ==
    ASSUME ReadInv, UNCHANGED <<memtable, layers, writes, lost>>, NEW v \in Workers,
           pc'[v] \in Shared \ {"read_head"} =>
               /\ pc'[v] = pc[v]
               /\ call'[v].version = call[v].version /\ call'[v].upTo = call[v].upTo
               /\ call'[v].layer = call[v].layer /\ call'[v].rows = call[v].rows
               /\ call'[v].seen = call[v].seen
    PROVE  ReadOf(v)'
<1>1. CASE pc'[v] \in Shared \ {"read_head"}
    <2>1. /\ pc'[v] = pc[v] /\ memtable' = memtable /\ layers' = layers /\ Surviving' = Surviving
          /\ call'[v].version = call[v].version /\ call'[v].upTo = call[v].upTo
          /\ call'[v].layer = call[v].layer /\ call'[v].rows = call[v].rows
          /\ call'[v].seen = call[v].seen
        BY <1>1 DEF Surviving
    <2>2. /\ InLayers(call[v].version)' = InLayers(call[v].version)
          /\ Pinned(v)' = Pinned(v) /\ Unread(v)' = Unread(v) /\ Wanted(v)' = Wanted(v)
        BY <2>1 DEF InLayers, Pinned, Unread, Wanted
    <2>3. ReadOf(v)
        BY DEF ReadInv, ReadOf
    <2> QED BY <2>1, <2>2, <2>3 DEF ReadOf
<1>2. CASE pc'[v] \notin Shared \ {"read_head"}
    BY <1>2 DEF ReadOf, Looked, Shared
<1> QED BY <1>1, <1>2

\* A step under the mutex: there is no read, and layers are only added.
LEMMA ReadNone ==
    ASSUME ReadInv, UNCHANGED head,
           \A i \in DOMAIN layers : i \in DOMAIN layers' /\ layers'[i] = layers[i],
           \A v \in Workers : pc'[v] \notin Shared \ {"read_head"}
    PROVE  ReadInv'
<1>1. \A v \in Workers : pc'[v] \notin Looked \cup {"read_layer"}
    BY DEF Looked, Shared
<1> QED BY <1>1 DEF ReadInv, ReadOf, InLayers, Looked

\* The rows: those of the version, or all, besides the active layer.
LEMMA RowsSeen ==
    ASSUME LockInv, HeapInv, DataInv, AckInv, SaveInv, ReadInv, NEW w \in Workers, ReadRows(w)
    PROVE  Pinned(w)' /\ call'[w].seen \cup Unread(w)' = Wanted(w)'
<1> DEFINE upTo == call[w].upTo
           rows == {i \in DOMAIN layers : upTo # NoLayer => i <= upTo}
           seen == IF upTo = NoLayer THEN Range(Chunks(call[w].layer)) ELSE {}
<1>1. /\ UNCHANGED <<layers, writes, lost>> /\ Pinned(w) /\ call[w].layer = memtable
    BY SameHistory DEF ReadRows, ReadInv, ReadOf, At, Looked, stored
<1>2. call' = [call EXCEPT ![w].rows = rows, ![w].seen = seen]
    BY DEF ReadRows
<1> HIDE DEF rows, seen
<1>3. /\ call'[w].rows = rows /\ call'[w].seen = seen
      /\ call'[w].version = call[w].version /\ call'[w].upTo = upTo
    BY <1>2 DEF DataInv, Locals
<1>4. Unread(w)' = UNION {Range(layers[i].writes) : i \in rows}
    BY <1>1, <1>3 DEF Unread
<1>5. Surviving' = Surviving
    BY <1>1 DEF Surviving
<1>6. Pinned(w)'
    BY <1>1, <1>3 DEF Pinned
<1>7. CASE call[w].version = NoVersion
    <2>1. upTo = NoLayer
        BY <1>1, <1>7 DEF Pinned
    <2>2. rows = DOMAIN layers /\ seen = Range(Active)
        BY <1>1, <2>1 DEF rows, seen, Active
    <2>3. layers \in Seq(LayerRow)
        BY DEF DataInv
    <2>4. UNION {Range(layers[i].writes) : i \in DOMAIN layers} = Committed
        <3>1. \A x : x \in Committed <=> \E i \in DOMAIN layers : x \in Range(layers[i].writes)
            BY <2>3, CommittedIs
        <3> QED BY <3>1
    <2>5. Committed \cup Range(Active) = Surviving
        <3>1. Committed \subseteq 1..writes
            BY CommittedType
        <3> QED BY <3>1 DEF AckInv, AckedWritesKept, Surviving, DataInv
    <2>6. Wanted(w)' = Surviving
        BY <1>3, <1>5, <1>7 DEF Wanted
    <2> QED BY <1>3, <1>4, <1>6, <2>2, <2>4, <2>5, <2>6
<1>8. CASE call[w].version # NoVersion
    <2>1. upTo \in DOMAIN layers
        BY <1>1, <1>8 DEF Pinned
    <2>2. upTo # NoLayer
        BY <2>1 DEF DataInv, NoLayer
    <2>3. rows = {i \in DOMAIN layers : i <= upTo} /\ seen = {}
        BY <2>2 DEF rows, seen
    <2>4. UNION {Range(layers[i].writes) : i \in rows} = Seen(upTo)
        BY <2>3 DEF Seen
    <2>5. Seen(upTo) = layers[upTo].content
        BY <2>1 DEF SaveInv, VersionHoldsItsWrites
    <2>6. Wanted(w)' = layers[upTo].content
        BY <1>1, <1>3, <1>8 DEF Wanted
    <2> QED BY <1>3, <1>4, <1>6, <2>3, <2>4, <2>5, <2>6
<1> QED BY <1>7, <1>8

\* A fetch: what was in the row's object is no longer to be fetched.
LEMMA FetchSeen ==
    ASSUME LockInv, HeapInv, DataInv, SaveInv, ReadInv, NEW w \in Workers, Fetch(w)
    PROVE  Pinned(w)' /\ call'[w].seen \cup Unread(w)' = Wanted(w)'
<1> DEFINE next == Min(call[w].rows)
           rows == call[w].rows \ {next}
           seen == call[w].seen \cup Range(objects[layers[next].version])
<1>1. /\ UNCHANGED <<layers, writes, lost>> /\ Pinned(w)
      /\ call[w].seen \cup Unread(w) = Wanted(w)
    BY SameHistory DEF Fetch, ReadInv, ReadOf, At, Looked, stored
<1>2. next \in call[w].rows /\ next \in DOMAIN layers
    BY NextRow DEF Fetch
<1>3. call' = [call EXCEPT ![w].rows = rows, ![w].seen = seen]
    BY DEF Fetch, DataInv
<1>4. objects[layers[next].version] = layers[next].writes
    BY <1>2 DEF SaveInv, VersionHoldsItsWrites
<1>5. seen = call[w].seen \cup Range(layers[next].writes)
    BY <1>4
<1>6. UNION {Range(layers[i].writes) : i \in call[w].rows} =
          Range(layers[next].writes) \cup UNION {Range(layers[i].writes) : i \in rows}
    BY <1>2
<1> HIDE DEF rows, seen, next
<1>7. /\ call'[w].rows = rows /\ call'[w].seen = seen
      /\ call'[w].version = call[w].version /\ call'[w].upTo = call[w].upTo
    BY <1>3 DEF DataInv, Locals
<1>8. Unread(w)' = UNION {Range(layers[i].writes) : i \in rows}
    BY <1>1, <1>7 DEF Unread
<1>9. Surviving' = Surviving
    BY <1>1 DEF Surviving
<1>10. Pinned(w)' /\ Wanted(w)' = Wanted(w)
    BY <1>1, <1>7, <1>9 DEF Pinned, Wanted
<1> QED BY <1>1, <1>5, <1>6, <1>7, <1>8, <1>10 DEF Unread

\* Every read is of one state of the file.
LEMMA NextRead ==
    ASSUME LockInv, HeapInv, DataInv, DataInv', AckInv, SaveInv, ReadInv, [Next]_vars
    PROVE  ReadInv'
<1> DEFINE Reading == Shared \ {"read_head"}
<1>1. ASSUME UNCHANGED layers, head' # NoVersion => InLayers(head'), \A v \in Workers : ReadOf(v)'
      PROVE  ReadInv'
    BY <1>1 DEF ReadInv, ReadOf, InLayers
<1>2. head # NoVersion => InLayers(head)
    BY DEF ReadInv, ReadOf
<1>3. ASSUME NEW w \in Workers, Return(w)
      PROVE  \A v \in Workers : pc'[v] \in Reading =>
                 v # w /\ pc'[v] = pc[v] /\ call'[v] = call[v]
    BY <1>3, ReturnEffect DEF Shared
<1>4. ASSUME NEW w \in Workers, pc[w] \in Exclusive
      PROVE  \A v \in Workers : pc[v] \notin Reading
    <2>1. \A v \in Workers : pc[v] \in Reading => v = w
        BY <1>4, OneWriter
    <2>2. pc[w] \notin Reading
        BY <1>4 DEF Exclusive, Shared
    <2> QED BY <2>1, <2>2
<1>5. ASSUME NEW w \in Workers, QuietReturns(w) \/ PutFails(w) PROVE ReadInv'
    <2>1. Return(w) /\ UNCHANGED <<memtable, layers, head, writes, lost>>
        BY <1>5, QuietReturnEffect, SameHistory DEF PutFails, data, active
    <2>2. \A v \in Workers : ReadOf(v)'
        BY <1>3, <2>1, ReadSame
    <2> QED BY <1>1, <1>2, <2>1, <2>2 DEF InLayers
<1>6. ASSUME NEW w \in Workers, AppendWrite(w) \/ DeleteActive(w) PROVE ReadInv'
    <2>1. \A v \in Workers : pc[v] \notin Reading
        BY <1>4, <1>6 DEF AppendWrite, DeleteActive, At, Exclusive
    <2>2. Return(w) /\ UNCHANGED <<layers, head>>
        BY <1>6 DEF AppendWrite, DeleteActive, stored
    <2>3. \A v \in Workers : pc'[v] \notin Reading
        BY <1>3, <2>1, <2>2
    <2> QED BY <2>2, <2>3, ReadNone
<1>7. ASSUME NEW w \in Workers, Commit(w) \/ CommitUnacknowledged(w) PROVE ReadInv'
    <2>1. \A v \in Workers : pc[v] \notin Reading
        BY <1>4, <1>7 DEF Commit, CommitUnacknowledged, At, Exclusive
    <2>2. \A v \in Workers : pc'[v] \notin Reading
        <3>1. CASE Commit(w)
            <4>1. pc'[w] = "delete" /\ \A v \in Workers \ {w} : pc'[v] = pc[v]
                BY <3>1, GotoEffect DEF Commit
            <4> QED BY <2>1, <4>1 DEF Shared
        <3>2. CASE CommitUnacknowledged(w)
            BY <1>3, <2>1, <3>2 DEF CommitUnacknowledged
        <3> QED BY <1>7, <3>1, <3>2
    <2>3. \A i \in DOMAIN layers : i \in DOMAIN layers' /\ layers'[i] = layers[i]
        <3>1. PICK acknowledged \in BOOLEAN : CommittedLayer(w, acknowledged)
            BY <1>7 DEF Commit, CommitUnacknowledged
        <3>2. At(w, "commit")
            BY <1>7 DEF Commit, CommitUnacknowledged
        <3> QED BY <3>1, <3>2, CommitEffect
    <2>4. UNCHANGED head
        BY <1>7 DEF Commit, CommitUnacknowledged
    <2> QED BY <2>2, <2>3, <2>4, ReadNone
<1>8. ASSUME NEW w \in Workers, InsertVersion(w) \/ PutObject(w) \/ FindActive(w)
      PROVE  ReadInv'
    <2>1. \A v \in Workers : pc[v] \notin Reading
        BY <1>4, <1>8 DEF InsertVersion, PutObject, FindActive, At, Exclusive
    <2>2. pc'[w] \in {"put", "commit", "write_append"} /\ \A v \in Workers \ {w} : pc'[v] = pc[v]
        BY <1>8, GotoEffect DEF InsertVersion, PutObject, FindActive
    <2>3. \A v \in Workers : pc'[v] \notin Reading
        BY <2>1, <2>2 DEF Shared
    <2>4. UNCHANGED <<layers, head>>
        BY <1>8 DEF InsertVersion, PutObject, FindActive, stored
    <2> QED BY <2>3, <2>4, ReadNone
<1>9. ASSUME NEW w \in Workers, Quiet(w), ~FindActive(w)
      PROVE  /\ UNCHANGED <<memtable, layers, head, writes, lost>>
             /\ \A v \in Workers \ {w} : ReadOf(v)'
    <2>1. UNCHANGED <<memtable, layers, head, writes, lost>>
        BY <1>9, SameHistory
           DEF Quiet, Calls, Announces, CallWrite, CallCheckpoint, CallRead, CallSizeOf,
               AnnounceWrite, AnnounceCheckpoint, LockToWrite, LockToCheckpoint,
               CheckWritable, HeadQueryFails, ReadHead, ReadVersionedLayer, ReadMemtable,
               ReadRows, Fetch, SizeFromMemtable, SizeRaces, SizeFromDatabase,
               SizeFromLayer, stored, active
    <2>2. \A v \in Workers \ {w} : pc'[v] = pc[v] /\ call'[v] = call[v]
        BY <1>9, QuietGoto
    <2> QED BY <2>1, <2>2, ReadSame
<1>10. ASSUME NEW w \in Workers, Quiet(w), ~FindActive(w), ReadOf(w)' PROVE ReadInv'
    <2>1. UNCHANGED <<layers, head>> /\ \A v \in Workers : ReadOf(v)'
        BY <1>9, <1>10
    <2> QED BY <1>1, <1>2, <2>1
<1>11. ASSUME NEW w \in Workers, ReadHead(w) PROVE ReadInv'
    <2>1. UNCHANGED layers /\ call' = [call EXCEPT ![w].version = head]
        BY <1>11 DEF ReadHead, stored
    <2>2. call'[w].version = head /\ call'[w].upTo = call[w].upTo
        BY <2>1 DEF DataInv, Locals
    <2>3. call[w].upTo = NoLayer
        BY <1>11 DEF ReadHead, At, HeapInv
    <2>4. CASE head = NoVersion
        <3>1. pc'[w] = "read_active"
            BY <1>11, <2>4, GotoEffect DEF ReadHead
        <3>2. Pinned(w)'
            BY <2>2, <2>3, <2>4 DEF Pinned
        <3>3. ReadOf(w)'
            BY <3>1, <3>2 DEF ReadOf
        <3> QED BY <1>10, <1>11, <3>3 DEF Quiet, FindActive, ReadHead, At
    <2>5. CASE head # NoVersion
        <3>1. pc'[w] = "read_layer"
            BY <1>11, <2>5, GotoEffect DEF ReadHead
        <3>2. InLayers(call'[w].version)
            BY <1>2, <2>2, <2>5
        <3>3. InLayers(call[w].version)'
            BY <2>1, <3>2 DEF InLayers
        <3>4. ReadOf(w)'
            BY <2>2, <2>5, <3>1, <3>3 DEF ReadOf, Looked
        <3> QED BY <1>10, <1>11, <3>4 DEF Quiet, FindActive, ReadHead, At
    <2> QED BY <2>4, <2>5
<1>12. ASSUME NEW w \in Workers, ReadVersionedLayer(w) PROVE ReadInv'
    <2>1. PICK i \in DOMAIN layers :
              layers[i].version = call[w].version /\ call' = [call EXCEPT ![w].upTo = i]
        BY <1>12 DEF ReadVersionedLayer
    <2>2. call'[w].upTo = i /\ call'[w].version = call[w].version
        BY <2>1 DEF DataInv, Locals
    <2>3. UNCHANGED layers /\ pc'[w] = "read_active" /\ call[w].version # NoVersion
        BY <1>12, GotoEffect DEF ReadVersionedLayer, ReadInv, ReadOf, At, stored
    <2>4. Pinned(w)'
        BY <2>1, <2>2, <2>3 DEF Pinned
    <2>5. ReadOf(w)'
        BY <2>3, <2>4 DEF ReadOf
    <2> QED BY <1>10, <1>12, <2>5 DEF Quiet, FindActive, ReadVersionedLayer, At
<1>13. ASSUME NEW w \in Workers, ReadMemtable(w) PROVE ReadInv'
    <2>1. /\ call'[w].layer = memtable /\ call'[w].upTo = call[w].upTo
          /\ call'[w].version = call[w].version
        BY <1>13 DEF ReadMemtable, DataInv, Locals
    <2>2. UNCHANGED <<layers, memtable>> /\ pc'[w] = "read_rows" /\ Pinned(w)
        BY <1>13, GotoEffect DEF ReadMemtable, ReadInv, ReadOf, At, stored, active, Looked
    <2>3. Pinned(w)'
        BY <2>1, <2>2 DEF Pinned
    <2>4. ReadOf(w)'
        BY <2>1, <2>2, <2>3 DEF ReadOf
    <2> QED BY <1>10, <1>13, <2>4 DEF Quiet, FindActive, ReadMemtable, At
<1>14. ASSUME NEW w \in Workers, ReadRows(w) PROVE ReadInv'
    <2>1. pc'[w] = "read_fetch"
        BY <1>14, GotoEffect DEF ReadRows
    <2>2. Pinned(w)' /\ call'[w].seen \cup Unread(w)' = Wanted(w)'
        BY <1>14, RowsSeen
    <2>3. ReadOf(w)'
        BY <2>1, <2>2 DEF ReadOf
    <2> QED BY <1>10, <1>14, <2>3 DEF Quiet, FindActive, ReadRows, At
<1>15. ASSUME NEW w \in Workers, Fetch(w) PROVE ReadInv'
    <2>1. pc'[w] = "read_fetch"
        BY <1>15 DEF Fetch, At
    <2>2. Pinned(w)' /\ call'[w].seen \cup Unread(w)' = Wanted(w)'
        BY <1>15, FetchSeen
    <2>3. ReadOf(w)'
        BY <2>1, <2>2 DEF ReadOf
    <2> QED BY <1>10, <1>15, <2>3 DEF Quiet, FindActive, Fetch, At
<1>16. ASSUME NEW w \in Workers, Quiet(w), ~FindActive(w), ~ReadHead(w),
              ~ReadVersionedLayer(w), ~ReadMemtable(w), ~ReadRows(w), ~Fetch(w)
       PROVE  ReadInv'
    <2>1. PICK place \in QuietPlaces \ Reading : Goto(w, place)
        BY <1>16
           DEF Quiet, Calls, Announces, CallWrite, CallCheckpoint, CallRead, CallSizeOf,
               AnnounceWrite, AnnounceCheckpoint, LockToWrite, LockToCheckpoint,
               CheckWritable, HeadQueryFails, SizeFromMemtable, SizeRaces,
               SizeFromDatabase, SizeFromLayer, QuietPlaces, Shared
    <2>2. pc'[w] \notin Reading
        BY <2>1, GotoEffect
    <2>3. ReadOf(w)'
        BY <1>9, <1>16, <2>2, ReadSame
    <2> QED BY <1>10, <1>16, <2>3
<1>17. CASE Crash
    <2>1. UNCHANGED <<layers, head>> /\ \A v \in Workers : pc'[v] = "idle"
        BY <1>17 DEF Crash, stored
    <2> QED BY <2>1, ReadNone DEF Shared
<1>18. CASE SetHead \/ DeleteHead \/ UNCHANGED vars
    <2>1. UNCHANGED <<memtable, layers, writes, lost, pc>>
        BY <1>18, SameHistory DEF SetHead, DeleteHead, vars, program, stored, active
    <2>2. head' # NoVersion => InLayers(head')
        BY <1>2, <1>18 DEF SetHead, DeleteHead, vars, program, InLayers
    <2>3. ASSUME NEW v \in Workers
          PROVE  /\ call'[v].version = call[v].version /\ call'[v].upTo = call[v].upTo
                 /\ call'[v].layer = call[v].layer /\ call'[v].rows = call[v].rows
                 /\ call'[v].seen = call[v].seen
        BY <1>18, HeadEffect DEF SetHead, vars, program
    <2>4. \A v \in Workers : ReadOf(v)'
        BY <2>1, <2>3, ReadSame
    <2> QED BY <1>1, <2>1, <2>2, <2>4
<1> QED BY <1>5, <1>6, <1>7, <1>8, <1>10, <1>11, <1>12, <1>13, <1>14, <1>15, <1>16, <1>17, <1>18
        DEF Next, Steps, Statements, Quiet, QuietReturns

----------------------------------------------------------------------------
(* The invariant, and what follows                                         *)

IInv ==
    LockInv /\ HeapInv /\ DataInv /\ AckInv /\ PinInv /\ SizeInv /\ SaveInv /\ ReadInv

\* The start: nobody runs, and there is nothing.
LEMMA InitInv == Init => IInv
<1> SUFFICES ASSUME Init PROVE IInv
    OBVIOUS
<1>1. /\ pc = [w \in Workers |-> "idle"] /\ call = [w \in Workers |-> NoLocals]
      /\ mu = [writer |-> Nobody, readers |-> {}]
      /\ memtable = NoLayer /\ actives = << >> /\ layers = << >> /\ objects = << >>
      /\ versionSeq = 0 /\ head = 0 /\ ends = << >> /\ lost = {} /\ crashes = 0
    BY DEF Init, NoVersion
<1>2. /\ DOMAIN layers = {} /\ DOMAIN objects = {} /\ DOMAIN actives = {}
      /\ Active = << >> /\ DOMAIN Active = {} /\ Range(Active) = {} /\ writes = 0
    BY <1>1 DEF Range, Active, Chunks, writes
<1>3. \A w \in Workers : pc[w] = "idle" /\ call[w] = NoLocals
    BY <1>1
<1>4. LockInv
    <2>1. "idle" \in Places /\ "idle" \notin Draining \cup Exclusive \cup Shared
        BY DEF Places, Unlocked, Sizing, Draining, Exclusive, Shared
    <2> QED BY <1>1, <1>3, <2>1, NobodyAssumption DEF LockInv
<1>5. HeapInv
    <2>1. NoLocals.upTo = NoLayer /\ NoLocals.layer = NoLayer /\ NoLocals.rows = {}
        BY DEF NoLocals
    <2>2. ends \in Seq(Ends) /\ actives \in Seq(Seq(Writes))
        BY <1>1
    <2> QED BY <1>1, <1>2, <1>3, <2>1, <2>2 DEF HeapInv, At
<1>6. DataInv
    <2>1. NoLocals \in Locals
        BY LimitsAssumption DEF NoLocals, Locals, NoVersion, NoLayer
    <2>2. call \in [Workers -> Locals]
        BY <1>1, <2>1
    <2>3. Active \in Seq(Writes) /\ layers \in Seq(LayerRow)
        BY <1>1, <1>2
    <2> QED BY <1>1, <1>2, <1>3, <2>2, <2>3, LimitsAssumption DEF DataInv, At
<1>7. Surviving = {} /\ Committed = {}
    <2>1. 1..writes = {}
        BY <1>2
    <2>2. Committed = {}
        BY <1>2 DEF Committed, Seen
    <2> QED BY <2>1, <2>2 DEF Surviving
<1>8. AckInv
    BY <1>1, <1>2, <1>3, <1>7 DEF AckInv, AckedWritesKept, At
<1>9. PinInv
    BY <1>3 DEF PinInv, PinnedRefusesWrites, At, Writing
<1>10. SizeInv
    BY <1>3 DEF SizeInv, SizeOfSomeMoment, At, Sizing
<1>11. SaveInv
    BY <1>2, <1>3 DEF SaveInv, VersionHoldsItsWrites, SavedOnce
<1>12. ReadInv
    BY <1>1, <1>3 DEF ReadInv, ReadOf, NoVersion, Looked
<1> QED BY <1>4, <1>5, <1>6, <1>8, <1>9, <1>10, <1>11, <1>12 DEF IInv

\* Every reachable state satisfies the invariant.
LEMMA InvCorrect == Spec => []IInv
<1>1. ASSUME IInv, [Next]_vars PROVE IInv'
    <2>1. LockInv' /\ DataInv' /\ HeapInv'
        BY <1>1, NextLock, NextData, NextHeap DEF IInv
    <2>2. AckInv' /\ PinInv' /\ SizeInv'
        BY <1>1, <2>1, NextAck, NextPin, NextSize DEF IInv
    <2>3. SaveInv' /\ ReadInv'
        BY <1>1, <2>1, NextSave, NextRead DEF IInv
    <2> QED BY <2>1, <2>2, <2>3 DEF IInv
<1> QED BY <1>1, InitInv, PTL DEF Spec

\* Every variable has its type, and the goroutines at the statements under the
\* RWMutex (storage.go:56, 167, 362) are those that have it, a writer alone, for
\* any number of goroutines, and crashes or errors at any statement.
THEOREM TypeCorrect == Spec => []TypeOK
<1>1. IInv => TypeOK
    <2> SUFFICES ASSUME IInv PROVE TypeOK
        OBVIOUS
    <2>1. \A w \in Workers :
              /\ pc[w] \in Draining \cup Exclusive <=> mu.writer = w
              /\ pc[w] \in Exclusive => mu.readers = {}
              /\ pc[w] \in Shared <=> w \in mu.readers
              /\ pc[w] \in Waiting \cup Draining \cup Exclusive \cup Shared \cup Unlocked
        BY DEF IInv, LockInv, Places
    <2>2. \A i \in DOMAIN layers : layers[i].version \in 1..versionSeq
        BY DEF IInv, DataInv
    <2>3. DOMAIN layers = 1..Len(layers) /\ DOMAIN actives = 1..Len(actives)
        BY DEF IInv, DataInv, HeapInv
    <2>4. Len(layers) \in Nat /\ Len(actives) \in Nat
        BY DEF IInv, DataInv, HeapInv
    <2>5. ASSUME NEW w \in Workers
          PROVE  call[w] \in [version : 0..MaxVersions, upTo : 0..Len(layers),
                              layer : 0..Len(actives), rows : SUBSET DOMAIN layers,
                              seen : SUBSET Writes, size : 0..MaxEnd,
                              unpinned : BOOLEAN, spoiled : BOOLEAN]
        <3>1. call[w] \in Locals
            BY DEF IInv, DataInv
        <3>2. /\ call[w].upTo \in {NoLayer} \cup DOMAIN layers
              /\ call[w].layer \in {NoLayer} \cup DOMAIN actives
              /\ call[w].rows \subseteq DOMAIN layers
            BY DEF IInv, HeapInv
        <3>3. call[w].upTo \in 0..Len(layers) /\ call[w].layer \in 0..Len(actives)
            BY <3>2, <2>3, <2>4 DEF NoLayer
        <3> QED BY <3>1, <3>2, <3>3 DEF Locals
    <2>6. call \in [Workers -> [version : 0..MaxVersions, upTo : 0..Len(layers),
                                layer : 0..Len(actives), rows : SUBSET DOMAIN layers,
                                seen : SUBSET Writes, size : 0..MaxEnd,
                                unpinned : BOOLEAN, spoiled : BOOLEAN]]
        BY <2>5 DEF IInv, DataInv
    <2>7. Range(ends) \subseteq Ends
        BY DEF IInv, HeapInv, Range
    <2> QED BY <2>1, <2>2, <2>6, <2>7 DEF TypeOK, IInv, LockInv, DataInv, HeapInv
<1> QED BY <1>1, InvCorrect, PTL

\* No acknowledged write is lost before a crash, and none that a crash took
\* comes back, whatever fails in a checkpoint (storage.go:411-441).
THEOREM AckedWritesKeptCorrect == Spec => []AckedWritesKept
<1>1. IInv => AckedWritesKept
    BY DEF IInv, AckInv
<1> QED BY <1>1, InvCorrect, PTL

\* A version is what was there when it was committed, its object and its rows
\* agree, and replaying it puts the later write on top (storage.go:419-441).
THEOREM VersionHoldsItsWritesCorrect == Spec => []VersionHoldsItsWrites
<1>1. IInv => VersionHoldsItsWrites
    BY DEF IInv, SaveInv
<1> QED BY <1>1, InvCorrect, PTL

\* Two checkpoints, at the same time or repeated, save a write twice only if the
\* answer to the first commit was lost (storage.go:362, 439).
THEOREM SavedOnceCorrect == Spec => []SavedOnce
<1>1. IInv => SavedOnce
    BY DEF IInv, SaveInv
<1> QED BY <1>1, InvCorrect, PTL

\* A read returns the file as it is, or as the version it found in the head was,
\* while op moves the head, and other calls run, between its look at the head, at
\* the version's layer, at the active layer, at the rows and at each object
\* (storage.go:166-302).
THEOREM ReadsSnapshotCorrect == Spec => []ReadsSnapshot
<1>1. IInv => ReadsSnapshot
    BY ReadDone DEF IInv
<1> QED BY <1>1, InvCorrect, PTL

\* SizeOf takes no lock and looks three times, and a size that no data race spoiled
\* is still one that the file had during the call, with writes of any range and
\* checkpoints at any time (storage.go:155, 330-357).
THEOREM SizeOfSomeMomentCorrect == Spec => []SizeOfSomeMoment
<1>1. IInv => SizeOfSomeMoment
    BY DEF IInv, SizeInv
<1> QED BY <1>1, InvCorrect, PTL

\* Only a write that met the file without a head, or whose query failed, goes
\* through (storage.go:61-66).
THEOREM PinnedRefusesWritesCorrect == Spec => []PinnedRefusesWrites
<1>1. IInv => PinnedRefusesWrites
    BY DEF IInv, PinInv
<1> QED BY <1>1, InvCorrect, PTL
=============================================================================
