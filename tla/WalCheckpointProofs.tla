------------------------ MODULE WalCheckpointProofs ------------------------
(***************************************************************************)
(* Proofs about WalCheckpoint, for any number of transactions, versions    *)
(* and crashes.                                                            *)
(***************************************************************************)
EXTENDS WalCheckpoint, NumberLemmas, TLAPS

\* What a database that is opened without a head shows.
Latest == IF active # 0 THEN active ELSE LastSaved

\* The log has the transactions that lead from one state to another.
Leads(log, from, to) == (from + 1)..to \subseteq Range(log)

----------------------------------------------------------------------------
(* The inductive invariant                                                 *)

\* TypeOK, and that the WAL and the versions are sequences.
Shapes ==
    /\ TypeOK
    /\ wal \in Seq(1..MaxTxs)
    /\ versions \in Seq(1..MaxTxs)

\* Who can be at work when: nobody writes under a head or during a removal.
Phases ==
    /\ head # 0 => client = "closed"
    /\ remove # "none" => client \in {"closed", "opening", "removing"}
    /\ client = "removing" => remove # "none"

\* The WAL leads from the saved state to the active layer's, and its synced
\* part to the last acknowledged transaction: Recoverable, said of the log.
WalBridges ==
    /\ active # 0 => LastSaved <= active /\ Leads(wal, LastSaved, active)
    /\ Leads(SubSeq(wal, 1, synced), LastSaved, committed)

\* A client starts from what the database showed, which has not changed when it
\* gets to the WAL; then it is ahead of the database by what the WAL has.
ClientAhead ==
    /\ client = "opening" => state = Latest
    /\ client \in {"open", "logged", "applied", "removing"} =>
          /\ Latest <= state
          /\ committed <= state
          /\ Leads(wal, LastSaved, state)
    /\ client = "logged" => state + 1 \in Range(wal)
    /\ client = "applied" => active # 0
    /\ client \in {"applied", "removing"} => state = Latest

\* A removal goes on only while the database has all that was acknowledged, and
\* unlinks when the versions have it.
RemovalCovered ==
    /\ remove # "none" => committed <= Latest
    /\ remove = "unlink" => active = 0

IInv == Shapes /\ Phases /\ WalBridges /\ ClientAhead /\ RemovalCovered

----------------------------------------------------------------------------
(* Logs and replays                                                        *)

\* The records of a log are transactions.
LEMMA ElementsOfLog ==
    ASSUME NEW log \in Seq(1..MaxTxs), NEW i \in DOMAIN log
    PROVE  log[i] \in 1..MaxTxs
<1> DEFINE T == 1..MaxTxs
<1>1. log \in Seq(T)
    OBVIOUS
<1>2. log[i] \in T
    <2> HIDE DEF T
    <2> QED BY <1>1
<1> QED BY <1>2

\* The records of the first part of a log.
LEMMA RangeOfPart ==
    ASSUME NEW log \in Seq(1..MaxTxs), NEW n \in 0..Len(log)
    PROVE  /\ SubSeq(log, 1, n) \in Seq(1..MaxTxs) /\ Len(SubSeq(log, 1, n)) = n
           /\ Range(SubSeq(log, 1, n)) = {log[i] : i \in 1..n}
           /\ Range(SubSeq(log, 1, n)) \subseteq Range(log)
<1>1. DOMAIN SubSeq(log, 1, n) = 1..n /\ Len(SubSeq(log, 1, n)) = n
    OBVIOUS
<1>2. \A i \in 1..n : SubSeq(log, 1, n)[i] = log[i]
    OBVIOUS
<1>3. 1..n \subseteq DOMAIN log
    OBVIOUS
<1>4. SubSeq(log, 1, n) \in Seq(1..MaxTxs)
    <2> DEFINE T == 1..MaxTxs
    <2>1. log \in Seq(T)
        OBVIOUS
    <2>2. SubSeq(log, 1, n) \in Seq(T)
        <3> HIDE DEF T
        <3> QED BY <2>1
    <2> QED BY <2>2
<1>5. Range(SubSeq(log, 1, n)) = {log[i] : i \in 1..n}
    BY <1>1, <1>2 DEF Range
<1>6. Range(SubSeq(log, 1, n)) \subseteq Range(log)
    BY <1>3, <1>5 DEF Range
<1> QED BY <1>1, <1>4, <1>5, <1>6

\* The records of a log with one more.
LEMMA RangeOfAppend ==
    ASSUME NEW log \in Seq(1..MaxTxs), NEW n \in 1..MaxTxs
    PROVE  Range(Append(log, n)) = Range(log) \cup {n}
<1>1. DOMAIN Append(log, n) = 1..(Len(log) + 1) /\ DOMAIN log = 1..Len(log)
    OBVIOUS
<1>2. Append(log, n)[Len(log) + 1] = n /\ \A i \in 1..Len(log) : Append(log, n)[i] = log[i]
    OBVIOUS
<1>3. Len(log) \in Nat
    OBVIOUS
<1>4. 1..(Len(log) + 1) = 1..Len(log) \cup {Len(log) + 1}
    BY <1>3
<1> QED BY <1>1, <1>2, <1>4 DEF Range

\* A replay ends at the last state that the log leads to.
LEMMA ReplayedIsLast ==
    ASSUME NEW database \in 0..MaxTxs, NEW log \in Seq(1..MaxTxs)
    PROVE  /\ Replayed(database, log) \in database..MaxTxs
           /\ Leads(log, database, Replayed(database, log))
           /\ \A n \in 0..MaxTxs : Leads(log, database, n) => n <= Replayed(database, log)
<1> DEFINE S == {n \in database..(database + MaxTxs) : (database + 1)..n \subseteq Range(log)}
<1>1. Range(log) \subseteq 1..MaxTxs
    <2>1. \A i \in DOMAIN log : log[i] \in 1..MaxTxs
        BY ElementsOfLog
    <2> QED BY <2>1 DEF Range
<1>2. database \in S
    BY CapsAssumption
<1>3. \A n \in S : n \in database..MaxTxs
    <2> SUFFICES ASSUME NEW n \in S, n # database PROVE n \in database..MaxTxs
        BY CapsAssumption
    <2>1. n \in (database + 1)..n
        BY CapsAssumption
    <2> QED BY <2>1, <1>1, CapsAssumption
<1>4. S \subseteq Nat /\ S # {} /\ \A n \in S : n <= MaxTxs
    <2> HIDE DEF S
    <2> QED BY <1>2, <1>3, CapsAssumption
<1>5. PICK m \in S : \A n \in S : n <= m
    <2> HIDE DEF S
    <2> QED BY <1>4, NatHasMax, CapsAssumption
<1>6. Max(S) \in S /\ \A n \in S : n <= Max(S)
    <2>1. m \in S /\ \A n \in S : m >= n
        BY <1>4, <1>5
    <2>2. Max(S) \in S /\ \A n \in S : Max(S) >= n
        BY <2>1 DEF Max
    <2> QED BY <2>2, <1>4
<1>7. Replayed(database, log) = Max(S)
    BY DEF Replayed
<1>8. ASSUME NEW n \in 0..MaxTxs, Leads(log, database, n)
      PROVE  n <= Max(S)
    <2>1. CASE n <= database
        BY <2>1, <1>2, <1>3, <1>6
    <2>2. CASE n > database
        <3>1. n \in S
            BY <2>2, <1>8, CapsAssumption DEF Leads
        <3> QED BY <3>1, <1>6
    <2> QED BY <2>1, <2>2, CapsAssumption
<1>9. Max(S) \in database..MaxTxs /\ Leads(log, database, Max(S))
    BY <1>3, <1>6 DEF Leads
<1> QED BY <1>7, <1>8, <1>9

\* What the database and the versions hold is a state.
LEMMA StatesType ==
    ASSUME Shapes
    PROVE  LastSaved \in 0..MaxTxs /\ Latest \in 0..MaxTxs
<1>1. versions # << >> => Len(versions) \in DOMAIN versions
    BY DEF Shapes
<1>2. versions # << >> => Last(versions) \in 1..MaxTxs
    BY <1>1, ElementsOfLog DEF Shapes, Last
<1> QED BY <1>2, CapsAssumption DEF LastSaved, Latest, Shapes, TypeOK

\* The synced part of the WAL leads no further than the whole.
LEMMA SyncedPart ==
    ASSUME Shapes, NEW from \in Nat, NEW to \in Nat, Leads(SubSeq(wal, 1, synced), from, to)
    PROVE  Leads(wal, from, to)
<1>1. synced \in 0..Len(wal) /\ wal \in Seq(1..MaxTxs)
    BY DEF Shapes, TypeOK
<1>2. Range(SubSeq(wal, 1, synced)) = {wal[i] : i \in 1..synced}
    BY <1>1, RangeOfPart
<1>3. Range(SubSeq(wal, 1, synced)) \subseteq Range(wal)
    BY <1>1, <1>2 DEF Range
<1> QED BY <1>3 DEF Leads

\* A new version that is not older than the last one needs no more of the WAL.
LEMMA LeadsFromLater ==
    ASSUME NEW from \in Nat, NEW later \in Nat, from <= later, NEW to \in Nat, NEW log,
           Leads(log, from, to)
    PROVE  Leads(log, later, to)
BY DEF Leads

----------------------------------------------------------------------------
(* Every step keeps the invariant                                          *)

\* Nothing is saved, acknowledged or logged at the start.
LEMMA InitInv == Init => IInv
<1> SUFFICES ASSUME Init PROVE IInv
    OBVIOUS
<1>1. Shapes
    <2>1. wal = << >> /\ versions = << >> /\ Range(wal) = {}
        BY DEF Init, Range
    <2>2. wal \in Seq(1..MaxTxs) /\ versions \in Seq(1..MaxTxs)
          /\ Len(wal) = 0 /\ Len(versions) = 0 /\ DOMAIN versions = {}
        BY <2>1
    <2>3. 0 \in 0..MaxTxs /\ 0 \in 0..MaxCrashes /\ 0 \in 0..0
        BY CapsAssumption
    <2>4. /\ hasWal \in BOOLEAN /\ (wal # << >> => hasWal)
          /\ Range(wal) \subseteq 1..MaxTxs
          /\ synced \in 0..Len(wal)
          /\ \A i \in DOMAIN versions : versions[i] \in 1..MaxTxs
          /\ head \in 0..Len(versions)
        BY <2>1, <2>2, <2>3 DEF Init
    <2>5. TypeOK
        BY <2>3, <2>4 DEF Init, TypeOK
    <2> QED BY <2>2, <2>5 DEF Shapes
<1>2. LastSaved = 0 /\ committed = 0 /\ active = 0
    BY DEF Init, LastSaved
<1>3. WalBridges
    BY <1>2 DEF WalBridges, Leads
<1> QED BY <1>1, <1>3 DEF Init, IInv, Phases, ClientAhead, RemovalCovered

\* A step that leaves the WAL, the database and the acknowledged transactions
\* alone leaves what they say of each other alone.
LEMMA DataUntouched ==
    ASSUME IInv, UNCHANGED <<wal, synced, active, versions, committed>>
    PROVE  /\ WalBridges'
           /\ LastSaved' = LastSaved /\ Latest' = Latest
           /\ \A from, to : Leads(wal', from, to) <=> Leads(wal, from, to)
BY DEF IInv, WalBridges, LastSaved, Latest, Leads

LEMMA OpenDatabaseInv == IInv /\ OpenDatabase => IInv'
<1> SUFFICES ASSUME IInv, OpenDatabase PROVE IInv'
    OBVIOUS
<1>1. UNCHANGED <<wal, synced, active, versions, committed, hasWal, remove, head, crashes>>
    BY DEF OpenDatabase, server
<1>2. state' = Latest /\ client' = "opening" /\ head = 0
    BY DEF OpenDatabase, DatabaseState, Latest
<1>3. Shapes'
    BY <1>1, <1>2, StatesType DEF IInv, Shapes, TypeOK
<1>4. Phases' /\ RemovalCovered' /\ ClientAhead'
    BY <1>1, <1>2, DataUntouched DEF IInv, Phases, RemovalCovered, ClientAhead
<1> QED BY <1>1, <1>3, <1>4, DataUntouched DEF IInv

\* The replay reaches the last acknowledged transaction, from the state the
\* database had when the client read it.
LEMMA ReadWalInv == IInv /\ ReadWal => IInv'
<1> SUFFICES ASSUME IInv, ReadWal PROVE IInv'
    OBVIOUS
<1>1. UNCHANGED <<wal, synced, active, versions, committed, hasWal, remove, head, crashes>>
    BY DEF ReadWal, server
<1>2. client = "opening" /\ client' = "open" /\ remove = "none" /\ head = 0
    BY DEF ReadWal, WalFree, IInv, Phases
<1>3. state = Latest /\ state' = Replayed(Latest, wal)
    BY <1>2 DEF ReadWal, IInv, ClientAhead
<1>4. LastSaved \in 0..MaxTxs /\ Latest \in 0..MaxTxs /\ wal \in Seq(1..MaxTxs)
      /\ committed \in 0..MaxTxs
    BY StatesType DEF IInv, Shapes, TypeOK
<1>5. /\ state' \in Latest..MaxTxs
      /\ Leads(wal, Latest, state')
      /\ \A n \in 0..MaxTxs : Leads(wal, Latest, n) => n <= state'
    BY <1>3, <1>4, ReplayedIsLast
<1>6. LastSaved <= Latest /\ Leads(wal, LastSaved, Latest)
    BY <1>4 DEF IInv, WalBridges, Latest, Leads
<1>7. Leads(wal, LastSaved, state')
    BY <1>4, <1>5, <1>6, CapsAssumption DEF Leads
<1>8. committed <= state'
    <2>1. Leads(wal, LastSaved, committed)
        BY <1>4, SyncedPart, CapsAssumption DEF IInv, WalBridges
    <2>2. Leads(wal, Latest, committed)
        BY <1>4, <1>6, <2>1, LeadsFromLater, CapsAssumption
    <2> QED BY <1>4, <1>5, <2>2
<1>9. Shapes'
    BY <1>1, <1>2, <1>4, <1>5, CapsAssumption DEF IInv, Shapes, TypeOK
<1>10. ClientAhead'
    BY <1>1, <1>2, <1>4, <1>5, <1>7, <1>8, DataUntouched DEF ClientAhead
<1>11. Phases' /\ RemovalCovered'
    BY <1>1, <1>2 DEF IInv, Phases, RemovalCovered
<1> QED BY <1>1, <1>9, <1>10, <1>11, DataUntouched DEF IInv

LEMMA CreateWalInv == IInv /\ CreateWal => IInv'
<1> SUFFICES ASSUME IInv, CreateWal PROVE IInv'
    OBVIOUS
<1>1. UNCHANGED <<wal, synced, active, versions, committed, remove, head, client, state, crashes>>
    BY DEF CreateWal
<1>2. Shapes'
    BY <1>1 DEF CreateWal, IInv, Shapes, TypeOK
<1>3. Phases' /\ RemovalCovered' /\ ClientAhead'
    BY <1>1, DataUntouched DEF IInv, Phases, RemovalCovered, ClientAhead
<1> QED BY <1>1, <1>2, <1>3, DataUntouched DEF IInv

\* A record at the end of the WAL is not synced yet.
LEMMA WriteWalInv == IInv /\ WriteWal => IInv'
<1> SUFFICES ASSUME IInv, WriteWal PROVE IInv'
    OBVIOUS
<1>1. UNCHANGED <<hasWal, synced, active, versions, head, remove, state, committed, crashes>>
    BY DEF WriteWal
<1>2. /\ client = "open" /\ client' = "logged" /\ remove = "none" /\ head = 0
      /\ hasWal /\ state < MaxTxs /\ wal' = Append(wal, state + 1)
    BY DEF WriteWal, WalFree, IInv, Phases
<1>3. wal \in Seq(1..MaxTxs) /\ state + 1 \in 1..MaxTxs /\ synced \in 0..Len(wal)
    BY <1>2, CapsAssumption DEF IInv, Shapes, TypeOK
<1>4. Range(wal') = Range(wal) \cup {state + 1}
    BY <1>2, <1>3, RangeOfAppend
<1>5. wal' \in Seq(1..MaxTxs) /\ synced \in 0..Len(wal')
    BY <1>2, <1>3
<1>6. Shapes'
    BY <1>1, <1>2, <1>3, <1>4, <1>5 DEF IInv, Shapes, TypeOK
<1>7. Range(SubSeq(wal', 1, synced)) = Range(SubSeq(wal, 1, synced))
    <2>1. \A i \in 1..synced : wal'[i] = wal[i]
        BY <1>2, <1>3
    <2>2. Range(SubSeq(wal, 1, synced)) = {wal[i] : i \in 1..synced}
        BY <1>3, RangeOfPart
    <2>3. Range(SubSeq(wal', 1, synced)) = {wal'[i] : i \in 1..synced}
        BY <1>5, RangeOfPart
    <2> QED BY <2>1, <2>2, <2>3
<1>8. LastSaved' = LastSaved /\ Latest' = Latest
    BY <1>1 DEF LastSaved, Latest
<1>9. WalBridges'
    BY <1>1, <1>4, <1>7, <1>8 DEF IInv, WalBridges, Leads
<1>10. ClientAhead'
    BY <1>1, <1>2, <1>4, <1>8 DEF IInv, ClientAhead, Leads
<1>11. Phases' /\ RemovalCovered'
    BY <1>1, <1>2, <1>8 DEF IInv, Phases, RemovalCovered
<1> QED BY <1>6, <1>9, <1>10, <1>11 DEF IInv

\* A sync makes all of the WAL durable before its last record is acknowledged.
LEMMA SyncWalInv == IInv /\ SyncWal => IInv'
<1> SUFFICES ASSUME IInv, SyncWal PROVE IInv'
    OBVIOUS
<1>1. UNCHANGED <<hasWal, wal, active, versions, head, remove, crashes>>
    BY DEF SyncWal
<1>2. client = "logged" /\ client' = "open" /\ remove = "none" /\ head = 0
    BY DEF SyncWal, WalFree, IInv, Phases
<1>3. /\ wal \in Seq(1..MaxTxs) /\ LastSaved \in 0..MaxTxs /\ Latest \in 0..MaxTxs
      /\ state \in 0..MaxTxs /\ committed \in 0..MaxTxs
    BY StatesType DEF IInv, Shapes, TypeOK
<1>4. /\ state + 1 \in Range(wal) /\ Leads(wal, LastSaved, state)
      /\ committed <= state /\ Latest <= state
    BY <1>2 DEF IInv, ClientAhead
<1>5. state + 1 \in 1..MaxTxs
    BY <1>4 DEF IInv, Shapes, TypeOK
<1>6. committed' = state + 1
    <2>1. state + 1 \in {committed, state + 1} /\ \A n \in {committed, state + 1} : state + 1 >= n
        BY <1>3, <1>4
    <2>2. /\ Max({committed, state + 1}) \in {committed, state + 1}
          /\ \A n \in {committed, state + 1} : Max({committed, state + 1}) >= n
        BY <2>1 DEF Max
    <2>3. Max({committed, state + 1}) = state + 1
        BY <1>3, <1>4, <2>2
    <2> QED BY <2>3 DEF SyncWal
<1>7. synced' = Len(wal) /\ state' = state + 1
    BY DEF SyncWal
<1>8. Shapes'
    BY <1>1, <1>2, <1>3, <1>5, <1>6, <1>7 DEF IInv, Shapes, TypeOK
<1>9. Leads(wal, LastSaved, state + 1)
    BY <1>3, <1>4 DEF Leads
<1>10. LastSaved' = LastSaved /\ Latest' = Latest
    BY <1>1 DEF LastSaved, Latest
<1>11. SubSeq(wal', 1, synced') = wal
    BY <1>1, <1>3, <1>7
<1>12. WalBridges'
    BY <1>1, <1>6, <1>9, <1>10, <1>11 DEF IInv, WalBridges
<1>13. ClientAhead'
    BY <1>1, <1>2, <1>3, <1>4, <1>6, <1>7, <1>9, <1>10 DEF ClientAhead
<1>14. Phases' /\ RemovalCovered'
    BY <1>1, <1>2 DEF IInv, Phases, RemovalCovered
<1> QED BY <1>8, <1>12, <1>13, <1>14 DEF IInv

LEMMA WalFailsInv == IInv /\ WalFails => IInv'
<1> SUFFICES ASSUME IInv, WalFails PROVE IInv'
    OBVIOUS
<1>1. UNCHANGED <<wal, synced, active, versions, committed, hasWal, remove, head, state, crashes>>
    BY DEF WalFails, server
<1>2. client = "logged" /\ client' = "closed"
    BY DEF WalFails
<1>3. Shapes' /\ Phases' /\ RemovalCovered' /\ ClientAhead'
    BY <1>1, <1>2, DataUntouched
    DEF IInv, Shapes, TypeOK, Phases, RemovalCovered, ClientAhead
<1> QED BY <1>1, <1>3, DataUntouched DEF IInv

\* DuckDB writes the state it is in, which the WAL leads to.
LEMMA WriteDatabaseInv == IInv /\ WriteDatabase => IInv'
<1> SUFFICES ASSUME IInv, WriteDatabase PROVE IInv'
    OBVIOUS
<1>1. UNCHANGED <<hasWal, wal, synced, versions, head, remove, state, committed, crashes>>
    BY DEF WriteDatabase
<1>2. client = "open" /\ client' = "applied" /\ head = 0 /\ state > 0 /\ active' = state
    BY DEF WriteDatabase
<1>3. state \in 0..MaxTxs /\ LastSaved \in 0..MaxTxs /\ Latest \in 0..MaxTxs
    BY StatesType DEF IInv, Shapes, TypeOK
<1>4. LastSaved' = LastSaved /\ Latest' = state
    BY <1>1, <1>2, <1>3 DEF LastSaved, Latest
<1>5. Latest <= state /\ committed <= state /\ Leads(wal, LastSaved, state)
    BY <1>2 DEF IInv, ClientAhead
<1>6. LastSaved <= Latest
    BY <1>3 DEF IInv, WalBridges, Latest
<1>7. Shapes'
    BY <1>1, <1>2, <1>3 DEF IInv, Shapes, TypeOK
<1>8. WalBridges'
    BY <1>1, <1>2, <1>3, <1>4, <1>5, <1>6 DEF IInv, WalBridges
<1>9. ClientAhead'
    BY <1>1, <1>2, <1>3, <1>4, <1>5 DEF ClientAhead
<1>10. Phases' /\ RemovalCovered'
    BY <1>1, <1>2 DEF IInv, Phases, RemovalCovered
<1> QED BY <1>7, <1>8, <1>9, <1>10 DEF IInv

\* A removal is asked for when the database has all that was acknowledged.
LEMMA RequestRemoveInv == IInv /\ RequestRemove => IInv'
<1> SUFFICES ASSUME IInv, RequestRemove PROVE IInv'
    OBVIOUS
<1>1. UNCHANGED <<hasWal, wal, synced, active, versions, head, state, committed, crashes>>
    BY DEF RequestRemove
<1>2. remove = "none" /\ remove' = "checkpoint" /\ client' = "removing"
    BY DEF RequestRemove, WalFree
<1>3. client \in {"applied", "open"} /\ head = 0
    BY DEF RequestRemove, IInv, Phases
<1>4. /\ state \in 0..MaxTxs /\ LastSaved \in 0..MaxTxs /\ Latest \in 0..MaxTxs
      /\ committed \in 0..MaxTxs /\ wal \in Seq(1..MaxTxs)
    BY StatesType DEF IInv, Shapes, TypeOK
<1>5. Latest <= state /\ committed <= state /\ Leads(wal, LastSaved, state)
    BY <1>3 DEF IInv, ClientAhead
<1>6. state = Latest
    <2>1. CASE client = "applied"
        BY <2>1 DEF IInv, ClientAhead
    <2>2. CASE client = "open" /\ \A i \in DOMAIN wal : wal[i] <= DatabaseState
        <3>1. DatabaseState = Latest
            BY <1>3 DEF DatabaseState, Latest
        <3>2. LastSaved <= Latest
            BY <1>4 DEF IInv, WalBridges, Latest
        <3>3. \A n \in Range(wal) : n <= Latest
            BY <2>2, <3>1 DEF Range
        <3>4. state <= LastSaved \/ state \in Range(wal)
            BY <1>4, <1>5 DEF Leads
        <3> QED BY <1>4, <1>5, <3>2, <3>3, <3>4
    <2> QED BY <2>1, <2>2 DEF RequestRemove
<1>7. Shapes'
    BY <1>1, <1>2 DEF IInv, Shapes, TypeOK
<1>8. ClientAhead'
    BY <1>1, <1>2, <1>5, <1>6, DataUntouched DEF ClientAhead
<1>9. RemovalCovered'
    BY <1>1, <1>2, <1>5, <1>6, DataUntouched DEF RemovalCovered
<1>10. Phases'
    BY <1>1, <1>2, <1>3 DEF Phases
<1> QED BY <1>1, <1>7, <1>8, <1>9, <1>10, DataUntouched DEF IInv

\* A removal that ends before it has touched the file.
LEMMA RemovalGivenUp ==
    ASSUME IInv, remove # "none", remove' = "none", Answered,
           UNCHANGED <<hasWal, wal, synced, active, versions, head, state, committed, crashes>>
    PROVE  IInv'
<1>1. client \in {"closed", "opening", "removing"}
      /\ client' \in {"closed", "opening", "open"}
      /\ (client' = "open" <=> client = "removing")
      /\ (client' = "opening" <=> client = "opening")
    BY DEF Answered, IInv, Phases
<1>2. Shapes'
    BY <1>1 DEF IInv, Shapes, TypeOK
<1>3. Phases'
    BY <1>1 DEF IInv, Phases
<1>4. ClientAhead'
    BY <1>1, DataUntouched DEF IInv, ClientAhead
<1>5. RemovalCovered'
    BY DEF RemovalCovered
<1> QED BY <1>2, <1>3, <1>4, <1>5, DataUntouched DEF IInv

LEMMA NothingToCheckpointInv == IInv /\ NothingToCheckpoint => IInv'
<1> SUFFICES ASSUME IInv, NothingToCheckpoint PROVE IInv'
    OBVIOUS
<1>1. UNCHANGED <<hasWal, wal, synced, active, versions, head, client, state, committed, crashes>>
    BY DEF NothingToCheckpoint
<1>2. remove = "checkpoint" /\ active = 0 /\ remove' = "unlink"
    BY DEF NothingToCheckpoint
<1>3. Shapes' /\ Phases' /\ ClientAhead'
    BY <1>1, <1>2, DataUntouched DEF IInv, Shapes, TypeOK, Phases, ClientAhead
<1>4. RemovalCovered'
    BY <1>1, <1>2, DataUntouched DEF IInv, RemovalCovered
<1> QED BY <1>1, <1>3, <1>4, DataUntouched DEF IInv

\* A new version is what the active layer held, the latest state as before, and
\* not older than the last version.
LEMMA SavedState ==
    ASSUME IInv, Saves, active' \in {0, active}
    PROVE  /\ versions' \in Seq(1..MaxTxs)
           /\ \A i \in DOMAIN versions' : versions'[i] \in 1..MaxTxs
           /\ Len(versions') = Len(versions) + 1
           /\ LastSaved \in 0..MaxTxs /\ active \in 1..MaxTxs
           /\ LastSaved <= active
           /\ LastSaved' = active /\ Latest' = active /\ Latest = active
<1>1. active # 0 /\ active \in 0..MaxTxs /\ versions \in Seq(1..MaxTxs)
      /\ versions' = Append(versions, active)
    BY DEF Saves, IInv, Shapes, TypeOK
<1>2. active \in 1..MaxTxs
    BY <1>1, CapsAssumption
<1>3. versions' \in Seq(1..MaxTxs) /\ Len(versions') = Len(versions) + 1
      /\ versions' # << >> /\ versions'[Len(versions')] = active
    BY <1>1, <1>2
<1>4. \A i \in DOMAIN versions' : versions'[i] \in 1..MaxTxs
    BY <1>3, ElementsOfLog
<1>5. LastSaved' = active
    BY <1>3 DEF LastSaved, Last
<1>6. Latest = active /\ Latest' = active
    BY <1>1, <1>5 DEF Latest
<1>7. LastSaved \in 0..MaxTxs /\ LastSaved <= active
    BY <1>1, StatesType DEF IInv, WalBridges
<1> QED BY <1>2, <1>3, <1>4, <1>5, <1>6, <1>7

\* It shortens the way from the versions to the other states.
LEMMA SavedBridges ==
    ASSUME IInv, Saves, active' \in {0, active}, UNCHANGED <<wal, synced, committed>>
    PROVE  /\ WalBridges'
           /\ \A n \in 0..MaxTxs : Leads(wal, LastSaved, n) => Leads(wal', LastSaved', n)
<1>1. LastSaved' = active /\ LastSaved \in Nat /\ active \in Nat /\ LastSaved <= active
    BY SavedState, CapsAssumption
<1>2. committed \in Nat /\ MaxTxs \in Nat
    BY CapsAssumption DEF IInv, Shapes, TypeOK
<1>3. Leads(SubSeq(wal, 1, synced), active, committed)
    <2>1. Leads(SubSeq(wal, 1, synced), LastSaved, committed)
        BY DEF IInv, WalBridges
    <2> QED BY <1>1, <1>2, <2>1, LeadsFromLater
<1>4. Leads(wal, active, active)
    BY <1>1 DEF Leads
<1>5. WalBridges'
    BY <1>1, <1>3, <1>4 DEF WalBridges
<1>6. \A n \in 0..MaxTxs : Leads(wal, LastSaved, n) => Leads(wal, active, n)
    BY <1>1, <1>2 DEF Leads
<1> QED BY <1>1, <1>5, <1>6

\* The versions hold all that was acknowledged before the WAL goes.
LEMMA CheckpointSavesInv == IInv /\ CheckpointSaves => IInv'
<1> SUFFICES ASSUME IInv, CheckpointSaves PROVE IInv'
    OBVIOUS
<1>1. Saves /\ active' \in {0, active}
      /\ UNCHANGED <<hasWal, wal, synced, head, client, state, committed, crashes>>
    BY DEF CheckpointSaves
<1>2. remove = "checkpoint" /\ remove' = "unlink" /\ active' = 0
    BY DEF CheckpointSaves, Saves
<1>3. /\ versions' \in Seq(1..MaxTxs)
      /\ \A i \in DOMAIN versions' : versions'[i] \in 1..MaxTxs
      /\ Len(versions') = Len(versions) + 1
      /\ LastSaved' = active /\ Latest' = active /\ Latest = active
    BY <1>1, SavedState
<1>4. WalBridges' /\ \A n \in 0..MaxTxs : Leads(wal, LastSaved, n) => Leads(wal', LastSaved', n)
    BY <1>1, SavedBridges
<1>5. Shapes'
    <2>1. active' \in 0..MaxTxs /\ head' \in 0..Len(versions')
        BY <1>1, <1>2, <1>3, CapsAssumption DEF IInv, Shapes, TypeOK
    <2> QED BY <1>1, <1>2, <1>3, <2>1 DEF IInv, Shapes, TypeOK
<1>6. ClientAhead'
    <2>1. client \notin {"open", "logged", "applied"}
        BY <1>2 DEF IInv, Phases
    <2>2. client = "removing" => Leads(wal', LastSaved', state)
        BY <1>4 DEF IInv, ClientAhead, Shapes, TypeOK
    <2> QED BY <1>1, <1>3, <2>1, <2>2 DEF IInv, ClientAhead
<1>7. Phases' /\ RemovalCovered'
    BY <1>1, <1>2, <1>3 DEF IInv, Phases, RemovalCovered
<1> QED BY <1>4, <1>5, <1>6, <1>7 DEF IInv

\* The version is there and the WAL stays, which leads from it too.
LEMMA CheckpointUnacknowledgedInv == IInv /\ CheckpointUnacknowledged => IInv'
<1> SUFFICES ASSUME IInv, CheckpointUnacknowledged PROVE IInv'
    OBVIOUS
<1>1. Saves /\ active' \in {0, active} /\ Answered /\ remove' = "none"
      /\ UNCHANGED <<hasWal, wal, synced, active, head, state, committed, crashes>>
    BY DEF CheckpointUnacknowledged
<1>2. /\ client \in {"closed", "opening", "removing"}
      /\ client' \in {"closed", "opening", "open"}
      /\ (client' = "open" <=> client = "removing")
      /\ (client' = "opening" <=> client = "opening")
    BY <1>1 DEF Saves, Answered, IInv, Phases
<1>3. /\ versions' \in Seq(1..MaxTxs)
      /\ \A i \in DOMAIN versions' : versions'[i] \in 1..MaxTxs
      /\ Len(versions') = Len(versions) + 1
      /\ LastSaved' = active /\ Latest' = active /\ Latest = active
    BY <1>1, SavedState
<1>4. WalBridges' /\ \A n \in 0..MaxTxs : Leads(wal, LastSaved, n) => Leads(wal', LastSaved', n)
    BY <1>1, SavedBridges
<1>5. Shapes'
    <2>1. head' \in 0..Len(versions')
        BY <1>1, <1>3 DEF IInv, Shapes, TypeOK
    <2> QED BY <1>1, <1>2, <1>3, <2>1 DEF IInv, Shapes, TypeOK
<1>6. ClientAhead'
    <2>1. client = "removing" => Leads(wal', LastSaved', state)
        BY <1>4 DEF IInv, ClientAhead, Shapes, TypeOK
    <2> QED BY <1>1, <1>2, <1>3, <2>1 DEF IInv, ClientAhead
<1>7. Phases' /\ RemovalCovered'
    BY <1>1, <1>2 DEF IInv, Phases, RemovalCovered
<1> QED BY <1>4, <1>5, <1>6, <1>7 DEF IInv

\* The WAL can go: the versions have all that it led to.
LEMMA UnlinkInv == IInv /\ Unlink => IInv'
<1> SUFFICES ASSUME IInv, Unlink PROVE IInv'
    OBVIOUS
<1>1. UNCHANGED <<active, versions, head, state, committed, crashes>>
      /\ remove = "unlink" /\ remove' = "none" /\ hasWal' = FALSE /\ synced' = 0
    BY DEF Unlink
<1>2. wal' = << >>
    BY DEF Unlink
<1>3. /\ client \in {"closed", "opening", "removing"}
      /\ client' \in {"closed", "opening", "open"}
      /\ (client' = "open" <=> client = "removing")
      /\ (client' = "opening" <=> client = "opening")
    BY <1>1 DEF Unlink, Answered, IInv, Phases
<1>4. active = 0 /\ committed <= LastSaved /\ Latest = LastSaved
    BY <1>1 DEF IInv, RemovalCovered, Latest
<1>5. LastSaved' = LastSaved /\ Latest' = Latest
    BY <1>1 DEF LastSaved, Latest
<1>6. /\ LastSaved \in 0..MaxTxs /\ committed \in 0..MaxTxs /\ state \in 0..MaxTxs
    BY StatesType DEF IInv, Shapes, TypeOK
<1>7. wal' \in Seq(1..MaxTxs) /\ Range(wal') = {} /\ Len(wal') = 0
    BY <1>2 DEF Range
<1>8. Shapes'
    <2>1. synced' \in 0..Len(wal') /\ ~(wal' # << >>) /\ Range(wal') \subseteq 1..MaxTxs
        BY <1>1, <1>2, <1>7
    <2> QED BY <1>1, <1>3, <1>7, <2>1 DEF IInv, Shapes, TypeOK
<1>9. WalBridges'
    BY <1>1, <1>4, <1>5, <1>6 DEF WalBridges, Leads
<1>10. ClientAhead'
    <2>1. client = "removing" => state = Latest
        BY DEF IInv, ClientAhead
    <2>2. client = "opening" => state = Latest
        BY DEF IInv, ClientAhead
    <2> QED BY <1>1, <1>3, <1>4, <1>5, <1>6, <2>1, <2>2 DEF ClientAhead, Leads
<1>11. Phases' /\ RemovalCovered'
    BY <1>1, <1>3 DEF IInv, Phases, RemovalCovered
<1> QED BY <1>8, <1>9, <1>10, <1>11 DEF IInv

LEMMA HeadInv == IInv /\ (SetHead \/ DeleteHead) => IInv'
<1> SUFFICES ASSUME IInv, SetHead \/ DeleteHead PROVE IInv'
    OBVIOUS
<1>1. UNCHANGED <<hasWal, wal, synced, active, versions, remove, client, state, committed, crashes>>
    BY DEF SetHead, DeleteHead, server
<1>2. head' \in 0..Len(versions) /\ (head' # 0 => client = "closed")
    BY DEF SetHead, DeleteHead, IInv, Shapes
<1>3. Shapes' /\ Phases' /\ ClientAhead' /\ RemovalCovered'
    BY <1>1, <1>2, DataUntouched
    DEF IInv, Shapes, TypeOK, Phases, ClientAhead, RemovalCovered
<1> QED BY <1>1, <1>3, DataUntouched DEF IInv

LEMMA ClientCrashInv == IInv /\ ClientCrash => IInv'
<1> SUFFICES ASSUME IInv, ClientCrash PROVE IInv'
    OBVIOUS
<1>1. UNCHANGED <<hasWal, wal, synced, active, versions, remove, head, state, committed>>
      /\ client' = "closed"
    BY DEF ClientCrash, server
<1>2. crashes' \in 0..MaxCrashes
    BY CapsAssumption DEF ClientCrash, Crashes, IInv, Shapes, TypeOK
<1>3. Shapes' /\ Phases' /\ ClientAhead' /\ RemovalCovered'
    BY <1>1, <1>2, DataUntouched
    DEF IInv, Shapes, TypeOK, Phases, ClientAhead, RemovalCovered
<1> QED BY <1>1, <1>3, DataUntouched DEF IInv

\* The active layer is lost, and of the WAL no more than what was not synced.
LEMMA DaemonCrashInv == IInv /\ DaemonCrash => IInv'
<1> SUFFICES ASSUME IInv, DaemonCrash PROVE IInv'
    OBVIOUS
<1>1. UNCHANGED <<hasWal, versions, head, state, committed>>
      /\ active' = 0 /\ remove' = "none" /\ client' = "closed"
    BY DEF DaemonCrash
<1>2. crashes' \in 0..MaxCrashes /\ active' \in 0..MaxTxs
    BY <1>1, CapsAssumption DEF DaemonCrash, Crashes, IInv, Shapes, TypeOK
<1>3. wal \in Seq(1..MaxTxs) /\ synced \in 0..Len(wal)
    BY DEF IInv, Shapes, TypeOK
<1>4. /\ wal' \in Seq(1..MaxTxs) /\ synced' \in 0..Len(wal') /\ Range(wal') \subseteq Range(wal)
      /\ wal' # << >> => wal # << >>
      /\ Range(SubSeq(wal, 1, synced)) \subseteq Range(SubSeq(wal', 1, synced'))
    <2>1. CASE UNCHANGED <<wal, synced>>
        BY <1>3, <2>1
    <2>2. ASSUME NEW n \in synced..Len(wal), wal' = SubSeq(wal, 1, n), synced' = n
          PROVE  /\ wal' \in Seq(1..MaxTxs) /\ synced' \in 0..Len(wal')
                 /\ Range(wal') \subseteq Range(wal)
                 /\ wal' # << >> => wal # << >>
                 /\ Range(SubSeq(wal, 1, synced)) \subseteq Range(SubSeq(wal', 1, synced'))
        <3>1. n \in 0..Len(wal)
            BY <1>3
        <3>2. /\ Range(wal') = {wal[i] : i \in 1..n} /\ wal' \in Seq(1..MaxTxs)
              /\ Len(wal') = n /\ Range(wal') \subseteq Range(wal)
            BY <1>3, <2>2, <3>1, RangeOfPart
        <3>3. Range(SubSeq(wal, 1, synced)) = {wal[i] : i \in 1..synced}
            BY <1>3, RangeOfPart
        <3>4. SubSeq(wal', 1, synced') = wal'
            BY <2>2, <3>2
        <3>5. 1..synced \subseteq 1..n
            BY <1>3
        <3>6. wal' # << >> => wal # << >>
            BY <1>3, <3>1, <3>2
        <3>7. synced' \in 0..Len(wal')
            BY <2>2, <3>1, <3>2
        <3>8. Range(SubSeq(wal, 1, synced)) \subseteq Range(SubSeq(wal', 1, synced'))
            <4>1. {wal[i] : i \in 1..synced} \subseteq {wal[i] : i \in 1..n}
                BY <3>5
            <4> QED BY <3>2, <3>3, <3>4, <4>1
        <3> QED BY <3>2, <3>6, <3>7, <3>8
    <2> QED BY <2>1, <2>2 DEF DaemonCrash
<1>5. Shapes'
    BY <1>1, <1>2, <1>4 DEF IInv, Shapes, TypeOK
<1>6. LastSaved' = LastSaved
    BY <1>1 DEF LastSaved
<1>7. WalBridges'
    BY <1>1, <1>4, <1>6 DEF IInv, WalBridges, Leads
<1>8. Phases' /\ ClientAhead' /\ RemovalCovered'
    BY <1>1 DEF Phases, ClientAhead, RemovalCovered
<1> QED BY <1>5, <1>7, <1>8 DEF IInv

\* Every step of the client, the daemon, op and the host keeps the invariant.
LEMMA StepInv == IInv /\ [Next]_vars => IInv'
<1> SUFFICES ASSUME IInv, [Next]_vars PROVE IInv'
    OBVIOUS
<1>1. CASE OpenDatabase \/ ReadWal \/ CreateWal \/ WriteWal \/ SyncWal \/ WalFails
    BY <1>1, OpenDatabaseInv, ReadWalInv, CreateWalInv, WriteWalInv, SyncWalInv, WalFailsInv
<1>2. CASE WriteDatabase \/ RequestRemove
    BY <1>2, WriteDatabaseInv, RequestRemoveInv
<1>3. CASE CheckpointRefused \/ UnlinkFails
    <2>1. remove # "none" /\ remove' = "none" /\ Answered
          /\ UNCHANGED <<hasWal, wal, synced, active, versions, head, state, committed, crashes>>
        BY <1>3 DEF CheckpointRefused, UnlinkFails
    <2> QED BY <2>1, RemovalGivenUp
<1>4. CASE NothingToCheckpoint \/ CheckpointSaves \/ CheckpointUnacknowledged \/ Unlink
    BY <1>4, NothingToCheckpointInv, CheckpointSavesInv, CheckpointUnacknowledgedInv, UnlinkInv
<1>5. CASE SetHead \/ DeleteHead \/ ClientCrash \/ DaemonCrash
    BY <1>5, HeadInv, ClientCrashInv, DaemonCrashInv
<1>6. CASE UNCHANGED vars
    <2>1. UNCHANGED <<hasWal, wal, synced, active, versions, head, remove, client, state,
                      committed, crashes>>
        BY <1>6 DEF vars
    <2>2. Shapes' /\ Phases' /\ ClientAhead' /\ RemovalCovered'
        BY <2>1, DataUntouched
        DEF IInv, Shapes, TypeOK, Phases, ClientAhead, RemovalCovered
    <2> QED BY <2>1, <2>2, DataUntouched DEF IInv
<1> QED BY <1>1, <1>2, <1>3, <1>4, <1>5, <1>6 DEF Next

----------------------------------------------------------------------------
(* The theorems                                                            *)

\* The invariant says what the properties say.
LEMMA InvImplies == IInv => TypeOK /\ Recoverable /\ OpenSeesCommitted
<1> SUFFICES ASSUME IInv PROVE TypeOK /\ Recoverable /\ OpenSeesCommitted
    OBVIOUS
<1>1. /\ LastSaved \in 0..MaxTxs /\ committed \in 0..MaxTxs /\ state \in 0..MaxTxs
      /\ wal \in Seq(1..MaxTxs) /\ synced \in 0..Len(wal)
    BY StatesType DEF IInv, Shapes, TypeOK
<1>2. SubSeq(wal, 1, synced) \in Seq(1..MaxTxs)
    BY <1>1, RangeOfPart
<1>3. Replayed(LastSaved, SubSeq(wal, 1, synced)) \in LastSaved..MaxTxs
      /\ committed <= Replayed(LastSaved, SubSeq(wal, 1, synced))
    BY <1>1, <1>2, ReplayedIsLast DEF IInv, WalBridges
<1>4. Recoverable
    BY <1>1, <1>3 DEF Recoverable
<1>5. OpenSeesCommitted
    BY <1>1 DEF IInv, ClientAhead, OpenSeesCommitted
<1> QED BY <1>4, <1>5 DEF IInv, Shapes

\* Whatever crashes and wherever a checkpoint is, the versions and the synced
\* WAL hold every acknowledged transaction: the WAL manager unlinks only after
\* the commit (wal.go:221-244).
THEOREM AcknowledgedRecoverable == Spec => []Recoverable
<1>1. Spec => []IInv
    BY InitInv, StepInv, PTL DEF Spec
<1> QED BY <1>1, InvImplies, PTL

\* A client that has opened the database sees every acknowledged transaction,
\* whatever removal was under way between its two reads (wal.go:221-244).
THEOREM ClientsSeeAcknowledged == Spec => []OpenSeesCommitted
<1>1. Spec => []IInv
    BY InitInv, StepInv, PTL DEF Spec
<1> QED BY <1>1, InvImplies, PTL

\* The variables keep their types, and no record of the WAL is beyond the bound.
THEOREM TypeCorrect == Spec => []TypeOK
<1>1. Spec => []IInv
    BY InitInv, StepInv, PTL DEF Spec
<1> QED BY <1>1, InvImplies, PTL
============================================================================
