---------------------------- MODULE OpLogProofs ----------------------------
(***************************************************************************)
(* Proofs about OpLog, for any number of users and versions.               *)
(***************************************************************************)
EXTENDS OpLog, TLAPS

Places == {"closed", "listed", "open", "setting", "set", "deleting", "deleted"}

\* The inductive invariant.  TypeOK and ScreensTruthful hold together: a closed
\* screen is as good as new, so that a list of versions starts at its top row.
IInv ==
    /\ versions \in 0..MaxVersions
    /\ head \in 0..versions
    /\ overtaken \subseteq Informed
    /\ screen \in [Users -> [at : Places, rows : Nat, head : Nat, cursor : Nat \ {0}]]
    /\ \A u \in Users :
          /\ screen[u].rows <= versions
          /\ screen[u].head <= versions
          /\ At(u, "closed") => screen[u] = Closed
          /\ ~At(u, "closed") => screen[u].cursor <= screen[u].rows
    /\ ScreensTruthful

----------------------------------------------------------------------------

\* At the start every screen is closed, and there is nothing to be wrong about.
LEMMA InitInv == Init => IInv
<1> SUFFICES ASSUME Init PROVE IInv
    OBVIOUS
<1>1. Informed = {}
    BY DEF Init, Informed, At, Closed
<1> QED BY <1>1, MaxVersionsAssumption
        DEF Init, IInv, Places, Closed, NoVersion, ScreensTruthful, At

\* What a screen says the head is.
Claimed(u) ==
    IF At(u, "set") THEN Selected(u)
    ELSE IF At(u, "deleted") THEN NoVersion ELSE screen[u].head

\* A step of the user u that leaves the other screens, the versions and the head
\* alone keeps the invariant if it keeps what the invariant says of u.
LEMMA OneScreen ==
    ASSUME IInv, NEW u \in Users, NEW s,
           s \in [at : Places, rows : Nat, head : Nat, cursor : Nat \ {0}],
           screen' = [screen EXCEPT ![u] = s],
           UNCHANGED <<versions, head>>,
           s.rows <= versions, s.head <= versions,
           s.at = "closed" => s = Closed,
           s.at # "closed" => s.cursor <= s.rows,
           overtaken' \ {u} = overtaken \ {u},
           u \in overtaken' => u \in Informed',
           u \in Informed' /\ u \notin overtaken' => head = Claimed(u)'
    PROVE  IInv'
<1>1. screen' \in [Users -> [at : Places, rows : Nat, head : Nat, cursor : Nat \ {0}]]
    BY DEF IInv
<1>2. screen'[u] = s /\ \A v \in Users \ {u} : screen'[v] = screen[v]
    BY DEF IInv
<1>3. \A v \in Users \ {u} :
          /\ v \in Informed' <=> v \in Informed
          /\ v \in overtaken' <=> v \in overtaken
    BY <1>2 DEF Informed, At
<1>4. overtaken' \subseteq Informed'
    BY <1>3 DEF IInv, Informed
<1>5. ASSUME NEW v \in Users
      PROVE  /\ screen'[v].rows <= versions'
             /\ screen'[v].head <= versions'
             /\ At(v, "closed")' => screen'[v] = Closed
             /\ ~At(v, "closed")' => screen'[v].cursor <= screen'[v].rows
    <2>1. CASE v = u
        BY <2>1, <1>2 DEF At
    <2>2. CASE v # u
        BY <2>2, <1>2 DEF IInv, At
    <2> QED BY <2>1, <2>2
<1>6. ASSUME NEW v \in Informed' \ overtaken'
      PROVE  head' = Claimed(v)'
    <2>1. v \in Users
        BY DEF Informed
    <2>2. CASE v = u
        BY <2>2, <1>6
    <2>3. CASE v # u
        <3>1. v \in Informed \ overtaken
            BY <2>1, <2>3, <1>3
        <3>2. head = Claimed(v)
            BY <3>1 DEF IInv, ScreensTruthful, Claimed
        <3> QED BY <3>2, <2>1, <2>3, <1>2 DEF Claimed, At, Selected, VersionIn, NoVersion
    <2> QED BY <2>2, <2>3
<1>7. ScreensTruthful'
    BY <1>6 DEF ScreensTruthful, Claimed
<1> QED BY <1>1, <1>4, <1>5, <1>7 DEF IInv, Closed, NoVersion, At

\* The rows and the cursor of an open screen, and the version it selects.
LEMMA SelectedType ==
    ASSUME IInv, NEW u \in Users, ~At(u, "closed")
    PROVE  /\ screen[u].rows \in Nat /\ screen[u].cursor \in Nat
           /\ Selected(u) \in 1..screen[u].rows
           /\ Selected(u) \in 1..versions
<1>1. /\ screen[u].rows \in Nat /\ screen[u].cursor \in Nat \ {0}
      /\ screen[u].cursor <= screen[u].rows /\ screen[u].rows <= versions
      /\ versions \in Nat
    BY MaxVersionsAssumption DEF IInv
<1> QED BY <1>1 DEF Selected, VersionIn

\* A screen that is made anew has its cursor on a row.
LEMMA RefreshedType ==
    ASSUME IInv, NEW u \in Users, screen[u].rows > 0, NEW shown \in 0..versions
    PROVE  /\ Refreshed(u, shown) \in [at : Places, rows : Nat, head : Nat, cursor : Nat \ {0}]
           /\ Refreshed(u, shown).at = "open"
           /\ Refreshed(u, shown).rows = screen[u].rows
           /\ Refreshed(u, shown).head = shown
           /\ Refreshed(u, shown).cursor <= screen[u].rows
<1> DEFINE c == IF shown \in 1..screen[u].rows THEN screen[u].rows + 1 - shown ELSE 1
<1>1. screen[u] \in [at : Places, rows : Nat, head : Nat, cursor : Nat \ {0}]
    BY DEF IInv
<1>2. screen[u].rows \in Nat /\ shown \in Nat
    BY <1>1, MaxVersionsAssumption DEF IInv
<1>3. c \in Nat \ {0} /\ c <= screen[u].rows
    BY <1>2
<1>4. Refreshed(u, shown) = [screen[u] EXCEPT !.at = "open", !.head = shown, !.cursor = c]
    BY DEF Refreshed
<1> HIDE DEF c
<1> QED BY <1>1, <1>2, <1>3, <1>4 DEF Places

\* A screen that only goes on to another place, or whose cursor moves as well.
LEMMA PlaceType ==
    ASSUME IInv, NEW u \in Users, NEW at \in Places, NEW row \in Nat \ {0}
    PROVE  LET s == [screen[u] EXCEPT !.at = at, !.cursor = row] IN
           /\ s \in [at : Places, rows : Nat, head : Nat, cursor : Nat \ {0}]
           /\ s.at = at /\ s.rows = screen[u].rows
           /\ s.head = screen[u].head /\ s.cursor = row
<1>1. screen[u] \in [at : Places, rows : Nat, head : Nat, cursor : Nat \ {0}]
    BY DEF IInv
<1> QED BY <1>1

----------------------------------------------------------------------------

\* A transaction on the head, after which u knows the head and is where it knows
\* it, and all others that knew another one are overtaken.
LEMMA CommitKeeps ==
    ASSUME IInv, NEW u \in Users, ~At(u, "closed"),
           NEW version \in 0..versions, NEW at \in {"set", "deleted"},
           Commits(u, version), Goto(u, at), UNCHANGED versions,
           version = IF at = "set" THEN Selected(u) ELSE NoVersion
    PROVE  IInv'
<1> DEFINE s == [screen[u] EXCEPT !.at = at]
<1>1. screen[u] \in [at : Places, rows : Nat, head : Nat, cursor : Nat \ {0}]
    BY DEF IInv
<1>2. /\ s \in [at : Places, rows : Nat, head : Nat, cursor : Nat \ {0}]
      /\ s.at = at /\ s.rows = screen[u].rows
      /\ s.head = screen[u].head /\ s.cursor = screen[u].cursor
    BY <1>1 DEF Places
<1>3. screen' = [screen EXCEPT ![u] = s]
    BY DEF Goto, IInv
<1> HIDE DEF s
<1>4. screen' \in [Users -> [at : Places, rows : Nat, head : Nat, cursor : Nat \ {0}]]
    BY <1>2, <1>3 DEF IInv
<1>5. screen'[u] = s /\ \A v \in Users \ {u} : screen'[v] = screen[v]
    BY <1>3 DEF IInv
<1>6. \A v \in Users \ {u} : v \in Informed' <=> v \in Informed
    BY <1>5 DEF Informed, At
<1>7. u \notin overtaken' /\ overtaken' \subseteq Informed'
    BY <1>6 DEF Commits, IInv, Informed
<1>8. ASSUME NEW v \in Users
      PROVE  /\ screen'[v].rows <= versions'
             /\ screen'[v].head <= versions'
             /\ At(v, "closed")' => screen'[v] = Closed
             /\ ~At(v, "closed")' => screen'[v].cursor <= screen'[v].rows
    <2>1. CASE v = u
        BY <2>1, <1>2, <1>5 DEF IInv, At
    <2>2. CASE v # u
        BY <2>2, <1>5 DEF IInv, At
    <2> QED BY <2>1, <2>2
<1>9. ASSUME NEW v \in Informed' \ overtaken'
      PROVE  head' = Claimed(v)'
    <2>1. v \in Users
        BY DEF Informed
    <2>2. CASE v = u
        <3>1. Claimed(u)' = IF at = "set" THEN Selected(u)' ELSE NoVersion
            BY <1>2, <1>5 DEF Claimed, At, NoVersion
        <3>2. Selected(u)' = Selected(u)
            BY <1>2, <1>5 DEF Selected, VersionIn
        <3> QED BY <2>2, <3>1, <3>2 DEF Commits
    <2>3. CASE v # u
        <3>1. v \in Informed \ overtaken /\ version = head
            BY <1>6, <1>9, <2>1, <2>3 DEF Commits
        <3>2. head = Claimed(v)
            BY <3>1 DEF IInv, ScreensTruthful, Claimed
        <3>3. Claimed(v)' = Claimed(v)
            BY <2>1, <2>3, <1>5 DEF Claimed, At, Selected, VersionIn, NoVersion
        <3> QED BY <3>1, <3>2, <3>3 DEF Commits
    <2> QED BY <2>2, <2>3
<1>10. ScreensTruthful'
    BY <1>9 DEF ScreensTruthful, Claimed
<1>11. head' \in 0..versions' /\ versions' \in 0..MaxVersions
    BY DEF Commits, IInv
<1> QED BY <1>4, <1>7, <1>8, <1>10, <1>11 DEF IInv, Closed, NoVersion, At

\* The step of an error or of a lost answer: the place and the cursor change.
LEMMA PassedOnKeeps ==
    ASSUME IInv, NEW u \in Users, ~At(u, "closed"), ~At(u, "listed"), PassedOn(u),
           UNCHANGED <<versions, head>>,
           \/ u \in overtaken' /\ overtaken' = overtaken \cup {u}
           \/ ~At(u, "set") /\ ~At(u, "deleted") /\ UNCHANGED overtaken
    PROVE  IInv'
<1>1. screen[u].cursor \in Nat \ {0} /\ screen[u].rows \in Nat /\ versions \in Nat
    BY MaxVersionsAssumption DEF IInv
<1>2. PICK row \in screen[u].cursor..screen[u].rows :
          screen' = [screen EXCEPT ![u].at = "open", ![u].cursor = row]
    BY DEF PassedOn
<1>3. row \in Nat \ {0} /\ row <= screen[u].rows
    BY <1>1, <1>2
<1> DEFINE s == [screen[u] EXCEPT !.at = "open", !.cursor = row]
<1>4. /\ s \in [at : Places, rows : Nat, head : Nat, cursor : Nat \ {0}]
      /\ s.at = "open" /\ s.rows = screen[u].rows
      /\ s.head = screen[u].head /\ s.cursor = row
    BY <1>3, PlaceType DEF Places
<1>5. screen' = [screen EXCEPT ![u] = s]
    BY <1>2 DEF IInv
<1> HIDE DEF s
<1>6. screen'[u] = s
    BY <1>5 DEF IInv
<1>7. u \in Informed' /\ Claimed(u)' = screen[u].head
    BY <1>4, <1>6 DEF Informed, Claimed, At
<1>8. u \in Informed
    BY DEF Informed
<1>9. u \notin overtaken' => head = screen[u].head
    BY <1>8 DEF IInv, ScreensTruthful
<1>10. s.rows <= versions /\ s.head <= versions
    BY <1>4 DEF IInv
<1> QED BY <1>3, <1>4, <1>5, <1>7, <1>9, <1>10, OneScreen

\* A step to a place at which the screen claims what it did before.
LEMMA PlaceKeeps ==
    ASSUME IInv, NEW u \in Users, At(u, "open"), NEW at \in {"open", "setting", "deleting"},
           NEW row \in 1..screen[u].rows,
           screen' = [screen EXCEPT ![u].at = at, ![u].cursor = row],
           UNCHANGED <<versions, head, overtaken>>
    PROVE  IInv'
<1> DEFINE s == [screen[u] EXCEPT !.at = at, !.cursor = row]
<1>1. screen[u].rows \in Nat /\ screen[u].rows <= versions /\ screen[u].head <= versions
    BY DEF IInv
<1>2. row \in Nat \ {0} /\ row <= screen[u].rows
    BY <1>1
<1>3. /\ s \in [at : Places, rows : Nat, head : Nat, cursor : Nat \ {0}]
      /\ s.at = at /\ s.rows = screen[u].rows
      /\ s.head = screen[u].head /\ s.cursor = row
    <2>1. at \in Places
        BY DEF Places
    <2> HIDE DEF Places
    <2> QED BY <1>2, <2>1, PlaceType
<1>4. screen' = [screen EXCEPT ![u] = s]
    BY DEF IInv
<1> HIDE DEF s
<1>5. screen'[u] = s
    BY <1>4 DEF IInv
<1>6. u \in Informed' /\ Claimed(u)' = screen[u].head
    BY <1>3, <1>5 DEF Informed, Claimed, At
<1>7. u \notin overtaken => head = screen[u].head
    BY DEF IInv, ScreensTruthful, Informed, At
<1> QED BY <1>1, <1>2, <1>3, <1>4, <1>6, <1>7, OneScreen

\* The table is made anew around the head that the screen then claims.
LEMMA ShowsKeeps ==
    ASSUME IInv, NEW u \in Users, ~At(u, "closed"), NEW shown \in 0..versions,
           Shows(u, shown), UNCHANGED <<versions, head>>,
           overtaken' \ {u} = overtaken \ {u}, u \notin overtaken' => head = shown
    PROVE  IInv'
<1>1. screen[u].rows \in Nat /\ screen[u].rows > 0 /\ screen[u].rows <= versions
    BY SelectedType DEF IInv
<1> DEFINE s == Refreshed(u, shown)
<1>2. /\ s \in [at : Places, rows : Nat, head : Nat, cursor : Nat \ {0}]
      /\ s.at = "open" /\ s.rows = screen[u].rows
      /\ s.head = shown /\ s.cursor <= screen[u].rows
    BY <1>1, RefreshedType
<1>3. screen' = [screen EXCEPT ![u] = s]
    BY DEF Shows
<1> HIDE DEF s
<1>4. screen'[u] = s
    BY <1>3 DEF IInv
<1>5. u \in Informed' /\ Claimed(u)' = shown
    BY <1>2, <1>4 DEF Informed, Claimed, At
<1>6. versions \in Nat
    BY MaxVersionsAssumption DEF IInv
<1>7. s.rows <= versions /\ s.head <= versions
    BY <1>1, <1>2, <1>6
<1> QED BY <1>2, <1>3, <1>5, <1>7, OneScreen

\* Every step keeps the invariant.
LEMMA NextInv == IInv /\ [Next]_vars => IInv'
<1> SUFFICES ASSUME IInv, [Next]_vars PROVE IInv'
    OBVIOUS
<1>1. CASE SaveVersion
    <2>1. versions \in Nat /\ versions' = versions + 1 /\ versions' \in 0..MaxVersions
        BY <1>1, MaxVersionsAssumption DEF SaveVersion, IInv
    <2>2. head' \in 0..versions'
        BY <1>1, <2>1 DEF SaveVersion, IInv
    <2>3. \A u \in Users : screen[u].rows \in Nat /\ screen[u].head \in Nat
        BY DEF IInv
    <2>4. \A u \in Users : screen[u].rows <= versions' /\ screen[u].head <= versions'
        BY <2>1, <2>3 DEF IInv
    <2> QED BY <1>1, <2>1, <2>2, <2>4
            DEF SaveVersion, IInv, Informed, At, ScreensTruthful, Selected, VersionIn,
                Closed, NoVersion
<1>2. ASSUME NEW u \in Users, ListVersions(u) PROVE IInv'
    <2> DEFINE s == [screen[u] EXCEPT !.at = "listed", !.rows = versions]
    <2>1. screen[u] = Closed /\ At(u, "closed") /\ versions \in Nat /\ versions > 0
        BY <1>2, MaxVersionsAssumption DEF ListVersions, IInv
    <2>2. s.at = "listed" /\ s.rows = versions /\ s.head = 0 /\ s.cursor = 1
        BY <2>1 DEF Closed, NoVersion
    <2>3. screen' = [screen EXCEPT ![u] = s]
        BY <1>2 DEF ListVersions, IInv
    <2> HIDE DEF s
    <2>4. screen'[u] = s
        BY <2>3 DEF IInv
    <2>5. u \notin Informed' /\ u \notin overtaken
        BY <2>1, <2>2, <2>4 DEF Informed, At, IInv
    <2>6. s \in [at : Places, rows : Nat, head : Nat, cursor : Nat \ {0}]
        <3>1. screen[u] \in [at : Places, rows : Nat, head : Nat, cursor : Nat \ {0}]
            BY DEF IInv
        <3> QED BY <2>1, <3>1 DEF s, Places
    <2>7. s.rows <= versions /\ s.head <= versions /\ s.cursor <= s.rows
        BY <2>1, <2>2
    <2> QED BY <1>2, <2>2, <2>3, <2>5, <2>6, <2>7, OneScreen DEF ListVersions
<1>3. ASSUME NEW u \in Users, ReadHead(u) PROVE IInv'
    <2>1. head \in 0..versions
        BY DEF IInv
    <2> QED BY <1>3, <2>1, ShowsKeeps DEF ReadHead, At
<1>4. ASSUME NEW u \in Users, Move(u) PROVE IInv'
    <2>1. PICK row \in 1..screen[u].rows : screen' = [screen EXCEPT ![u].cursor = row]
        BY <1>4 DEF Move
    <2>2. screen' = [screen EXCEPT ![u].at = "open", ![u].cursor = row]
        BY <1>4, <2>1 DEF Move, At, IInv
    <2> QED BY <1>4, <2>2, PlaceKeeps DEF Move
<1>5. ASSUME NEW u \in Users, NEW at \in {"setting", "deleting"}, At(u, "open"),
             Goto(u, at), UNCHANGED <<versions, head, overtaken>>
      PROVE  IInv'
    <2>1. screen[u].cursor \in 1..screen[u].rows
        BY <1>5 DEF IInv, At
    <2>2. screen' = [screen EXCEPT ![u].at = at, ![u].cursor = screen[u].cursor]
        BY <1>5 DEF Goto, IInv
    <2> QED BY <1>5, <2>1, <2>2, PlaceKeeps
<1>6. ASSUME NEW u \in Users, Enter(u) PROVE IInv'
    BY <1>5, <1>6 DEF Enter
<1>7. ASSUME NEW u \in Users, PressD(u) PROVE IInv'
    BY <1>5, <1>7 DEF PressD
<1>8. ASSUME NEW u \in Users, SetHead(u) PROVE IInv'
    <2>1. ~At(u, "closed")
        BY <1>8 DEF SetHead, At
    <2>2. Selected(u) \in 0..versions
        BY <2>1, SelectedType, MaxVersionsAssumption DEF IInv
    <2> QED BY <1>8, <2>1, <2>2, CommitKeeps DEF SetHead
<1>9. ASSUME NEW u \in Users, DeleteHead(u) PROVE IInv'
    <2>1. ~At(u, "closed")
        BY <1>9 DEF DeleteHead, At
    <2>2. NoVersion \in 0..versions
        BY MaxVersionsAssumption DEF IInv, NoVersion
    <2> QED BY <1>9, <2>1, <2>2, CommitKeeps DEF DeleteHead
<1>10. ASSUME NEW u \in Users, KeyAnswered(u) PROVE IInv'
    <2>1. ~At(u, "closed") /\ u \in Informed
        BY <1>10 DEF KeyAnswered, At, Informed
    <2>2. Selected(u) \in 0..versions /\ NoVersion \in 0..versions
        BY <2>1, SelectedType, MaxVersionsAssumption DEF IInv, NoVersion
    <2>3. u \notin overtaken => head = Claimed(u)
        BY <2>1 DEF IInv, ScreensTruthful, Claimed
    <2>4. CASE At(u, "set") /\ Shows(u, Selected(u))
        <3>1. u \notin overtaken => head = Selected(u)
            BY <2>3, <2>4 DEF Claimed
        <3> QED BY <1>10, <2>1, <2>2, <2>4, <3>1, ShowsKeeps DEF KeyAnswered
    <2>5. CASE At(u, "deleted") /\ Shows(u, NoVersion)
        <3>1. u \notin overtaken => head = NoVersion
            BY <2>3, <2>5 DEF Claimed, At
        <3> QED BY <1>10, <2>1, <2>2, <2>5, <3>1, ShowsKeeps DEF KeyAnswered
    <2> QED BY <1>10, <2>4, <2>5 DEF KeyAnswered
<1>11. ASSUME NEW u \in Users, KeyFails(u) PROVE IInv'
    BY <1>11, PassedOnKeeps DEF KeyFails, At
<1>12. ASSUME NEW u \in Users, AnswerLost(u) PROVE IInv'
    BY <1>12, PassedOnKeeps DEF AnswerLost, At
<1>13. ASSUME NEW u \in Users, Quit(u) PROVE IInv'
    <2>1. screen'[u] = Closed
        BY <1>13 DEF Quit, IInv
    <2>2. u \notin Informed'
        BY <2>1 DEF Informed, At, Closed
    <2>3. /\ Closed \in [at : Places, rows : Nat, head : Nat, cursor : Nat \ {0}]
          /\ Closed.rows <= versions /\ Closed.head <= versions /\ Closed.at = "closed"
        BY MaxVersionsAssumption DEF IInv, Closed, Places, NoVersion
    <2> HIDE DEF Closed
    <2> QED BY <1>13, <2>2, <2>3, OneScreen DEF Quit
<1>14. CASE UNCHANGED vars
    BY <1>14 DEF vars, IInv, Informed, At, ScreensTruthful, Selected, VersionIn, Closed,
                 NoVersion
<1> QED BY <1>1, <1>2, <1>3, <1>4, <1>6, <1>7, <1>8, <1>9, <1>10, <1>11, <1>12, <1>13,
           <1>14 DEF Next

----------------------------------------------------------------------------

\* The invariant holds in every reachable state.
LEMMA InvCorrect == Spec => []IInv
<1>1. Init => IInv
    BY InitInv
<1>2. IInv /\ [Next]_vars => IInv'
    BY NextInv
<1> QED BY <1>1, <1>2, PTL DEF Spec

\* For any number of users and of versions, every variable keeps its type and no
\* cursor leaves the rows of its screen (refreshTableModel, main.go:210-265).
THEOREM TypeCorrect == Spec => []TypeOK
<1>1. IInv => TypeOK
    <2> SUFFICES ASSUME IInv PROVE TypeOK
        OBVIOUS
    <2>1. versions \in Nat /\ versions <= MaxVersions /\ MaxVersions \in Nat
        BY MaxVersionsAssumption DEF IInv
    <2>2. ASSUME NEW u \in Users
          PROVE  /\ screen[u].at \in Places
                 /\ screen[u].rows \in 0..versions
                 /\ screen[u].head \in 0..versions
                 /\ screen[u].cursor \in 1..MaxVersions \/ At(u, "closed")
                 /\ ~At(u, "closed") => Selected(u) \in 1..screen[u].rows
        <3>1. screen[u] \in [at : Places, rows : Nat, head : Nat, cursor : Nat \ {0}]
            BY DEF IInv
        <3>2. screen[u].rows <= versions /\ screen[u].head <= versions
            BY DEF IInv
        <3>3. ~At(u, "closed") => screen[u].cursor <= screen[u].rows
            BY DEF IInv
        <3> QED BY <2>1, <3>1, <3>2, <3>3, SelectedType
    <2> QED BY <2>2 DEF TypeOK, IInv, Places
<1> QED BY <1>1, InvCorrect, PTL

\* For any number of users and of versions, a screen shows the head that is set
\* unless another user has moved it since or an answer was lost (Update,
\* main.go:148-182).
THEOREM ScreensCorrect == Spec => []ScreensTruthful
<1>1. IInv => ScreensTruthful
    BY DEF IInv
<1> QED BY <1>1, InvCorrect, PTL
============================================================================
