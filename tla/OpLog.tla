------------------------------- MODULE OpLog -------------------------------
(***************************************************************************)
(* Several users with the screen of the op command open on one file        *)
(* (cmd/op).  A screen is filled by two queries when it starts, the        *)
(* versions first and the head next, and from then on changed only by the  *)
(* answers to its own user's keys; the head is a row that all of them, and *)
(* the daemon's readers, share.  A key that changes the head is handled to *)
(* its end before the screen takes another.                                *)
(*                                                                         *)
(* A version is its number in the order of commits.  Rows are counted from *)
(* 1 at the top, where the newest version is.                              *)
(***************************************************************************)
EXTENDS Naturals

CONSTANTS
    Users,          \* the users, each with a screen
    MaxVersions     \* bound: versions the daemon saves

ASSUME MaxVersionsAssumption == MaxVersions \in Nat

VARIABLES
    versions,   \* how many versions the file has
    head,       \* the row of the table heads, or NoVersion
    screen,     \* what each screen shows and does
    overtaken   \* history: whose screens cannot know the head: it changed, not by
                \* their own answered keys, since they last learned of it

vars == <<versions, head, screen, overtaken>>

NoVersion == 0
Closed == [at |-> "closed", rows |-> 0, head |-> NoVersion, cursor |-> 1]

At(u, place) == screen[u].at = place
Goto(u, place) == screen' = [screen EXCEPT ![u].at = place]

\* ORDER BY created_at DESC: the version in a row.
VersionIn(u, row) == screen[u].rows + 1 - row
Selected(u) == VersionIn(u, screen[u].cursor)

\* Mutant of Refreshed: the cursor counts the rows from 0.
RefreshedFromZero(u, shown) ==
    [screen[u] EXCEPT
        !.at = "open",
        !.head = shown,
        !.cursor = IF shown \in 1..screen[u].rows THEN screen[u].rows - shown ELSE 1]

\* The table is made anew with its cursor at the row of the head, or at the top.
Refreshed(u, shown) ==
    [screen[u] EXCEPT
        !.at = "open",
        !.head = shown,
        !.cursor = IF shown \in 1..screen[u].rows THEN screen[u].rows + 1 - shown ELSE 1]
Shows(u, shown) == screen' = [screen EXCEPT ![u] = Refreshed(u, shown)]

\* The screens that have read the head.
Informed == {u \in Users : ~At(u, "closed") /\ ~At(u, "listed")}

\* A transaction of u sets the head's row: u will know, the others do not.
Commits(u, version) ==
    /\ head' = version
    /\ overtaken' = (IF version = head THEN overtaken ELSE Informed) \ {u}

----------------------------------------------------------------------------

\* A checkpoint of the daemon.
SaveVersion ==
    /\ versions < MaxVersions
    /\ versions' = versions + 1
    /\ UNCHANGED <<head, screen, overtaken>>

\* op log prints a line and ends if there are no versions.
ListVersions(u) ==
    /\ At(u, "closed") /\ versions > 0
    /\ screen' = [screen EXCEPT ![u].at = "listed", ![u].rows = versions]
    /\ UNCHANGED <<versions, head, overtaken>>

ReadHead(u) ==
    /\ At(u, "listed")
    /\ Shows(u, head)
    /\ overtaken' = overtaken \ {u}
    /\ UNCHANGED <<versions, head>>

\* The keys of the table, external code.
Move(u) ==
    /\ At(u, "open")
    /\ \E row \in 1..screen[u].rows : screen' = [screen EXCEPT ![u].cursor = row]
    /\ UNCHANGED <<versions, head, overtaken>>

\* The row of the head that the screen shows is not worth a transaction.
Enter(u) ==
    /\ At(u, "open")
    /\ Selected(u) # screen[u].head
    /\ Goto(u, "setting")
    /\ UNCHANGED <<versions, head, overtaken>>

PressD(u) ==
    /\ At(u, "open")
    /\ Goto(u, "deleting")
    /\ UNCHANGED <<versions, head, overtaken>>

SetHead(u) ==
    /\ At(u, "setting")
    /\ Commits(u, Selected(u))
    /\ Goto(u, "set")
    /\ UNCHANGED versions

DeleteHead(u) ==
    /\ At(u, "deleting")
    /\ Commits(u, NoVersion)
    /\ Goto(u, "deleted")
    /\ UNCHANGED versions

KeyAnswered(u) ==
    /\ \/ At(u, "set") /\ Shows(u, Selected(u))
       \/ At(u, "deleted") /\ Shows(u, NoVersion)
    /\ UNCHANGED <<versions, head, overtaken>>

\* Mutant of KeyFails: the screen shows what was asked for.
KeyFailsUnnoticed(u) ==
    /\ \/ At(u, "setting") /\ Shows(u, Selected(u))
       \/ At(u, "deleting") /\ Shows(u, NoVersion)
    /\ UNCHANGED <<versions, head, overtaken>>

\* An error is not shown: the table gets the key instead, to which d means some
\* rows down and Enter nothing.
PassedOn(u) ==
    \E row \in screen[u].cursor..screen[u].rows :
        /\ At(u, "setting") \/ At(u, "set") => row = screen[u].cursor
        /\ screen' = [screen EXCEPT ![u].at = "open", ![u].cursor = row]

KeyFails(u) ==
    /\ At(u, "setting") \/ At(u, "deleting")
    /\ PassedOn(u)
    /\ UNCHANGED <<versions, head, overtaken>>

\* The transaction took place, and its answer is an error.
AnswerLost(u) ==
    /\ At(u, "set") \/ At(u, "deleted")
    /\ PassedOn(u)
    /\ overtaken' = overtaken \cup {u}
    /\ UNCHANGED <<versions, head>>

Quit(u) ==
    /\ ~At(u, "closed")
    /\ screen' = [screen EXCEPT ![u] = Closed]
    /\ overtaken' = overtaken \ {u}
    /\ UNCHANGED <<versions, head>>

Init ==
    /\ versions = 0 /\ head = NoVersion
    /\ screen = [u \in Users |-> Closed]
    /\ overtaken = {}

Next ==
    \/ SaveVersion
    \/ \E u \in Users :
          \/ ListVersions(u) \/ ReadHead(u) \/ Move(u) \/ Enter(u) \/ PressD(u)
          \/ SetHead(u) \/ DeleteHead(u) \/ KeyAnswered(u) \/ KeyFails(u) \/ AnswerLost(u)
          \/ Quit(u)

Spec == Init /\ [][Next]_vars

----------------------------------------------------------------------------
(* Properties                                                              *)

\* Every variable has its type, and a cursor is on a row that lists a version.
TypeOK ==
    /\ versions \in 0..MaxVersions
    /\ head \in 0..versions
    /\ overtaken \subseteq Informed
    /\ \A u \in Users :
          /\ screen[u].at \in {"closed", "listed", "open", "setting", "set", "deleting",
                               "deleted"}
          /\ screen[u].rows \in 0..versions
          /\ screen[u].head \in 0..versions
          /\ screen[u].cursor \in 1..MaxVersions \/ At(u, "closed")
          /\ ~At(u, "closed") => Selected(u) \in 1..screen[u].rows

\* The head on a screen is the one in the database unless somebody else has moved
\* it since, or the answer to a key was lost: no error, and no refresh with a list
\* of versions that has grown old, makes a screen show what is not so, and Enter
\* on the row it marks is only then in vain (main.go:156-178, 210-265).
ScreensTruthful ==
    \A u \in Informed \ overtaken :
        head = IF At(u, "set") THEN Selected(u)
               ELSE IF At(u, "deleted") THEN NoVersion ELSE screen[u].head
============================================================================
