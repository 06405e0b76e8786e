----------------------------- MODULE Directory -----------------------------
(***************************************************************************)
(* What the root of the file system promises to those who use it at the    *)
(* same time: one set of names.  A creation or a removal takes effect at   *)
(* one moment between its call and its return; a look, at one name or at   *)
(* all of them, sees each name as it is at some moment of the call.  That  *)
(* the names live in a database table and in a directory of the host does  *)
(* not show, but for the files the host had there from the start, some of  *)
(* which only a look at all names shows.  Fsx is shown to implement this   *)
(* specification.                                                          *)
(***************************************************************************)
CONSTANTS
    Clients,    \* those who call
    Names,      \* the names of files
    Permanent,  \* the names that are created once and stay: database files
    Unserved    \* the names that no request about one name reaches

VARIABLES
    names,      \* the files there are
    calls       \* calls[c]: what the client c waits for, or its answer

vars == <<names, calls>>

\* op: what is asked, until it is "answered"; left: the names the call has yet to
\* deal with; found: the names a look has seen; outcome: of an answered call.
Asked(op, left) == [op |-> op, left |-> left, found |-> {}, outcome |-> "none"]
Answered(outcome, found) ==
    [op |-> "answered", left |-> {}, found |-> found, outcome |-> outcome]
NoCall == Asked("none", {})

Becomes(c, state) == calls' = [calls EXCEPT ![c] = state]

----------------------------------------------------------------------------

Init == names \in SUBSET (Names \ Permanent) /\ calls = [c \in Clients |-> NoCall]

Call(c) ==
    /\ calls[c] = NoCall
    /\ \/ Becomes(c, Asked("look", Names))
       \/ \E op \in {"look", "create", "remove", "use"}, n \in Names :
             Becomes(c, Asked(op, {n} \ Unserved))
    /\ UNCHANGED names

\* Some of the names are looked at, and the last of them for the answer.
LookAtSome(c) ==
    /\ calls[c].op = "look"
    /\ \E S \in SUBSET calls[c].left :
          Becomes(c, [Asked("look", calls[c].left \ S)
                         EXCEPT !.found = calls[c].found \cup (S \cap names)])
    /\ UNCHANGED names

LookAtLast(c) ==
    /\ calls[c].op = "look"
    /\ Becomes(c, Answered("ok", calls[c].found \cup (calls[c].left \cap names)))
    /\ UNCHANGED names

\* A name may be there already unless it is that of a database file.  An error
\* says nothing of whether the file is there now.
Create(c) ==
    /\ calls[c].op = "create"
    /\ \E n \in calls[c].left :
          /\ n \in Permanent => n \notin names
          /\ names' = names \cup {n}
    /\ \E outcome \in {"ok", "error"} : Becomes(c, Answered(outcome, {}))

Remove(c) ==
    /\ calls[c].op = "remove"
    /\ \E n \in (calls[c].left \cap names) \ Permanent : names' = names \ {n}
    /\ Becomes(c, Answered("ok", {}))

\* The content of a file is used, whatever for.
Use(c) ==
    /\ calls[c].op = "use"
    /\ Becomes(c, Answered("ok", {}))
    /\ UNCHANGED names

Refuse(c) ==
    /\ calls[c].op \in {"look", "create", "remove", "use"}
    /\ Becomes(c, Answered("error", {}))
    /\ UNCHANGED names

Return(c) ==
    /\ calls[c].op = "answered"
    /\ Becomes(c, NoCall)
    /\ UNCHANGED names

\* The daemon goes away, the files stay.
Crash == calls' = [c \in Clients |-> NoCall] /\ UNCHANGED names

Next ==
    \/ \E c \in Clients :
          \/ Return(c) \/ LookAtLast(c) \/ Refuse(c)
          \/ Create(c) \/ Remove(c) \/ Use(c) \/ Call(c)
    \/ \E c \in Clients : LookAtSome(c)
    \/ Crash

Spec == Init /\ [][Next]_vars
============================================================================
