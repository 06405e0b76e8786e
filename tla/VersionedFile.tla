--------------------------- MODULE VersionedFile ---------------------------
(***************************************************************************)
(* What QuackFS promises its one client, DuckDB, about each database file: *)
(* an array of bytes that can be written in place, saved as a new version  *)
(* by a checkpoint, and viewed as of any saved version while a head is set.*)
(* No layer, chunk, object or database row appears here; LayerStore is     *)
(* shown to implement this specification.                                  *)
(***************************************************************************)
EXTENDS Integers, Sequences, FiniteSetsExt

CONSTANTS
    Files,      \* the names of the database files
    Tags,       \* the version tags
    NoTag,      \* the head of a file that shows its latest content
    Offsets,    \* the offsets a client writes at
    Payloads    \* Payloads[offset]: the byte sequences it writes there

VARIABLES
    content,    \* content[f]: the latest bytes of f, position 1 is offset 0
    saved,      \* the versions of all files, oldest first
    head        \* head[f]: the tag of the version f is pinned to, or NoTag

vars == <<content, saved, head>>

\* Storage that no write has reached reads as zero (storage.go:87-109 pads it).
ZeroByte == 0

\* bytes with data laid over it at offset, zero-filled up to offset if needed.
Overlay(bytes, offset, data) ==
    LET padded == bytes \o [i \in 1..(offset - Len(bytes)) |-> ZeroByte]
    IN  SubSeq(padded, 1, offset) \o data
            \o SubSeq(padded, offset + Len(data) + 1, Len(padded))

VersionsOf(f) == {i \in DOMAIN saved : saved[i].file = f}
TagsOf(f) == {saved[i].tag : i \in VersionsOf(f)}

\* The content of the version of f that carries a tag.
VersionContent(f, tag) ==
    LET version == CHOOSE i \in VersionsOf(f) : saved[i].tag = tag
    IN  saved[version].content

\* What a reader of f sees.
Visible(f) == IF head[f] = NoTag THEN content[f] ELSE VersionContent(f, head[f])

----------------------------------------------------------------------------

Init ==
    /\ content = [f \in Files |-> << >>]
    /\ saved = << >>
    /\ head = [f \in Files |-> NoTag]

\* A file is read-only while a head is set.
Write(f, offset, data) ==
    /\ head[f] = NoTag
    /\ content' = [content EXCEPT ![f] = Overlay(content[f], offset, data)]
    /\ UNCHANGED <<saved, head>>

\* The latest content becomes the newest version, under a tag of its own.
Checkpoint(f, tag) ==
    /\ head[f] = NoTag
    /\ tag \notin TagsOf(f)
    /\ saved' = Append(saved, [file |-> f, tag |-> tag, content |-> content[f]])
    /\ UNCHANGED <<content, head>>

SetHead(f, tag) ==
    /\ tag \in TagsOf(f)
    /\ head' = [head EXCEPT ![f] = tag]
    /\ UNCHANGED <<content, saved>>

DeleteHead(f) ==
    /\ head' = [head EXCEPT ![f] = NoTag]
    /\ UNCHANGED <<content, saved>>

\* A restart loses what no checkpoint saved, and nothing else.
Restart ==
    /\ content' = [f \in Files |->
                      IF VersionsOf(f) = {} THEN << >>
                      ELSE saved[Max(VersionsOf(f))].content]
    /\ UNCHANGED <<saved, head>>

Next ==
    \/ \E f \in Files, offset \in Offsets : \E data \in Payloads[offset] :
          Write(f, offset, data)
    \/ \E f \in Files, tag \in Tags : Checkpoint(f, tag) \/ SetHead(f, tag)
    \/ \E f \in Files : DeleteHead(f)
    \/ Restart

Spec == Init /\ [][Next]_vars
============================================================================
