------------------------ MODULE LayerStoreRefinement ------------------------
(***************************************************************************)
(* Layers, chunks, objects and rows implement the versioned array of bytes *)
(* of VersionedFile: every step of LayerStore is a step of VersionedFile on *)
(* what the files read as, or changes nothing that can be read.            *)
(***************************************************************************)
EXTENDS LayerStoreReadProofs

----------------------------------------------------------------------------
(* What a file reads as is its picture, as a sequence                      *)

BytesOf(picture) == [k \in {at + 1 : at \in DOMAIN picture} |-> picture[k - 1]]

LEMMA BytesOfInterval ==
    ASSUME NEW picture, NEW end \in Nat, DOMAIN picture = 0..(end - 1)
    PROVE  BytesOf(picture) = Bytes(picture, end)
<1>1. {at + 1 : at \in 0..(end - 1)} = 1..end
    <2>1. \A k \in 1..end : k - 1 \in 0..(end - 1) /\ k = (k - 1) + 1
        OBVIOUS
    <2>2. \A at \in 0..(end - 1) : at + 1 \in 1..end
        OBVIOUS
    <2> QED BY <2>1, <2>2
<1> QED BY <1>1 DEF BytesOf, Bytes

ReadsArePictures ==
    \A f \in Files :
        /\ ReadWhole(f, 0).data = BytesOf(Picture(f, Now(f)))
        /\ \A i \in LayerIdsOf(f) : ReadWhole(f, i).data = BytesOf(Picture(f, UpTo(f, i)))

LEMMA ReadsAre ==
    ASSUME MarksApart PROVE ReadInv => ReadsArePictures
<1> SUFFICES ASSUME ReadInv, NEW f \in Files
             PROVE  /\ ReadWhole(f, 0).data = BytesOf(Picture(f, Now(f)))
                    /\ \A i \in LayerIdsOf(f) : ReadWhole(f, i).data = BytesOf(Picture(f, UpTo(f, i)))
    BY DEF ReadsArePictures
<1>1. ASSUME NEW layer, NEW ids \in SUBSET (LayerIdsOf(f) \cup {ActiveId}),
             ids = LayersSeen(f, layer), NoHoles(Picture(f, ids))
      PROVE  ReadWhole(f, layer).data = BytesOf(Picture(f, ids))
    <2>1. PICK end \in 0..MaxFileSize :
              /\ DOMAIN Picture(f, ids) = 0..(end - 1)
              /\ ReadWhole(f, layer) = [status |-> "ok", data |-> Bytes(Picture(f, ids), end)]
        BY <1>1, WindowOf
    <2>2. BytesOf(Picture(f, ids)) = Bytes(Picture(f, ids), end)
        BY <2>1, BytesOfInterval, BoundsAssumption
    <2> QED BY <2>1, <2>2
<1>2. ReadWhole(f, 0).data = BytesOf(Picture(f, Now(f)))
    <2>1. Now(f) = LayersSeen(f, 0) /\ NoHoles(Picture(f, Now(f)))
        BY DEF ReadInv, HolesInv, LayersSeen, Now
    <2> QED BY <1>1, <2>1 DEF Now
<1>3. ASSUME NEW i \in LayerIdsOf(f)
      PROVE  ReadWhole(f, i).data = BytesOf(Picture(f, UpTo(f, i)))
    <2>1. i \in Nat /\ i > 0 /\ i \in 0..Len(layers)
        BY DEF ReadInv, CatalogInv, TypeOK, LayerIdsOf
    <2>2. UpTo(f, i) = LayersSeen(f, i) /\ NoHoles(Picture(f, UpTo(f, i)))
        BY <2>1 DEF ReadInv, HolesInv, LayersSeen, UpTo
    <2> QED BY <1>1, <2>2 DEF UpTo
<1> QED BY <1>2, <1>3

----------------------------------------------------------------------------
(* A write lays its data over the bytes of the file                        *)

LEMMA ByteOfRewritten ==
    ASSUME NEW picture, NEW end \in Nat, DOMAIN picture = 0..(end - 1),
           NEW offset \in Nat, NEW data \in Seq(Nat),
           NEW n \in Nat, n = Len(data), NEW reach \in Nat, reach = offset + n,
           NEW at \in Nat, at \in DOMAIN Rewritten(picture, end, offset, data)
    PROVE  Rewritten(picture, end, offset, data)[at] =
               IF offset <= at /\ at < reach THEN data[at - offset + 1]
               ELSE IF end <= at THEN ZeroByte ELSE picture[at]
<1>1. DOMAIN Laid(offset, data) = offset..(offset + n - 1)
    BY DEF Laid
<1>2. CASE offset <= at /\ at < reach
    <2>1. at \in DOMAIN Laid(offset, data) /\ Laid(offset, data)[at] = data[at - offset + 1]
        BY <1>1, <1>2 DEF Laid
    <2> QED BY <1>2, <2>1 DEF Rewritten, Over
<1>3. CASE ~(offset <= at /\ at < reach)
    <2>1. at \notin DOMAIN Laid(offset, data)
        BY <1>1, <1>3
    <2>2. CASE offset > end
        <3> DEFINE zeroes == Laid(end, Zeroes(offset - end))
        <3>1. offset - end \in Nat
            BY <2>2
        <3>2. DOMAIN zeroes = end..(offset - 1)
            <4>1. Len(Zeroes(offset - end)) = offset - end
                BY <3>1, ZeroesType
            <4> QED BY <2>2, <4>1 DEF Laid
        <3>3. ASSUME end <= at PROVE at \in DOMAIN zeroes /\ zeroes[at] = ZeroByte
            <4>1. at \in DOMAIN zeroes \cup DOMAIN picture
                BY <2>1, <2>2 DEF Rewritten, Over
            <4>2. at \in end..(offset - 1)
                BY <3>2, <3>3, <4>1
            <4>3. at - end + 1 \in 1..(offset - end)
                BY <2>2, <4>2
            <4> QED BY <3>2, <4>2, <4>3 DEF Laid, Zeroes
        <3>4. ~(end <= at) => at \notin DOMAIN zeroes
            BY <3>2
        <3>5. Rewritten(picture, end, offset, data)[at] =
                  IF at \in DOMAIN zeroes THEN zeroes[at] ELSE picture[at]
            BY <2>1, <2>2 DEF Rewritten, Over
        <3> HIDE DEF zeroes
        <3> QED BY <1>3, <3>3, <3>4, <3>5
    <2>3. CASE ~(offset > end)
        <3>1. at \in DOMAIN picture /\ Rewritten(picture, end, offset, data)[at] = picture[at]
            BY <2>1, <2>3 DEF Rewritten, Over
        <3>2. ~(end <= at)
            BY <3>1
        <3> QED BY <1>3, <3>1, <3>2
    <2> QED BY <2>2, <2>3
<1> QED BY <1>2, <1>3

\* The sequences a definition by cases leaves empty.
LEMMA NoBytes ==
    ASSUME NEW S, S = {}, NEW byte
    PROVE  [i \in S |-> byte] = << >>
<1>1. [i \in 1..0 |-> byte] \in Seq({byte}) /\ Len([i \in 1..0 |-> byte]) = 0
    OBVIOUS
<1>2. [i \in 1..0 |-> byte] = << >>
    <2> DEFINE none == [i \in 1..0 |-> byte]
    <2> HIDE DEF none
    <2>1. none \in Seq({byte}) /\ Len(none) = 0
        BY <1>1 DEF none
    <2>2. none = << >>
        BY <2>1
    <2> QED BY <2>2 DEF none
<1>3. S = 1..0
    OBVIOUS
<1> QED BY <1>2, <1>3

\* A picture of nothing is the empty sequence.
LEMMA EmptyPictureBytes ==
    ASSUME NEW picture, DOMAIN picture = {}
    PROVE  BytesOf(picture) = << >>
<1>1. PICK S : S = {at + 1 : at \in DOMAIN picture}
    OBVIOUS
<1>2. S = {}
    BY <1>1
<1>3. [k \in S |-> picture[k - 1]] = [k \in S |-> 0]
    BY <1>2
<1>4. [k \in S |-> 0] = << >>
    BY <1>2, NoBytes
<1> QED BY <1>1, <1>3, <1>4 DEF BytesOf

Longer(m, n) == IF m > n THEN m ELSE n

\* Bytes padded with zeroes up to an offset.
PaddedTo(bytes, offset) == bytes \o [i \in 1..(offset - Len(bytes)) |-> 0]

LEMMA PaddedBytes ==
    ASSUME NEW T, NEW bytes \in Seq(T), 0 \in T, NEW offset \in Nat
    PROVE  /\ PaddedTo(bytes, offset) \in Seq(T)
           /\ Len(PaddedTo(bytes, offset)) = Longer(offset, Len(bytes))
           /\ \A k \in 1..Longer(offset, Len(bytes)) :
                 PaddedTo(bytes, offset)[k] = IF k <= Len(bytes) THEN bytes[k] ELSE 0
<1> PICK end \in Nat : end = Len(bytes)
    OBVIOUS
<1> PICK long \in Nat : long = Longer(offset, end) /\ long = IF offset > end THEN offset ELSE end
    BY DEF Longer
<1>1. CASE offset > end
    <2>1. PICK n \in Nat : n = offset - end /\ end + n = offset
        BY <1>1
    <2> DEFINE zeroes == [i \in 1..n |-> 0]
    <2>2. zeroes \in Seq(T) /\ Len(zeroes) = n /\ \A i \in 1..n : zeroes[i] = 0
        OBVIOUS
    <2> HIDE DEF zeroes
    <2>3. /\ bytes \o zeroes \in Seq(T)
          /\ Len(bytes \o zeroes) = offset
          /\ \A k \in 1..offset : (bytes \o zeroes)[k] = IF k <= end THEN bytes[k] ELSE zeroes[k - end]
        BY <2>1, <2>2
    <2>4. \A k \in 1..offset : ~(k <= end) => k - end \in 1..n
        BY <2>1
    <2>5. /\ bytes \o zeroes \in Seq(T)
          /\ Len(bytes \o zeroes) = long
          /\ \A k \in 1..long : (bytes \o zeroes)[k] = IF k <= end THEN bytes[k] ELSE 0
        BY <1>1, <2>2, <2>3, <2>4
    <2>6. PaddedTo(bytes, offset) = bytes \o zeroes
        BY <2>1 DEF PaddedTo, zeroes
    <2> QED BY <2>5, <2>6
<1>2. CASE ~(offset > end)
    <2>1. 1..(offset - Len(bytes)) = {}
        BY <1>2
    <2>2. [i \in 1..(offset - Len(bytes)) |-> 0] = << >>
        BY <2>1, NoBytes
    <2>3. bytes \o << >> = bytes
        OBVIOUS
    <2>4. Len(bytes) = end /\ \A k \in 1..end : k <= end
        OBVIOUS
    <2>5. /\ bytes \in Seq(T)
          /\ Len(bytes) = long
          /\ \A k \in 1..long : bytes[k] = IF k <= end THEN bytes[k] ELSE 0
        BY <1>2
    <2> QED BY <2>2, <2>3, <2>5 DEF PaddedTo
<1> QED BY <1>1, <1>2

\* A sequence cut in two, and two joined.
LEMMA FrontOf ==
    ASSUME NEW T, NEW s \in Seq(T), NEW n \in Nat, n <= Len(s)
    PROVE  /\ SubSeq(s, 1, n) \in Seq(T) /\ Len(SubSeq(s, 1, n)) = n
           /\ \A k \in 1..n : SubSeq(s, 1, n)[k] = s[k]
OBVIOUS

LEMMA RestOf ==
    ASSUME NEW T, NEW s \in Seq(T), NEW n \in Nat
    PROVE  /\ SubSeq(s, n + 1, Len(s)) \in Seq(T)
           /\ n + Len(SubSeq(s, n + 1, Len(s))) = Longer(n, Len(s))
           /\ \A k \in 1..Len(s) : n < k => SubSeq(s, n + 1, Len(s))[k - n] = s[k]
<1> PICK long \in Nat : long = Len(s)
    OBVIOUS
<1> PICK rest : rest = SubSeq(s, n + 1, long)
    OBVIOUS
<1>1. CASE n < long
    <2>1. long - n \in Nat /\ n + (long - n) = long
        BY <1>1
    <2>2. /\ rest \in Seq(T) /\ Len(rest) = long - n
          /\ \A i \in 1..(long - n) : rest[i] = s[n + i]
        BY <1>1
    <2>3. ASSUME NEW k \in 1..long, n < k PROVE k - n \in 1..(long - n) /\ n + (k - n) = k
        BY <2>3
    <2>4. \A k \in 1..long : n < k => rest[k - n] = s[k]
        BY <2>2, <2>3
    <2> QED BY <1>1, <2>1, <2>2, <2>4 DEF Longer
<1>2. CASE ~(n < long)
    <2>1. rest \in Seq(T) /\ Len(rest) = 0
        BY <1>2
    <2>2. n + 0 = Longer(n, long)
        BY <1>2 DEF Longer
    <2>3. \A k \in 1..long : ~(n < k)
        BY <1>2
    <2> QED BY <2>1, <2>2, <2>3
<1> QED BY <1>1, <1>2

LEMMA Joined ==
    ASSUME NEW T, NEW s \in Seq(T), NEW t \in Seq(T)
    PROVE  /\ s \o t \in Seq(T) /\ Len(s \o t) = Len(s) + Len(t)
           /\ \A k \in 1..Len(s) : (s \o t)[k] = s[k]
           /\ \A k \in 1..(Len(s) + Len(t)) : Len(s) < k => (s \o t)[k] = t[k - Len(s)]
OBVIOUS

\* Two parts of a sequence with data between them.
Reach(offset, data) == offset + Len(data)
Splice(padded, offset, data) ==
    SubSeq(padded, 1, offset) \o data \o SubSeq(padded, Reach(offset, data) + 1, Len(padded))

\* What either of them is, cell by cell.
IsSplice(spliced, padded, offset, data) ==
    /\ Len(spliced) = Longer(Reach(offset, data), Len(padded))
    /\ \A k \in 1..Longer(Reach(offset, data), Len(padded)) :
          spliced[k] =
              IF offset < k /\ k <= Reach(offset, data) THEN data[k - offset] ELSE padded[k]

IsOverlay(overlay, bytes, offset, data) ==
    /\ Len(overlay) = Longer(Reach(offset, data), Len(bytes))
    /\ \A k \in 1..Longer(Reach(offset, data), Len(bytes)) :
          overlay[k] = IF offset < k /\ k <= Reach(offset, data) THEN data[k - offset]
                       ELSE IF k <= Len(bytes) THEN bytes[k] ELSE 0

LEMMA Spliced ==
    ASSUME NEW T, NEW padded \in Seq(T), NEW data \in Seq(T), NEW offset \in Nat,
           offset <= Len(padded)
    PROVE  /\ Splice(padded, offset, data) \in Seq(T)
           /\ IsSplice(Splice(padded, offset, data), padded, offset, data)
<1> DEFINE reach == Reach(offset, data)
           before == SubSeq(padded, 1, offset)
           front == before \o data
           after == SubSeq(padded, reach + 1, Len(padded))
           spliced == front \o after
<1>1. reach = offset + Len(data) /\ reach \in Nat /\ offset <= reach /\ Len(padded) \in Nat
    BY DEF Reach
<1>2. before \in Seq(T) /\ Len(before) = offset /\ \A k \in 1..offset : before[k] = padded[k]
    BY FrontOf
<1>3. /\ front \in Seq(T) /\ Len(front) = Len(before) + Len(data)
      /\ \A k \in 1..Len(before) : front[k] = before[k]
      /\ \A k \in 1..(Len(before) + Len(data)) : Len(before) < k => front[k] = data[k - Len(before)]
    <2>1. before \in Seq(T)
        BY <1>2
    <2> HIDE DEF before
    <2> QED BY <2>1, Joined
<1>4. /\ front \in Seq(T) /\ Len(front) = reach
      /\ \A k \in 1..offset : front[k] = before[k]
      /\ \A k \in 1..reach : offset < k => front[k] = data[k - offset]
    <2> HIDE DEF before, front, reach
    <2> QED BY <1>1, <1>2, <1>3
<1>5. /\ after \in Seq(T) /\ reach + Len(after) = Longer(reach, Len(padded))
      /\ \A k \in 1..Len(padded) : reach < k => after[k - reach] = padded[k]
    <2> HIDE DEF reach
    <2> QED BY <1>1, RestOf
<1>6. /\ spliced \in Seq(T) /\ Len(spliced) = Len(front) + Len(after)
      /\ \A k \in 1..Len(front) : spliced[k] = front[k]
      /\ \A k \in 1..(Len(front) + Len(after)) : Len(front) < k => spliced[k] = after[k - Len(front)]
    <2> HIDE DEF front, after
    <2> QED BY <1>4, <1>5, Joined
<1>7. /\ Len(spliced) = Longer(reach, Len(padded))
      /\ \A k \in 1..reach : spliced[k] = front[k]
      /\ \A k \in 1..Longer(reach, Len(padded)) : reach < k => spliced[k] = after[k - reach]
    <2> HIDE DEF front, after, spliced, reach
    <2> QED BY <1>4, <1>5, <1>6
<1>8. \A k \in 1..Longer(reach, Len(padded)) :
          spliced[k] = IF offset < k /\ k <= reach THEN data[k - offset] ELSE padded[k]
    <2> SUFFICES ASSUME NEW k \in 1..Longer(reach, Len(padded))
                 PROVE  spliced[k] = IF offset < k /\ k <= reach THEN data[k - offset] ELSE padded[k]
        OBVIOUS
    <2> PICK long \in Nat : long = Len(padded)
        OBVIOUS
    <2> HIDE DEF before, front, after, spliced, reach
    <2>1. k \in Nat /\ k > 0 /\ (k <= reach \/ k <= long)
        BY <1>1 DEF Longer
    <2>2. CASE k <= offset
        <3>1. k \in 1..offset /\ k \in 1..reach /\ ~(offset < k)
            BY <1>1, <2>1, <2>2
        <3> QED BY <1>2, <1>4, <1>7, <3>1
    <2>3. CASE offset < k /\ k <= reach
        <3>1. k \in 1..reach
            BY <1>1, <2>1, <2>3
        <3> QED BY <1>4, <1>7, <2>3, <3>1
    <2>4. CASE reach < k
        <3>1. k \in 1..long /\ ~(k <= reach)
            BY <1>1, <2>1, <2>4
        <3> QED BY <1>5, <1>7, <2>4, <3>1
    <2> QED BY <1>1, <2>1, <2>2, <2>3, <2>4
<1>9. Splice(padded, offset, data) = spliced
    BY DEF Splice
<1> HIDE DEF spliced
<1> QED BY <1>6, <1>7, <1>8, <1>9 DEF IsSplice

\* What the abstract write makes of the bytes.
LEMMA OverlayBytes ==
    ASSUME NEW T, NEW bytes \in Seq(T), 0 \in T, NEW offset \in Nat, NEW data \in Seq(T)
    PROVE  /\ VisibleFiles!Overlay(bytes, offset, data) \in Seq(T)
           /\ IsOverlay(VisibleFiles!Overlay(bytes, offset, data), bytes, offset, data)
<1> PICK padded : padded = PaddedTo(bytes, offset)
    OBVIOUS
<1> PICK reach \in Nat : reach = Reach(offset, data) /\ offset <= reach
    BY DEF Reach
<1> PICK end \in Nat : end = Len(bytes)
    OBVIOUS
<1> PICK overlay : overlay = VisibleFiles!Overlay(bytes, offset, data)
    OBVIOUS
<1>1. /\ padded \in Seq(T) /\ Len(padded) = Longer(offset, end)
      /\ \A k \in 1..Longer(offset, end) : padded[k] = IF k <= end THEN bytes[k] ELSE 0
    BY PaddedBytes
<1>2. overlay = Splice(padded, offset, data)
    BY DEF VisibleFiles!Overlay, VisibleFiles!ZeroByte, PaddedTo, Splice, Reach
<1>3. offset <= Len(padded) /\ Longer(reach, Len(padded)) = Longer(reach, end)
    BY <1>1 DEF Longer
<1>4. /\ overlay \in Seq(T) /\ Len(overlay) = Longer(reach, end)
      /\ \A k \in 1..Longer(reach, end) :
            overlay[k] = IF offset < k /\ k <= reach THEN data[k - offset] ELSE padded[k]
    <2>1. padded \in Seq(T) /\ offset <= Len(padded)
        BY <1>1, <1>3
    <2>2. overlay \in Seq(T) /\ IsSplice(overlay, padded, offset, data)
        BY <1>2, <2>1, Spliced
    <2> QED BY <1>3, <2>2 DEF IsSplice
<1>5. ASSUME NEW k \in 1..Longer(reach, end), ~(offset < k /\ k <= reach)
      PROVE  k \in 1..Longer(offset, end)
    BY <1>5 DEF Longer
<1> QED BY <1>1, <1>4, <1>5 DEF IsOverlay

\* The two agree: the bytes of a rewritten picture are the data over the bytes.
LEMMA WriteIsOverlay ==
    ASSUME NEW picture, NEW end \in Nat, DOMAIN picture = 0..(end - 1),
           NEW offset \in Nat, NEW data \in Seq(Nat), data # << >>
    PROVE  BytesOf(Rewritten(picture, end, offset, data)) =
               VisibleFiles!Overlay(BytesOf(picture), offset, data)
<1> DEFINE T == Nat \cup {picture[at] : at \in 0..(end - 1)}
           bytes == BytesOf(picture)
           after == Rewritten(picture, end, offset, data)
           overlay == VisibleFiles!Overlay(bytes, offset, data)
<1>1. bytes = [k \in 1..end |-> picture[k - 1]]
    BY BytesOfInterval DEF Bytes
<1>2. \A k \in 1..end : k - 1 \in 0..(end - 1)
    OBVIOUS
<1>3. bytes \in Seq(T) /\ Len(bytes) = end /\ \A k \in 1..end : bytes[k] = picture[k - 1]
    <2>1. \A k \in 1..end : picture[k - 1] \in T
        BY <1>2
    <2> HIDE DEF bytes, T
    <2> QED BY <1>1, <2>1
<1>4. 0 \in T /\ data \in Seq(T)
    OBVIOUS
<1> PICK n \in Nat : n = Len(data)
    OBVIOUS
<1> PICK reach \in Nat : reach = offset + n
    OBVIOUS
<1> PICK above \in Nat : above = IF reach > end THEN reach ELSE end
    OBVIOUS
<1> HIDE DEF T, bytes
<1>5. /\ overlay \in Seq(T) /\ Len(overlay) = above
      /\ \A k \in 1..above :
            overlay[k] = IF offset < k /\ k <= reach THEN data[k - offset]
                         ELSE IF k <= end THEN bytes[k] ELSE 0
    <2>1. bytes \in Seq(T) /\ end = Len(bytes) /\ 0 \in T /\ data \in Seq(T)
        BY <1>3, <1>4
    <2>2. overlay \in Seq(T) /\ IsOverlay(overlay, bytes, offset, data)
        BY <2>1, OverlayBytes
    <2>3. Longer(Reach(offset, data), Len(bytes)) = above /\ Reach(offset, data) = reach
        BY <2>1 DEF Longer, Reach
    <2> HIDE DEF overlay
    <2> QED BY <2>1, <2>2, <2>3 DEF IsOverlay
<1>6. DOMAIN after = 0..(above - 1)
    BY LaidDomain
<1>7. BytesOf(after) = [k \in 1..above |-> after[k - 1]]
    BY <1>6, BytesOfInterval DEF Bytes
<1>8. ASSUME NEW k \in 1..above PROVE after[k - 1] = overlay[k]
    <2> PICK at \in Nat : at = k - 1
        OBVIOUS
    <2>1. at \in DOMAIN after
        BY <1>6
    <2>2. after[at] = IF offset <= at /\ at < reach THEN data[at - offset + 1]
                      ELSE IF end <= at THEN ZeroByte ELSE picture[at]
        BY <2>1, ByteOfRewritten
    <2>3. overlay[k] = IF offset < k /\ k <= reach THEN data[k - offset]
                       ELSE IF k <= end THEN bytes[k] ELSE 0
        BY <1>5
    <2>4. k <= end => bytes[k] = picture[at]
        BY <1>3
    <2>5. /\ offset < k <=> offset <= at
          /\ k <= reach <=> at < reach
          /\ k <= end <=> ~(end <= at)
          /\ at - offset + 1 = k - offset
        OBVIOUS
    <2> HIDE DEF after, overlay
    <2> QED BY <2>2, <2>3, <2>4, <2>5 DEF ZeroByte
<1>9. overlay = [k \in 1..above |-> overlay[k]]
    <2> HIDE DEF overlay
    <2> QED BY <1>5
<1> HIDE DEF after, overlay
<1>10. BytesOf(after) = overlay
    BY <1>7, <1>8, <1>9
<1> QED BY <1>10 DEF after, overlay, bytes

----------------------------------------------------------------------------
(* What the steps do to the abstract state                                 *)

\* The three variables of VersionedFile, as LayerStore has them.
Content == [f \in Files |-> ReadWhole(f, 0).data]
Saved == [i \in DOMAIN layers |->
             [file |-> layers[i].file, tag |-> layers[i].tag,
              content |-> ReadWhole(layers[i].file, i).data]]
HeadTags == [f \in Files |->
            IF heads[f] = NoVersion THEN NoTag ELSE layers[VersionedLayer(f)].tag]

\* The versions that are saved stay as they are.
LEMMA SavedKept ==
    ASSUME CatalogInv, CatalogInv', Kept
    PROVE  \A i \in DOMAIN layers : i \in DOMAIN layers' /\ Saved'[i] = Saved[i]
<1> TAKE i \in DOMAIN layers
<1>1. /\ Len(layers) <= Len(layers') /\ DOMAIN layers = 1..Len(layers)
      /\ DOMAIN layers' = 1..Len(layers') /\ Len(layers) \in Nat /\ Len(layers') \in Nat
    BY DEF Kept, CatalogInv, TypeOK
<1>2. i \in DOMAIN layers' /\ layers'[i] = layers[i]
    BY <1>1 DEF Kept
<1>3. PICK f \in Files : f = layers[i].file
    BY LayerFields DEF CatalogInv
<1>4. ReadWhole(f, i)' = ReadWhole(f, i)
    BY ReadWholeKept
<1>5. Saved[i] = [file |-> f, tag |-> layers[i].tag, content |-> ReadWhole(f, i).data]
    BY <1>3 DEF Saved
<1>6. Saved'[i] = [file |-> f, tag |-> layers[i].tag, content |-> ReadWhole(f, i)'.data]
    <2>1. Saved'[i] = [file |-> layers'[i].file, tag |-> layers'[i].tag,
                       content |-> ReadWhole(layers[i].file, i)'.data]
        BY <1>2 DEF Saved, ReadWhole, ReadLayers
    <2>2. ReadWhole(layers[i].file, i)' = ReadWhole(f, i)'
        BY <1>2, <1>3 DEF ReadWhole, ReadLayers
    <2> QED BY <1>2, <1>3, <2>1, <2>2
<1> QED BY <1>2, <1>4, <1>5, <1>6

LEMMA SavedSame ==
    ASSUME CatalogInv, CatalogInv', Kept, UNCHANGED layers
    PROVE  Saved' = Saved
<1>1. \A i \in DOMAIN layers : Saved'[i] = Saved[i]
    BY SavedKept
<1>2. Saved = [i \in DOMAIN layers |-> Saved[i]]
    BY DEF Saved
<1>3. Saved' = [i \in DOMAIN layers |-> Saved'[i]]
    BY DEF Saved
<1> QED BY <1>1, <1>2, <1>3

\* The layer with a version is the one that a head on this version leads to.
HeadsLead ==
    \A f \in Files : \A i \in LayerIdsOf(f) :
        layers[i].version = heads[f] => VersionedLayer(f) = i /\ HeadTags[f] = layers[i].tag

LEMMA HeadsLeadTo == CatalogInv => HeadsLead
<1> SUFFICES ASSUME CatalogInv, NEW f \in Files, NEW i \in LayerIdsOf(f),
                    layers[i].version = heads[f]
             PROVE  VersionedLayer(f) = i /\ HeadTags[f] = layers[i].tag
    BY DEF HeadsLead
<1>1. i \in DOMAIN layers /\ DOMAIN layers \subseteq Nat /\ TypeOK
    BY DEF LayerIdsOf, CatalogInv, TypeOK
<1>2. layers[i].version \in VersionIds /\ layers[i].version \in Nat
    BY <1>1, LayerFields
<1>3. heads[f] # NoVersion
    BY <1>2, BoundsAssumption DEF VersionIds, NoVersion
<1>4. PICK j \in LayerIdsOf(f) : j = VersionedLayer(f) /\ layers[j].version = heads[f]
    BY <1>3, HeadsOwnLayers DEF HeadNamesOwnLayer
<1>5. i = j
    <2>1. \A a, b \in DOMAIN layers : a < b => layers[a].version < layers[b].version
        BY DEF CatalogInv
    <2>2. j \in DOMAIN layers /\ layers[j].version = layers[i].version
        BY <1>4 DEF LayerIdsOf
    <2> QED BY <1>1, <1>2, <2>1, <2>2
<1> QED BY <1>3, <1>4, <1>5 DEF HeadTags

\* A head that does not move shows the same version.
LEMMA HeadSame ==
    ASSUME CatalogInv, CatalogInv', Kept, NEW f \in Files, heads'[f] = heads[f]
    PROVE  HeadTags'[f] = HeadTags[f]
<1>1. CASE heads[f] = NoVersion
    BY <1>1 DEF HeadTags
<1>2. CASE heads[f] # NoVersion
    <2>1. PICK i \in LayerIdsOf(f) : layers[i].version = heads[f]
        BY <1>2 DEF CatalogInv
    <2>2. i \in LayerIdsOf(f)' /\ layers'[i] = layers[i]
        BY SavedKept DEF LayerIdsOf, Kept
    <2>3. HeadsLead /\ HeadsLead'
        BY HeadsLeadTo, PTL
    <2>4. HeadTags[f] = layers[i].tag
        BY <2>1, <2>3 DEF HeadsLead
    <2>5. HeadTags'[f] = layers'[i].tag
        BY <2>1, <2>2, <2>3 DEF HeadsLead
    <2> QED BY <2>2, <2>4, <2>5
<1> QED BY <1>1, <1>2

LEMMA HeadsSame ==
    ASSUME CatalogInv, CatalogInv', Kept, UNCHANGED heads
    PROVE  HeadTags' = HeadTags
<1>1. \A f \in Files : HeadTags'[f] = HeadTags[f]
    BY HeadSame
<1>2. HeadTags = [f \in Files |-> HeadTags[f]] /\ HeadTags' = [f \in Files |-> HeadTags'[f]]
    BY DEF HeadTags
<1> QED BY <1>1, <1>2

\* A file whose picture stays reads the same.
LEMMA ContentIs ==
    ASSUME MarksApart, ReadInv, ReadInv', NEW f \in Files
    PROVE  /\ Content[f] = BytesOf(Picture(f, Now(f)))
           /\ Content'[f] = BytesOf(Picture(f, Now(f))')
<1>1. ReadsArePictures /\ ReadsArePictures'
    BY ReadsAre, PTL
<1> QED BY <1>1 DEF ReadsArePictures, Content

LEMMA ContentsSame ==
    ASSUME MarksApart, ReadInv, ReadInv',
           \A f \in Files : Picture(f, Now(f))' = Picture(f, Now(f))
    PROVE  Content' = Content
<1>1. \A f \in Files : Content'[f] = Content[f]
    BY ContentIs
<1>2. Content = [f \in Files |-> Content[f]] /\ Content' = [f \in Files |-> Content'[f]]
    BY DEF Content
<1> QED BY <1>1, <1>2

\* Nor does anything read differently while the layers stay.
LEMMA QuietContents ==
    ASSUME MarksApart, ReadInv, ReadInv', Kept, UNCHANGED <<layers, memtable>>
    PROVE  Content' = Content
<1>1. ASSUME NEW f \in Files PROVE Picture(f, Now(f))' = Picture(f, Now(f))
    <2>1. ActivePicture(f)' = ActivePicture(f)
        BY DEF ActivePicture
    <2>2. Picture(f, Now(f)) = Over(ActivePicture(f), Picture(f, LayerIdsOf(f)))
        BY NowIs DEF NowStacked, ReadInv
    <2>3. Picture(f, Now(f))' = Over(ActivePicture(f)', Picture(f, LayerIdsOf(f)))
        BY QuietPictures DEF ReadInv
    <2> QED BY <2>1, <2>2, <2>3
<1> QED BY <1>1, ContentsSame

----------------------------------------------------------------------------
(* Every step is a step of VersionedFile                                   *)

\* Nothing that can be read changes.
LEMMA Stutters ==
    ASSUME MarksApart, ReadInv, ReadInv', Kept, UNCHANGED <<layers, memtable, heads>>
    PROVE  UNCHANGED VisibleFiles!vars
<1>1. Content' = Content /\ Saved' = Saved /\ HeadTags' = HeadTags
    BY QuietContents, SavedSame, HeadsSame DEF ReadInv
<1> QED BY <1>1 DEF VisibleFiles!vars, Content, Saved, HeadTags

LEMMA DeletesHead ==
    ASSUME MarksApart, ReadInv, ReadInv', Kept, NEW f \in Files, DeleteHead(f)
    PROVE  VisibleFiles!DeleteHead(f)
<1>1. Content' = Content /\ Saved' = Saved
    BY QuietContents, SavedSame DEF ReadInv, DeleteHead
<1>2. heads \in [Files -> VersionIds \cup {NoVersion}]
    BY DEF ReadInv, CatalogInv, TypeOK
<1>3. HeadTags'[f] = NoTag
    BY <1>2 DEF DeleteHead, HeadTags
<1>4. \A g \in Files : g # f => HeadTags'[g] = HeadTags[g]
    BY <1>2, HeadSame DEF DeleteHead, ReadInv
<1>5. HeadTags' = [HeadTags EXCEPT ![f] = NoTag]
    <2>1. HeadTags' = [g \in Files |-> HeadTags'[g]] /\ DOMAIN HeadTags = Files
        BY DEF HeadTags
    <2> QED BY <1>3, <1>4, <2>1
<1> QED BY <1>1, <1>5 DEF VisibleFiles!DeleteHead, Content, Saved, HeadTags

LEMMA SetsHead ==
    ASSUME MarksApart, ReadInv, ReadInv', Kept, NEW f \in Files, NEW tag \in Tags,
           SetHead(f, tag)
    PROVE  VisibleFiles!SetHead(f, tag)
<1>1. Content' = Content /\ Saved' = Saved
    BY QuietContents, SavedSame DEF ReadInv, SetHead
<1>2. heads \in [Files -> VersionIds \cup {NoVersion}]
    BY DEF ReadInv, CatalogInv, TypeOK
<1>3. PICK i \in LayerIdsOf(f) : i = LayerByTag(f, tag) /\ layers[i].tag = tag
    BY DEF SetHead, LayerByTag
<1>4. HeadTags'[f] = tag
    <2>1. i \in LayerIdsOf(f)' /\ layers'[i] = layers[i] /\ heads'[f] = layers'[i].version
        BY <1>2, <1>3 DEF SetHead, LayerIdsOf
    <2>2. HeadsLead'
        BY HeadsLeadTo, PTL DEF ReadInv
    <2> QED BY <1>3, <2>1, <2>2 DEF HeadsLead
<1>5. \A g \in Files : g # f => HeadTags'[g] = HeadTags[g]
    BY <1>2, HeadSame DEF SetHead, ReadInv
<1>6. HeadTags' = [HeadTags EXCEPT ![f] = tag]
    <2>1. HeadTags' = [g \in Files |-> HeadTags'[g]] /\ DOMAIN HeadTags = Files
        BY DEF HeadTags
    <2> QED BY <1>4, <1>5, <2>1
<1>7. tag \in VisibleFiles!TagsOf(f)
    BY <1>3 DEF VisibleFiles!TagsOf, VisibleFiles!VersionsOf, LayerIdsOf
<1> QED BY <1>1, <1>6, <1>7 DEF VisibleFiles!SetHead, Content, Saved, HeadTags

LEMMA Writes ==
    ASSUME Dense, MarksApart, ReadInv, ReadInv', Kept,
           NEW f \in Files, NEW offset \in Offsets, NEW data \in Payloads[offset],
           WriteFile(f, offset, data)
    PROVE  VisibleFiles!Write(f, offset, data)
<1>1. Saved' = Saved /\ HeadTags' = HeadTags
    BY SavedSame, HeadsSame DEF ReadInv, WriteFile
<1>2. HeadTags[f] = NoTag
    BY DEF WriteFile, HeadTags
<1>3. PICK end \in Nat : DOMAIN Picture(f, Now(f)) = 0..(end - 1)
    BY NowEnds, BoundsAssumption
<1>4. PICK picture : picture = Picture(f, Now(f)) /\ DOMAIN picture = 0..(end - 1)
    BY <1>3
<1>5. Picture(f, Now(f))' = Rewritten(picture, end, offset, data)
    BY <1>3, <1>4, WritePictures DEF ReadInv
<1>6. Content'[f] = VisibleFiles!Overlay(Content[f], offset, data)
    <2>1. offset \in Nat /\ data \in Seq(Nat) /\ data # << >>
        BY OffsetsAssumption, PayloadsAssumption
    <2>2. BytesOf(Rewritten(picture, end, offset, data)) =
              VisibleFiles!Overlay(BytesOf(picture), offset, data)
        BY <1>4, <2>1, WriteIsOverlay
    <2>3. Content[f] = BytesOf(picture)
        BY <1>4, ContentIs
    <2>4. Content'[f] = BytesOf(Rewritten(picture, end, offset, data))
        BY <1>5, ContentIs DEF BytesOf
    <2> QED BY <2>2, <2>3, <2>4
<1>7. ASSUME NEW g \in Files, g # f PROVE Content'[g] = Content[g]
    <2>1. ActivePicture(g)' = ActivePicture(g)
        BY <1>7 DEF ActivePicture, WriteFile, ReadInv, CatalogInv, TypeOK
    <2>2. Picture(g, Now(g)) = Over(ActivePicture(g), Picture(g, LayerIdsOf(g)))
        BY NowIs DEF NowStacked, ReadInv
    <2>3. Picture(g, Now(g))' = Over(ActivePicture(g)', Picture(g, LayerIdsOf(g)))
        BY QuietPictures DEF ReadInv, WriteFile
    <2>4. Picture(g, Now(g))' = Picture(g, Now(g))
        BY <2>1, <2>2, <2>3
    <2>5. Content[g] = BytesOf(Picture(g, Now(g))) /\ Content'[g] = BytesOf(Picture(g, Now(g))')
        BY ContentIs
    <2> QED BY <2>4, <2>5
<1>8. Content' = [Content EXCEPT ![f] = VisibleFiles!Overlay(Content[f], offset, data)]
    <2>1. Content' = [g \in Files |-> Content'[g]] /\ DOMAIN Content = Files
        BY DEF Content
    <2> QED BY <1>6, <1>7, <2>1
<1> QED BY <1>1, <1>2, <1>8 DEF VisibleFiles!Write, Content, Saved, HeadTags

\* A checkpoint that commits saves the latest content; whether its client hears
\* of it makes no difference to what can be read.
LEMMA Commits ==
    ASSUME MarksApart, ReadInv, ReadInv', Kept, NEW f \in Files, NEW tag \in Tags,
           CommitLayer(f, tag), UNCHANGED heads,
           memtable' = memtable \/ memtable' = [memtable EXCEPT ![f] = EmptyLayer]
    PROVE  VisibleFiles!Checkpoint(f, tag)
<1> USE DEF ReadInv
<1>1. Content' = Content
    BY CommitPictures, ContentsSame
<1>2. HeadTags' = HeadTags /\ HeadTags[f] = NoTag
    BY HeadsSame DEF CommitLayer, CanCheckpoint, HeadTags
<1>3. tag \notin VisibleFiles!TagsOf(f)
    BY DEF VisibleFiles!TagsOf, VisibleFiles!VersionsOf, LayerIdsOf, CommitLayer, CanCheckpoint
<1>4. /\ layers \in Seq(Layer) /\ Len(layers) \in Nat /\ DOMAIN layers = 1..Len(layers)
      /\ DOMAIN layers' = 1..Len(layers')
      /\ Len(layers') = Len(layers) + 1
    BY CommitPictures DEF CatalogInv, TypeOK
<1> PICK n \in Nat : n = Len(layers) + 1
    BY <1>4
<1>5. layers'[n].file = f /\ layers'[n].tag = tag /\ n \in DOMAIN layers' /\ n \in LayerIdsOf(f)'
    <2>1. layers'[n].file = f /\ layers'[n].tag = tag
        BY <1>4 DEF CommitLayer
    <2> QED BY <1>4, <2>1 DEF LayerIdsOf
<1>6. ReadWhole(f, n)'.data = Content[f]
    <2>1. UpTo(f, n)' = LayerIdsOf(f)'
        BY <1>4, CommittedPictures DEF UpTo
    <2>2. Picture(f, UpTo(f, n))' = Picture(f, LayerIdsOf(f))'
        BY <2>1 DEF Picture
    <2>3. Picture(f, LayerIdsOf(f))' = Picture(f, Now(f))
        BY CommitPictures
    <2>4. ReadsArePictures'
        BY ReadsAre, PTL
    <2>5. ReadWhole(f, n)'.data = BytesOf(Picture(f, UpTo(f, n)))'
        BY <1>5, <2>4 DEF ReadsArePictures, ReadWhole, ReadLayers
    <2>6. BytesOf(Picture(f, UpTo(f, n)))' = BytesOf(Picture(f, Now(f)))
        BY <2>2, <2>3 DEF BytesOf
    <2>7. Content[f] = BytesOf(Picture(f, Now(f)))
        BY ContentIs
    <2> QED BY <2>5, <2>6, <2>7
<1>7. Saved'[n] = [file |-> f, tag |-> tag, content |-> Content[f]]
    <2>1. Saved'[n] = [file |-> layers'[n].file, tag |-> layers'[n].tag,
                       content |-> ReadWhole(f, n)'.data]
        BY <1>5 DEF Saved, ReadWhole, ReadLayers
    <2> QED BY <1>5, <1>6, <2>1
<1>8. Saved' = Append(Saved, [file |-> f, tag |-> tag, content |-> Content[f]])
    <2>1. \A i \in 1..(n - 1) : Saved'[i] = Saved[i]
        BY <1>4, SavedKept
    <2>2. Saved = [i \in 1..(n - 1) |-> Saved[i]] /\ Saved' = [i \in 1..n |-> Saved'[i]]
        BY <1>4 DEF Saved
    <2> QED BY <1>7, <2>1, <2>2
<1> QED BY <1>1, <1>2, <1>3, <1>8 DEF VisibleFiles!Checkpoint, Content, Saved, HeadTags

\* A restart shows the newest version again.
LEMMA Restarts ==
    ASSUME MarksApart, ReadInv, ReadInv', Kept, Restart
    PROVE  VisibleFiles!Restart
<1> USE DEF ReadInv
<1>1. Saved' = Saved /\ HeadTags' = HeadTags
    BY SavedSame, HeadsSame DEF Restart
<1>2. /\ layers \in Seq(Layer) /\ Len(layers) \in Nat /\ DOMAIN layers = 1..Len(layers)
    BY DEF CatalogInv, TypeOK
<1>3. ASSUME NEW f \in Files
      PROVE  Content'[f] = BytesOf(Picture(f, LayerIdsOf(f)))
    <2>1. DOMAIN ActivePicture(f)' = {}
        BY DEF Restart, ActivePicture, LayerPicture, EmptyLayer
    <2>2. Picture(f, Now(f))' = Over(ActivePicture(f)', Picture(f, LayerIdsOf(f)))
        BY QuietPictures DEF Restart
    <2>3. PICK committed : committed = Picture(f, LayerIdsOf(f))
        OBVIOUS
    <2>4. committed = [at \in DOMAIN committed |-> committed[at]]
        BY <2>3, PictureIsFunction
    <2>5. Over(ActivePicture(f)', committed) = committed
        BY <2>1, <2>4, OverFacts
    <2>6. Content'[f] = BytesOf(Picture(f, Now(f))')
        BY ContentIs
    <2> QED BY <2>2, <2>3, <2>5, <2>6
<1>4. ASSUME NEW f \in Files, LayerIdsOf(f) = {}
      PROVE  Content'[f] = << >>
    <2>1. PICK picture : picture = Picture(f, LayerIdsOf(f))
        OBVIOUS
    <2>2. ChunkIds(f, LayerIdsOf(f)) = {}
        BY <1>4 DEF ChunkIds
    <2>3. DOMAIN picture = {}
        BY <2>1, <2>2, PictureDomain
    <2>4. BytesOf(picture) = << >>
        BY <2>3, EmptyPictureBytes
    <2>5. Content'[f] = BytesOf(picture)
        BY <1>3, <2>1
    <2> QED BY <2>4, <2>5
<1>5. ASSUME NEW f \in Files, LayerIdsOf(f) # {}
      PROVE  Content'[f] = Saved[VisibleFiles!Max(LayerIdsOf(f))].content
    <2>1. LayerIdsOf(f) \subseteq Nat /\ \A i \in LayerIdsOf(f) : i <= Len(layers)
        BY <1>2 DEF LayerIdsOf
    <2>2. \E m \in LayerIdsOf(f) : \A i \in LayerIdsOf(f) : i <= m
        BY <1>2, <1>5, <2>1, NatHasMax
    <2>3. PICK m \in LayerIdsOf(f) :
              m = VisibleFiles!Max(LayerIdsOf(f)) /\ \A i \in LayerIdsOf(f) : m >= i
        BY <2>1, <2>2 DEF VisibleFiles!Max
    <2>4. UpTo(f, m) = LayerIdsOf(f)
        BY <2>1, <2>3 DEF UpTo
    <2>5. ReadWhole(f, m).data = BytesOf(Picture(f, LayerIdsOf(f)))
        BY <2>4, ReadsAre DEF ReadsArePictures
    <2>6. Saved[m].content = ReadWhole(f, m).data
        BY DEF Saved, LayerIdsOf
    <2> QED BY <1>3, <2>3, <2>5, <2>6
<1>6. Content' = [f \in Files |-> IF LayerIdsOf(f) = {} THEN << >>
                                  ELSE Saved[VisibleFiles!Max(LayerIdsOf(f))].content]
    <2>1. Content' = [f \in Files |-> Content'[f]]
        BY DEF Content
    <2> QED BY <1>4, <1>5, <2>1
<1>7. \A f \in Files : VisibleFiles!VersionsOf(f) = LayerIdsOf(f)
    BY DEF VisibleFiles!VersionsOf, LayerIdsOf
<1> QED BY <1>1, <1>6, <1>7 DEF VisibleFiles!Restart, Content, Saved, HeadTags

LEMMA Begins ==
    ASSUME MarksApart, ReadInv, Init
    PROVE  VisibleFiles!Init
<1>1. ASSUME NEW f \in Files PROVE ReadWhole(f, 0).data = << >>
    <2>1. PICK picture : picture = Picture(f, Now(f))
        OBVIOUS
    <2>2. ChunkIds(f, Now(f)) = {}
        BY DEF Init, ChunkIds, Now, LayerIdsOf, ChunksOf, EmptyLayer
    <2>3. DOMAIN picture = {}
        BY <2>1, <2>2, PictureDomain
    <2>4. BytesOf(picture) = << >>
        BY <2>3, EmptyPictureBytes
    <2>5. ReadWhole(f, 0).data = BytesOf(picture)
        BY <2>1, ReadsAre DEF ReadsArePictures
    <2> QED BY <2>4, <2>5
<1>2. Content = [f \in Files |-> << >>]
    BY <1>1 DEF Content
<1>3. Saved = << >>
    BY DEF Saved, Init
<1>4. HeadTags = [f \in Files |-> NoTag]
    BY DEF HeadTags, Init
<1> QED BY <1>2, <1>3, <1>4 DEF VisibleFiles!Init, Content, Saved, HeadTags

LEMMA Implements ==
    ASSUME Dense, MarksApart
    PROVE  ReadInv /\ ReadInv' /\ [Next]_vars => [VisibleFiles!Next]_(VisibleFiles!vars)
<1> SUFFICES ASSUME ReadInv, ReadInv', [Next]_vars
             PROVE  [VisibleFiles!Next]_(VisibleFiles!vars)
    OBVIOUS
<1>1. Kept
    BY KeptStep DEF ReadInv
<1>2. ASSUME NEW f \in Files, InsertFile(f) PROVE UNCHANGED VisibleFiles!vars
    BY <1>1, <1>2, Stutters DEF InsertFile
<1>3. ASSUME NEW f \in Files, DeleteHead(f) PROVE VisibleFiles!Next
    BY <1>1, <1>3, DeletesHead DEF VisibleFiles!Next
<1>4. ASSUME NEW f \in Files, NEW offset \in Offsets, NEW data \in Payloads[offset],
             WriteFile(f, offset, data)
      PROVE  VisibleFiles!Next
    BY <1>1, <1>4, Writes DEF VisibleFiles!Next
<1>5. ASSUME NEW f \in Files, NEW tag \in Tags, Checkpoint(f, tag) PROVE VisibleFiles!Next
    BY <1>1, <1>5, Commits DEF Checkpoint, VisibleFiles!Next
<1>6. ASSUME NEW f \in Files, NEW tag \in Tags, CheckpointUnacknowledged(f, tag)
      PROVE  VisibleFiles!Next
    BY <1>1, <1>6, Commits DEF CheckpointUnacknowledged, VisibleFiles!Next
<1>7. ASSUME NEW f \in Files, NEW tag \in Tags, CheckpointFails(f, tag)
      PROVE  UNCHANGED VisibleFiles!vars
    BY <1>1, <1>7, Stutters DEF CheckpointFails
<1>8. ASSUME NEW f \in Files, NEW tag \in Tags, SetHead(f, tag) PROVE VisibleFiles!Next
    BY <1>1, <1>8, SetsHead DEF VisibleFiles!Next
<1>9. CASE Restart
    BY <1>1, <1>9, Restarts DEF VisibleFiles!Next
<1>10. CASE UNCHANGED vars
    BY <1>1, <1>10, Stutters DEF vars
<1>11. CASE Next
    BY <1>2, <1>3, <1>4, <1>5, <1>6, <1>7, <1>8, <1>9, <1>11 DEF Next
<1> QED BY <1>10, <1>11

\* Clients that leave no gaps and write no chunk of one byte see an array of bytes
\* per file that writes change in place, checkpoints save under tags, heads show as
\* of a tag and restarts take back to the newest version.
THEOREM VersionedFileImplemented ==
    ASSUME Dense, MarksApart PROVE Spec => ImplementsVersionedFile
<1>1. Init => ReadInv /\ VisibleFiles!Init
    BY InitRead, Begins
<1>2. ReadInv /\ [Next]_vars => ReadInv'
    BY ReadStep
<1>3. ReadInv /\ ReadInv' /\ [Next]_vars => [VisibleFiles!Next]_(VisibleFiles!vars)
    BY Implements
<1> QED BY <1>1, <1>2, <1>3, PTL DEF Spec, ImplementsVersionedFile, VisibleFiles!Spec
=============================================================================
