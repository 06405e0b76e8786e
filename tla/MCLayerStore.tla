--------------------------- MODULE MCLayerStore ---------------------------
(***************************************************************************)
(* LayerStore for TLC.                                                     *)
(***************************************************************************)
EXTENDS LayerStore, TLC

CONSTANTS f1, f2, t1, t2

MCFiles == {f1, f2}
MCTags == {t1, t2}
MCOneFile == {f1}
MCPayloads == [offset \in Offsets |-> {<<1, 2, 3, 4>>}]
MCShortPayloads == [offset \in Offsets |-> {<<1>>, <<2, 3>>}]
MCOnePayload == [offset \in Offsets |-> {<<1, 2>>}]
MCOneThenTwo == [offset \in Offsets |-> IF offset = 0 THEN {<<1>>} ELSE {<<2, 3>>}]

Symmetry == Permutations(Files) \cup Permutations(Tags)
============================================================================
