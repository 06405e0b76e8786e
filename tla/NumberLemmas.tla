---------------------------- MODULE NumberLemmas ----------------------------
(***************************************************************************)
(* Least and greatest elements of sets of numbers, for the proofs.         *)
(***************************************************************************)
EXTENDS Naturals, WellFoundedInduction, TLAPS

\* A non-empty set of natural numbers has a least element.
LEMMA NatHasMin ==
    ASSUME NEW T, T \subseteq Nat, T # {}
    PROVE  \E x \in T : \A y \in T : x <= y
<1>1. \E x \in T : \A y \in T : ~(<<y, x>> \in OpToRel(<, Nat))
    BY NatLessThanWellFounded, WFMin
<1>2. \A x, y \in Nat : <<y, x>> \in OpToRel(<, Nat) <=> y < x
    BY DEF OpToRel
<1>3. PICK x \in T : \A y \in T : ~(y < x)
    BY <1>1, <1>2
<1>4. \A y \in T : x <= y
    BY <1>3
<1> QED BY <1>4

\* A bounded one has a greatest element.
LEMMA NatHasMax ==
    ASSUME NEW T, T \subseteq Nat, T # {}, NEW b \in Nat, \A y \in T : y <= b
    PROVE  \E x \in T : \A y \in T : y <= x
<1> DEFINE U == {n \in Nat : \A y \in T : y <= n}
<1>1. PICK u \in U : \A v \in U : u <= v
    <2>1. U \subseteq Nat /\ U # {}
        OBVIOUS
    <2> QED BY <2>1, NatHasMin
<1>2. PICK t \in T : TRUE
    OBVIOUS
<1>3. CASE u = 0
    <2>1. \A y \in T : y = 0
        BY <1>1, <1>3
    <2> QED BY <1>2, <2>1
<1>4. CASE u # 0
    <2>1. u - 1 \in Nat /\ u - 1 \notin U
        BY <1>1, <1>4
    <2>2. PICK y \in T : ~(y <= u - 1)
        BY <2>1
    <2>3. y = u
        BY <1>1, <2>2
    <2> QED BY <1>1, <2>2, <2>3
<1> QED BY <1>3, <1>4
=============================================================================
