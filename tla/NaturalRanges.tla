--------------------------- MODULE NaturalRanges ---------------------------
(***************************************************************************)
(* Least and greatest elements of sets of numbers, and induction over a    *)
(* range of them. What holds by induction is given as the set of numbers   *)
(* it holds of, so that no lemma has an operator as a parameter.           *)
(***************************************************************************)
EXTENDS Integers, WellFoundedInduction, TLAPS

LEMMA LessThanIsWellFounded ==
  IsWellFoundedOn({ss \in Nat \X Nat : ss[1] < ss[2]}, Nat)
  BY NatLessThanWellFounded DEF OpToRel

\* A set of numbers that is not empty has a least one.
LEMMA LeastElement ==
  ASSUME NEW S \in SUBSET Nat, S # {}
  PROVE  \E m \in S : \A x \in S : m <= x
<1> DEFINE R == {ss \in Nat \X Nat : ss[1] < ss[2]}
<1>1. PICK m \in S : \A x \in S : <<x, m>> \notin R
  BY LessThanIsWellFounded, WFMin
<1>2. ASSUME NEW x \in S PROVE m <= x
  <2>1. x \in Nat /\ m \in Nat
    OBVIOUS
  <2>2. ~(x < m)
    BY <1>1, <2>1
  <2> QED BY <2>1, <2>2
<1> QED BY <1>2

\* A set with an upper bound has its greatest element.
LEMMA GreatestElement ==
  ASSUME NEW S \in SUBSET Nat, NEW k \in Nat, S # {}, \A x \in S : x <= k
  PROVE  \E m \in S : \A x \in S : x <= m
<1> DEFINE T == {k - x : x \in S}
           R == {ss \in Nat \X Nat : ss[1] < ss[2]}
<1>1. T \subseteq Nat /\ T # {}
  <2>1. \A x \in S : k - x \in Nat
    OBVIOUS
  <2> QED BY <2>1
<1>2. PICK t \in T : \A u \in T : <<u, t>> \notin R
  <2> HIDE DEF T
  <2> QED BY <1>1, LessThanIsWellFounded, WFMin
<1>3. \A u \in T : ~(u < t)
  BY <1>1, <1>2
<1>4. PICK m \in S : t = k - m
  BY <1>2
<1>5. ASSUME NEW x \in S PROVE x <= m
  <2>1. ~(k - x < k - m) /\ x \in Nat /\ m \in Nat
    BY <1>3, <1>4
  <2> QED BY <2>1
<1> QED BY <1>5

\* What holds of a, and of i + 1 if of i, holds from a to b.
LEMMA RangeInduction ==
  ASSUME NEW a \in Nat, NEW b \in Nat, NEW S, a \in S,
         \A i \in a .. b - 1 : i \in S => i + 1 \in S
  PROVE  \A i \in a .. b : i \in S
<1> DEFINE T == {i \in a .. b : i \notin S}
<1>1. SUFFICES ASSUME T # {} PROVE FALSE
  OBVIOUS
<1>2. T \in SUBSET Nat
  OBVIOUS
<1>3. PICK m \in T : \A x \in T : m <= x
  <2> HIDE DEF T
  <2> QED BY <1>1, <1>2, LeastElement
<1>4. m \in a .. b /\ m \notin S /\ m # a
  BY <1>3
<1>5. m - 1 \in a .. b - 1 /\ m - 1 \notin T
  BY <1>3, <1>4
<1>6. m - 1 \in S
  BY <1>5
<1> QED BY <1>4, <1>5, <1>6
=============================================================================
