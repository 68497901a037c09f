------------------------------ MODULE LeastElement ------------------------------
(* The natural numbers are well ordered: what replaces an induction in the     *)
(* proofs about what a search, a maximum or a path through a sequence finds.    *)
EXTENDS FiniteSetTheorems, TLAPS

\* A set of numbers that is not empty has a least one: of the intervals up to its
\* numbers, one does not contain another.
LEMMA Least ==
    ASSUME NEW S \in SUBSET Nat, S # {}
    PROVE  \E m \in S : \A k \in S : m <= k
<1> DEFINE T == {0 .. m : m \in S}
<1>1. T \subseteq FiniteSubsetsOf(Nat)
  <2>1. ASSUME NEW m \in S
        PROVE  0 .. m \in FiniteSubsetsOf(Nat)
    <3>1. m \in Int /\ 0 .. m \subseteq Nat
      OBVIOUS
    <3>2. IsFiniteSet(0 .. m)
      BY <3>1, FS_Interval
    <3> QED
      BY <3>1, <3>2 DEF FiniteSubsetsOf
  <2> QED
    BY <2>1
<1>2. T # {}
  OBVIOUS
<1>3. PICK x \in T : \A y \in T : ~ (<<y, x>> \in StrictSubsetOrdering(Nat))
  <2> HIDE DEF T
  <2> QED
    BY <1>1, <1>2, FS_StrictSubsetOrderingWellFounded, WFMin
<1>4. PICK m \in S : x = 0 .. m
  OBVIOUS
<1>5. ASSUME NEW k \in S, k < m
      PROVE  FALSE
  <2>1. /\ 0 .. k \in T
        /\ 0 .. k \subseteq 0 .. m /\ 0 .. k # 0 .. m
        /\ 0 .. m \subseteq Nat
    BY <1>5
  <2> QED
    BY <2>1, <1>3, <1>4 DEF StrictSubsetOrdering
<1> QED
  BY <1>5

\* A set of numbers up to n that is not empty has a greatest one: the least of its
\* upper bounds.
LEMMA Greatest ==
    ASSUME NEW n \in Nat, NEW S \in SUBSET (0 .. n), S # {}
    PROVE  \E m \in S : \A k \in S : k <= m
<1> DEFINE U == {u \in Nat : \A k \in S : k <= u}
<1>1. U \in SUBSET Nat /\ n \in U
  OBVIOUS
<1>2. PICK m \in U : \A u \in U : m <= u
  <2> HIDE DEF U
  <2> QED
    BY <1>1, Least
<1>3. m \in S
  <2> SUFFICES ASSUME m \notin S
               PROVE  FALSE
    OBVIOUS
  <2>1. \A k \in S : k \in Nat /\ k <= m /\ k # m
    BY <1>2
  <2>2. m \in Nat /\ m > 0
    <3>1. m \in Nat
      OBVIOUS
    <3>2. PICK k \in S : TRUE
      OBVIOUS
    <3> QED
      BY <3>1, <3>2, <2>1
  <2>3. m - 1 \in U
    BY <2>1, <2>2
  <2> QED
    <3>1. m <= m - 1
      <4> HIDE DEF U
      <4> QED
        BY <1>2, <2>3
    <3> QED
      BY <2>2, <3>1
<1> QED
  BY <1>3
=============================================================================
