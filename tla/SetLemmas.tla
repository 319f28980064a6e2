------------------------------ MODULE SetLemmas ------------------------------
(***************************************************************************)
(* Facts about sets of numbers that several proofs use: the least and the  *)
(* greatest element of a set exist, which is all the induction that the    *)
(* proofs about pages, chains of snapshots and cursors need.               *)
(***************************************************************************)
EXTENDS Naturals, Sequences, FiniteSets, FiniteSetTheorems, TLAPS

LEMMA SequenceOfMore ==
  ASSUME NEW S, NEW T, S \subseteq T, NEW s \in Seq(S)
  PROVE  s \in Seq(T)
  <1>1. s \in [1 .. Len(s) -> S] /\ Len(s) \in Nat
    OBVIOUS
  <1>2. s \in [1 .. Len(s) -> T]
    BY <1>1
  <1>3. QED
    BY <1>1, <1>2

LEMMA LeastExists ==
  ASSUME NEW S \in SUBSET Nat, S # {}
  PROVE  \E m \in S : \A n \in S : m <= n
  <1> DEFINE R == StrictSubsetOrdering(Nat)
             T == {1 .. n : n \in S}
  <1>1. T \subseteq FiniteSubsetsOf(Nat)
    BY FS_Interval DEF FiniteSubsetsOf
  <1>2. \E x \in T : \A y \in T : <<y, x>> \notin R
    <2>1. T # {}
      OBVIOUS
    <2> HIDE DEF T, R
    <2>2. IsWellFoundedOn(R, FiniteSubsetsOf(Nat))
      BY FS_StrictSubsetOrderingWellFounded DEF R
    <2>3. QED
      BY <1>1, <2>1, <2>2, WFMin
  <1>3. PICK m \in S : \A n \in S : <<1 .. n, 1 .. m>> \notin R
    BY <1>2
  <1>4. ASSUME NEW n \in S, ~ (m <= n)
        PROVE  FALSE
    <2>1. 1 .. n \subseteq 1 .. m /\ m \in 1 .. m /\ m \notin 1 .. n
      BY <1>4
    <2>2. <<1 .. n, 1 .. m>> \in R
      BY <2>1 DEF StrictSubsetOrdering
    <2>3. QED
      BY <2>2, <1>3
  <1>5. QED
    BY <1>4

LEMMA GreatestExists ==
  ASSUME NEW S \in SUBSET Nat, S # {}, IsFiniteSet(S)
  PROVE  \E m \in S : \A n \in S : n <= m
  <1> DEFINE R == StrictSubsetOrdering(S)
             above(m) == {n \in S : n > m}
             T == {above(m) : m \in S}
  <1>1. T \subseteq FiniteSubsetsOf(S)
    BY FS_Subset DEF FiniteSubsetsOf
  <1>2. \E x \in T : \A y \in T : <<y, x>> \notin R
    <2>1. T # {}
      OBVIOUS
    <2> HIDE DEF T, R
    <2>2. IsWellFoundedOn(R, FiniteSubsetsOf(S))
      BY FS_StrictSubsetOrderingWellFounded DEF R
    <2>3. QED
      BY <1>1, <2>1, <2>2, WFMin
  <1>3. PICK m \in S : \A n \in S : <<above(n), above(m)>> \notin R
    BY <1>2
  <1>4. ASSUME NEW n \in S, n > m
        PROVE  FALSE
    <2>1. m \in Nat /\ \A j \in S : j \in Nat
      OBVIOUS
    <2>2. above(n) \subseteq above(m) /\ n \in above(m) /\ n \notin above(n)
      <3>1. \A j \in S : j > n => j > m
        BY <1>4, <2>1
      <3>2. ~(n > n)
        BY <2>1
      <3>3. QED
        BY <1>4, <3>1, <3>2
    <2>3. <<above(n), above(m)>> \in R
      BY <2>2 DEF StrictSubsetOrdering
    <2>4. QED
      BY <2>3, <1>3
  <1>5. QED
    BY <1>4
=============================================================================
