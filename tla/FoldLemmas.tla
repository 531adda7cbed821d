----------------------------- MODULE FoldLemmas -----------------------------
(***************************************************************************)
(* Facts that the proofs about folds keep needing: least elements, and     *)
(* iteration over the subsets of a finite set, which is what the folds of  *)
(* Folds, FiniteSetsExt and SequencesExt are.                              *)
(*                                                                         *)
(* The library's induction theorems take operators, which the provers      *)
(* cannot instantiate; here what is shown by induction is a set, of the    *)
(* numbers or of the subsets it holds for.                                 *)
(***************************************************************************)
EXTENDS Integers, FiniteSets, FiniteSetsExt, FiniteSetTheorems, WellFoundedInduction, TLAPS

\* A nonempty set of natural numbers has a least element.
LEMMA LeastElement ==
    ASSUME NEW S, S \subseteq Nat, S # {}
    PROVE  \E m \in S : \A j \in S : m <= j
<1>1. IsWellFoundedOn(OpToRel(<, Nat), Nat)
  BY NatLessThanWellFounded
<1>2. PICK m \in S : \A j \in S : ~(<<j, m>> \in OpToRel(<, Nat))
  BY <1>1, WFMin
<1>3. ASSUME NEW j \in S  PROVE m <= j
  <2>1. <<j, m>> \in Nat \X Nat
    BY Zenon
  <2>2. ~(j < m)
    BY <1>2, <2>1, Zenon DEF OpToRel
  <2> QED
    BY <2>1, <2>2
<1> QED
  BY <1>3

\* So has a nonempty set of positions a greatest.
LEMMA MaxOfPositions ==
    ASSUME NEW n \in Nat, NEW s \in SUBSET (1..n), s # {}
    PROVE  Max(s) \in s /\ Max(s) \in 1..n /\ \A y \in s : Max(s) >= y
<1> DEFINE gaps == {n - y : y \in s}
<1>0. ASSUME NEW y \in s  PROVE y \in Nat /\ y <= n /\ n - y \in Nat
  <2>1. y \in 1..n
    OBVIOUS
  <2> QED
    BY <2>1
<1>1. gaps \subseteq Nat /\ gaps # {}
  <2>1. PICK y : y \in s
    OBVIOUS
  <2>2. n - y \in gaps
    BY <2>1
  <2>3. gaps \subseteq Nat
    BY <1>0
  <2> QED
    BY <2>2, <2>3
<1>2. PICK g \in gaps : \A h \in gaps : g <= h
  BY <1>1, LeastElement
<1>3. PICK x \in s : g = n - x
  BY <1>2
<1>4. ASSUME NEW y \in s  PROVE x >= y
  <2>1. n - y \in gaps
    OBVIOUS
  <2>2. n - x <= n - y
    BY <1>2, <1>3, <2>1
  <2> QED
    BY <1>0, <2>2
<1>5. \E z \in s : \A y \in s : z >= y
  BY <1>4
<1> QED
  BY <1>5, Zenon DEF Max

\* Induction over the natural numbers, for a set of them.
LEMMA CountingUp ==
    ASSUME NEW Good, 0 \in Good, \A n \in Nat : n \in Good => n + 1 \in Good
    PROVE  \A n \in Nat : n \in Good
<1> DEFINE Bad == Nat \ Good
<1>1. SUFFICES ASSUME Bad # {}  PROVE FALSE
  OBVIOUS
<1>2. PICK m \in Bad : \A j \in Bad : m <= j
  BY <1>1, LeastElement
<1>3. m # 0
  BY <1>2
<1>4. m - 1 \in Nat /\ m - 1 \notin Bad /\ (m - 1) + 1 = m
  BY <1>2, <1>3
<1> QED
  BY <1>2, <1>4

\* What holds for the empty set, and for a set if it holds without one of its
\* elements, holds for every subset of a finite set.
LEMMA SubsetsByPicking ==
    ASSUME NEW P, IsFiniteSet(P), NEW Good, {} \in Good,
           \A s \in SUBSET P : s # {} => \E x \in s : s \ {x} \in Good => s \in Good
    PROVE  \A s \in SUBSET P : s \in Good
<1> DEFINE Sized == {n \in Nat : \A s \in SUBSET P : Cardinality(s) = n => s \in Good}
<1>1. \A s \in SUBSET P : IsFiniteSet(s) /\ Cardinality(s) \in Nat
  BY FS_Subset, FS_CardinalityType
<1>2. 0 \in Sized
  BY <1>1, FS_EmptySet
<1>3. ASSUME NEW n \in Nat, n \in Sized  PROVE n + 1 \in Sized
  <2>1. SUFFICES ASSUME NEW s \in SUBSET P, Cardinality(s) = n + 1  PROVE s \in Good
    OBVIOUS
  <2>2. s # {}
    <3>1. Cardinality(s) # 0
      BY <2>1
    <3> QED
      BY <3>1, FS_EmptySet
  <2>3. PICK x \in s : s \ {x} \in Good => s \in Good
    BY <2>2
  <2>4. Cardinality(s \ {x}) = n
    <3>1. Cardinality(s \ {x}) = Cardinality(s) - 1
      BY <1>1, FS_RemoveElement
    <3> QED
      BY <2>1, <3>1
  <2> QED
    BY <1>3, <2>3, <2>4
<1> HIDE DEF Sized
<1>4. \A n \in Nat : n \in Sized
  BY <1>2, <1>3, CountingUp
<1> QED
  BY <1>1, <1>4 DEF Sized

------------------------------------------------------------------------------
(* Iteration over subsets: take one element out, and what is left first.    *)

Iterated(P, pick, base, step, it) ==
    it = [s \in SUBSET P |-> IF s = {} THEN base ELSE step[<<pick[s], it[s \ {pick[s]}]>>]]

\* Iteration has a result when the steps have: the folds' LET is well founded.
LEMMA IterationExists ==
    ASSUME NEW P, IsFiniteSet(P), NEW U, NEW base \in U, NEW step \in [P \X U -> U],
           NEW pick, \A s \in SUBSET P : s # {} => pick[s] \in s
    PROVE  \E it \in [SUBSET P -> U] : Iterated(P, pick, base, step, it)
<1> DEFINE Upto(n) == {s \in SUBSET P : Cardinality(s) <= n}
           Partly(n, it) ==
               /\ it \in [Upto(n) -> U]
               /\ \A s \in Upto(n) :
                      it[s] = IF s = {} THEN base ELSE step[<<pick[s], it[s \ {pick[s]}]>>]
           Reachable == {n \in Nat : \E it : Partly(n, it)}
<1>1. \A s \in SUBSET P : IsFiniteSet(s) /\ Cardinality(s) \in Nat
  BY FS_Subset, FS_CardinalityType
<1>2. \A s \in SUBSET P : s # {} =>
          /\ pick[s] \in P /\ s \ {pick[s]} \in SUBSET P
          /\ Cardinality(s \ {pick[s]}) = Cardinality(s) - 1
  BY <1>1, FS_RemoveElement
<1>3. 0 \in Reachable
  <2> DEFINE it == [s \in Upto(0) |-> base]
  <2>1. \A s \in Upto(0) : s = {}
    BY <1>1, FS_EmptySet
  <2>2. Partly(0, it)
    BY <2>1
  <2> QED
    BY <2>2
<1>4. ASSUME NEW n \in Nat, n \in Reachable  PROVE n + 1 \in Reachable
  <2>1. PICK it : Partly(n, it)
    BY <1>4
  <2> DEFINE jt == [s \in Upto(n + 1) |->
                       IF s = {} THEN base ELSE step[<<pick[s], it[s \ {pick[s]}]>>]]
  <2>2. \A s \in Upto(n + 1) : s # {} => s \ {pick[s]} \in Upto(n) /\ pick[s] \in P
    BY <1>1, <1>2
  <2>3. \A s \in Upto(n) : s \in Upto(n + 1)
    BY <1>1
  <2>4. \A s \in Upto(n) : it[s] \in U
    BY <2>1
  <2>5. ASSUME NEW s \in Upto(n + 1), s # {}
        PROVE  step[<<pick[s], it[s \ {pick[s]}]>>] \in U
    <3>1. <<pick[s], it[s \ {pick[s]}]>> \in P \X U
      BY <2>2, <2>4, <2>5
    <3> QED
      BY <3>1
  <2>6. jt \in [Upto(n + 1) -> U]
    BY <2>5
  <2>7. \A s \in Upto(n) : jt[s] = it[s]
    BY <2>1, <2>3
  <2>8. \A s \in Upto(n + 1) :
            jt[s] = IF s = {} THEN base ELSE step[<<pick[s], jt[s \ {pick[s]}]>>]
    BY <2>2, <2>7
  <2> HIDE DEF jt
  <2>9. Partly(n + 1, jt)
    BY <2>6, <2>8
  <2> HIDE DEF Partly
  <2> QED
    BY <2>9
<1> HIDE DEF Reachable
<1>5. \A n \in Nat : n \in Reachable
  BY <1>3, <1>4, CountingUp
<1>6. Cardinality(P) \in Nat /\ Upto(Cardinality(P)) = SUBSET P
  BY FS_Subset, FS_CardinalityType
<1>7. PICK it : Partly(Cardinality(P), it)
  BY <1>5, <1>6 DEF Reachable
<1>8. it = [s \in SUBSET P |-> it[s]]
  BY <1>6, <1>7
<1>9. \A s \in SUBSET P : it[s] = IF s = {} THEN base ELSE step[<<pick[s], it[s \ {pick[s]}]>>]
  BY <1>6, <1>7
<1>10. it \in [SUBSET P -> U]
  BY <1>6, <1>7
<1> HIDE DEF Partly
<1>11. Iterated(P, pick, base, step, it)
  BY <1>8, <1>9 DEF Iterated
<1> QED
  BY <1>10, <1>11

------------------------------------------------------------------------------
(* Folding a sequence of n elements: the last element is taken out, what is *)
(* before it is folded first.                                               *)

LEMMA LastOut ==
    ASSUME NEW n \in Nat, NEW i \in 1..n
    PROVE  /\ 1..i \in SUBSET (1..n) /\ 1..i # {} /\ Max(1..i) = i
           /\ (1..i) \ {i} = 1..(i - 1) /\ 1..(i - 1) \in SUBSET (1..n)
<1>1. 1..i \in SUBSET (1..n) /\ i \in 1..i /\ 1..(i - 1) \in SUBSET (1..n)
  OBVIOUS
<1>2. \A y : y \in (1..i) \ {i} <=> y \in 1..(i - 1)
  OBVIOUS
<1>3. Max(1..i) \in 1..i /\ \A y \in 1..i : Max(1..i) >= y
  BY <1>1, MaxOfPositions
<1>4. Max(1..i) = i
  BY <1>1, <1>3
<1> QED
  BY <1>1, <1>2, <1>4

\* What a fold's LET defines, and the same one element after the other.
FoldEquation(n, base, step, it) ==
    \A s \in SUBSET (1..n) :
        it[s] = IF s = {} THEN base ELSE step[<<Max(s), it[s \ {Max(s)}]>>]
FoldWithin(n, U, base, step, it) ==
    /\ it[{}] = base
    /\ \A s \in SUBSET (1..n) : s # {} /\ it[s \ {Max(s)}] \in U =>
           it[s] = step[<<Max(s), it[s \ {Max(s)}]>>]
StepByStep(n, base, step, run) ==
    /\ run[0] = base
    /\ \A i \in 1..n : run[i] = step[<<i, run[i - 1]>>]
FoldsTo(n, U, base, step, result) ==
    \E run \in [0..n -> U] : StepByStep(n, base, step, run) /\ result = run[n]

\* The fold's LET is well founded when each step stays in some set U.
LEMMA FoldExists ==
    ASSUME NEW n \in Nat, NEW U, NEW base \in U, NEW step \in [(1..n) \X U -> U]
    PROVE  \E it \in [SUBSET (1..n) -> U] : FoldEquation(n, base, step, it)
<1> DEFINE pick == [s \in SUBSET (1..n) |-> Max(s)]
<1>1. \A s \in SUBSET (1..n) : s # {} => pick[s] \in s
  BY MaxOfPositions
<1>2. \A s \in SUBSET (1..n) : pick[s] = Max(s)
  OBVIOUS
<1>3. IsFiniteSet(1..n)
  BY FS_Interval
<1> HIDE DEF pick
<1>4. PICK it \in [SUBSET (1..n) -> U] : Iterated(1..n, pick, base, step, it)
  BY <1>1, <1>3, IterationExists
<1>5. \A s \in SUBSET (1..n) :
          it[s] = IF s = {} THEN base ELSE step[<<pick[s], it[s \ {pick[s]}]>>]
  BY <1>4 DEF Iterated
<1> QED
  BY <1>2, <1>5 DEF FoldEquation

\* Whatever satisfies its equation is the run of the steps, one by one.
LEMMA FoldRuns ==
    ASSUME NEW n \in Nat, NEW U, NEW base \in U, NEW step \in [(1..n) \X U -> U], NEW it,
           FoldWithin(n, U, base, step, it)
    PROVE  FoldsTo(n, U, base, step, it[1..n])
<1>0. /\ it[{}] = base
      /\ \A s \in SUBSET (1..n) : s # {} /\ it[s \ {Max(s)}] \in U =>
             it[s] = step[<<Max(s), it[s \ {Max(s)}]>>]
  BY DEF FoldWithin
<1> DEFINE run == [i \in 0..n |-> it[1..i]]
           Good == {i \in Nat : i <= n => run[i] \in U
                                          /\ (i > 0 => run[i] = step[<<i, run[i - 1]>>])}
<1>1. run[0] = base /\ 0 \in Good
  <2>1. 1..0 = {} /\ 0 \in 0..n
    OBVIOUS
  <2> QED
    BY <1>0, <2>1
<1>2. ASSUME NEW i \in Nat, i \in Good  PROVE i + 1 \in Good
  <2>1. ASSUME i + 1 <= n
        PROVE  run[i + 1] \in U /\ run[i + 1] = step[<<i + 1, run[i]>>]
    <3>1. i \in 0..n /\ i + 1 \in 1..n /\ i + 1 \in 0..n /\ (i + 1) - 1 = i /\ run[i] \in U
      BY <1>2, <2>1
    <3>2. /\ 1..(i + 1) \in SUBSET (1..n) /\ 1..(i + 1) # {} /\ Max(1..(i + 1)) = i + 1
          /\ (1..(i + 1)) \ {i + 1} = 1..i
      BY <3>1, LastOut
    <3>3. it[1..(i + 1)] = step[<<i + 1, it[1..i]>>]
      BY <1>0, <3>1, <3>2
    <3>4. <<i + 1, it[1..i]>> \in (1..n) \X U
      BY <3>1
    <3>5. step[<<i + 1, it[1..i]>>] \in U
      BY <3>4
    <3> QED
      BY <3>1, <3>3, <3>5
  <2>2. (i + 1) - 1 = i /\ i + 1 \in Nat
    OBVIOUS
  <2> HIDE DEF run
  <2> QED
    BY <2>1, <2>2
<1> HIDE DEF Good
<1>3. \A i \in Nat : i \in Good
  BY <1>1, <1>2, CountingUp
<1>6. it[1..n] = run[n]
  OBVIOUS
<1> HIDE DEF run
<1>4. \A i \in 0..n : run[i] \in U /\ (i > 0 => run[i] = step[<<i, run[i - 1]>>])
  BY <1>3 DEF Good
<1>5. run \in [0..n -> U]
  BY <1>4 DEF run
<1>7. \A i \in 1..n : run[i] = step[<<i, run[i - 1]>>]
  BY <1>4
<1> QED
  BY <1>1, <1>5, <1>6, <1>7 DEF StepByStep, FoldsTo

=============================================================================
