---------------------------- MODULE NumberLemmas ----------------------------
(***************************************************************************)
(* Facts about natural numbers that the other proofs rest on: every set of *)
(* them has a least one, which gives induction over sets, and a step can   *)
(* be repeated, which is what a recursive function over 0 .. n means.      *)
(***************************************************************************)
EXTENDS Integers, FiniteSetTheorems, TLAPS

(* A finite set that has, with a number, all smaller ones is an interval:  *)
(* its cardinality leaves no choice.                                       *)
LEMMA InitialSegment ==
  ASSUME NEW n \in Nat, NEW D \in SUBSET (0 .. n), \A k \in D : 0 .. k \subseteq D
  PROVE  \E c \in Nat : D = 0 .. c - 1
<1>1. IsFiniteSet(0 .. n)
  BY FS_Interval
<1>2. IsFiniteSet(D) /\ Cardinality(D) \in Nat
  BY <1>1, FS_Subset, FS_CardinalityType
<1>3. PICK c \in Nat : c = Cardinality(D)
  BY <1>2
<1>4. ASSUME NEW k \in D PROVE k \in 0 .. c - 1
  <2>1. IsFiniteSet(0 .. k) /\ Cardinality(0 .. k) = k + 1
    BY FS_Interval
  <2>2. Cardinality(0 .. k) <= Cardinality(D)
    BY <1>2, FS_Subset
  <2>3. QED
    BY <1>3, <2>1, <2>2
<1>5. IsFiniteSet(0 .. c - 1) /\ Cardinality(0 .. c - 1) = c
  BY FS_Interval
<1>6. QED
  BY <1>3, <1>4, <1>5, FS_Subset

(* A set of natural numbers has a least element. *)
LEMMA LeastNumber ==
  ASSUME NEW T \in SUBSET Nat, T # {}
  PROVE  \E x \in T : \A y \in T : x <= y
<1>1. PICK n \in T : TRUE
  OBVIOUS
<1>2. PICK c \in Nat : {k \in 0 .. n : \A y \in T : k < y} = 0 .. c - 1
  <2>1. \A k \in {k \in 0 .. n : \A y \in T : k < y} :
           0 .. k \subseteq {j \in 0 .. n : \A y \in T : j < y}
    OBVIOUS
  <2>2. QED
    BY <2>1, InitialSegment
<1>3. \A k \in 0 .. n : (\A y \in T : k < y) <=> k < c
  BY <1>2
<1>4. c <= n
  BY <1>1, <1>3
<1>5. PICK t \in T : t <= c
  BY <1>3, <1>4
<1>6. \A y \in T : c <= y
  BY <1>3, <1>4
<1>7. QED
  BY <1>5, <1>6

(* Induction: a set that has 0 and, with a number, the next one. *)
LEMMA SetInduction ==
  ASSUME NEW S, 0 \in S, \A n \in Nat : n \in S => n + 1 \in S
  PROVE  \A n \in Nat : n \in S
<1> SUFFICES ASSUME NEW m \in Nat \ S PROVE FALSE
  OBVIOUS
<1>1. PICK x \in Nat \ S : \A y \in Nat \ S : x <= y
  BY LeastNumber
<1>2. x # 0 /\ x - 1 \in Nat /\ x - 1 \in S
  BY <1>1
<1>3. QED
  BY <1>1, <1>2

(* Induction up to a bound. *)
LEMMA BoundedInduction ==
  ASSUME NEW m \in Nat, NEW S, 0 \in S, \A n \in 0 .. m - 1 : n \in S => n + 1 \in S
  PROVE  \A n \in 0 .. m : n \in S
<1> DEFINE T == S \cup {n \in Nat : n > m}
<1>1. 0 \in T
  OBVIOUS
<1>2. \A n \in Nat : n \in T => n + 1 \in T
  OBVIOUS
<1> HIDE DEF T
<1>3. \A n \in Nat : n \in T
  BY <1>1, <1>2, SetInduction
<1>4. QED
  BY <1>3 DEF T

(* f holds the results of repeating a step up to m times, from a on. *)
Iterates(f, m, a, step) == f = [k \in 0 .. m |-> IF k = 0 THEN a ELSE step[f[k - 1]]]

(* A step on a set A can be repeated any number of times. *)
LEMMA IterationExists ==
  ASSUME NEW A, NEW a \in A, NEW step \in [A -> A], NEW m \in Nat
  PROVE  \E f \in [0 .. m -> A] : Iterates(f, m, a, step)
<1> DEFINE Runs(n) == \E f \in [0 .. n -> A] :
                         f = [k \in 0 .. n |-> IF k = 0 THEN a ELSE step[f[k - 1]]]
           S == {n \in Nat : Runs(n)}
<1>1. 0 \in S
  <2>1. [k \in 0 .. 0 |-> a] \in [0 .. 0 -> A]
    OBVIOUS
  <2>2. [k \in 0 .. 0 |-> a] =
          [k \in 0 .. 0 |-> IF k = 0 THEN a ELSE step[[j \in 0 .. 0 |-> a][k - 1]]]
    OBVIOUS
  <2>3. QED
    BY <2>1, <2>2
<1>2. ASSUME NEW n \in Nat, n \in S PROVE n + 1 \in S
  <2>1. PICK f \in [0 .. n -> A] :
               f = [k \in 0 .. n |-> IF k = 0 THEN a ELSE step[f[k - 1]]]
    BY <1>2
  <2>2. PICK g : g = [k \in 0 .. n + 1 |-> IF k = n + 1 THEN step[f[n]] ELSE f[k]]
    OBVIOUS
  <2>3. g \in [0 .. n + 1 -> A] /\ \A k \in 0 .. n : g[k] = f[k]
    BY <2>2
  <2>4. g[n + 1] = step[g[n]]
    BY <2>2, <2>3
  <2>5. \A k \in 0 .. n + 1 : g[k] = IF k = 0 THEN a ELSE step[g[k - 1]]
    <3> SUFFICES ASSUME NEW k \in 0 .. n + 1
                 PROVE  g[k] = IF k = 0 THEN a ELSE step[g[k - 1]]
      OBVIOUS
    <3>1. CASE k = n + 1
      BY <2>4, <3>1
    <3>2. CASE k # n + 1
      <4>1. k \in 0 .. n /\ f[k] = IF k = 0 THEN a ELSE step[f[k - 1]]
        BY <2>1, <3>2
      <4>2. k # 0 => g[k - 1] = f[k - 1]
        BY <2>3, <4>1
      <4>3. QED
        BY <2>3, <4>1, <4>2
    <3>3. QED
      BY <3>1, <3>2
  <2>6. g = [k \in 0 .. n + 1 |-> IF k = 0 THEN a ELSE step[g[k - 1]]]
    BY <2>3, <2>5
  <2>7. Runs(n + 1)
    BY <2>3, <2>6
  <2>8. n + 1 \in Nat
    OBVIOUS
  <2> HIDE DEF Runs
  <2>9. QED
    BY <2>7, <2>8
<1> HIDE DEF S
<1>3. m \in S
  BY <1>1, <1>2, SetInduction
<1>4. QED
  BY <1>3 DEF S, Iterates
=============================================================================
