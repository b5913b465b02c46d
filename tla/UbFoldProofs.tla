---------------------------- MODULE UbFoldProofs ----------------------------
(***************************************************************************)
(* Induction up to a bound, and that functions defined step by step on     *)
(* numbers or on sets of numbers exist: what the proofs about folds rest   *)
(* on.  NatLessThanWellFounded and WFMin of WellFoundedInduction take no   *)
(* operator, so they can be cited here.                                    *)
(***************************************************************************)
EXTENDS Integers, Sequences, SequencesExt, WellFoundedInduction,
        FiniteSetTheorems, TLAPS

(***************************************************************************)
(* Induction over the natural numbers, by their least elements: the form   *)
(* without an operator parameter, for the steps below a bound.             *)
(***************************************************************************)
LEMMA LeastOf ==
  ASSUME NEW T, T \subseteq Nat, T # {}
  PROVE  \E x \in T : \A y \in T : x <= y
<1> DEFINE R == OpToRel(<, Nat)
<1>1. IsWellFoundedOn(R, Nat)
  BY NatLessThanWellFounded
<1>2. PICK x \in T : \A y \in T : ~(<<y, x>> \in R)
  BY <1>1, WFMin
<1>3. \A y \in T : ~(y < x)
  BY <1>2 DEF OpToRel
<1> QED BY <1>3

LEMMA InductUpTo ==
  ASSUME NEW n \in Nat, NEW T, 0 \in T, \A k \in 0 .. n - 1 : k \in T => k + 1 \in T
  PROVE  0 .. n \subseteq T
<1> DEFINE U == {k \in 0 .. n : k \notin T}
<1>1. SUFFICES ASSUME U # {} PROVE FALSE
  OBVIOUS
<1>2. PICK x \in U : \A y \in U : x <= y
  <2>1. U \subseteq Nat
    OBVIOUS
  <2> QED BY <1>1, <2>1, LeastOf
<1>3. x \in 0 .. n /\ x # 0
  BY <1>2
<1>4. x - 1 \in 0 .. n - 1 /\ x - 1 \notin U
  BY <1>2, <1>3
<1>5. x \in T
  BY <1>3, <1>4
<1> QED BY <1>2, <1>5

(***************************************************************************)
(* The largest number of a set that is not empty.                          *)
(***************************************************************************)
LEMMA MaxIn ==
  ASSUME NEW n \in Nat, NEW t, t \subseteq 1 .. n, t # {}
  PROVE  Max(t) \in t /\ \A y \in t : Max(t) >= y
<1> DEFINE T == {n - y : y \in t}
<1>1. T \subseteq Nat /\ T # {}
  <2>1. \A y \in t : n - y \in Nat
    OBVIOUS
  <2> QED BY <2>1
<1>2. PICK x \in T : \A y \in T : x <= y
  BY <1>1, LeastOf
<1>3. PICK z \in t : x = n - z
  BY <1>2
<1>4. \A y \in t : z >= y
  <2> TAKE y \in t
  <2>1. n - z <= n - y
    BY <1>2, <1>3
  <2> QED BY <2>1
<1> QED BY <1>4 DEF Max

(***************************************************************************)
(* What FoldLeft of the community modules computes on the sets of indices, *)
(* step after step: there is such a function.                              *)
(***************************************************************************)
FoldsOver(g, n, base, step) ==
  \A t \in SUBSET (1 .. n) :
    g[t] = IF t = {} THEN base ELSE step[<<Max(t), g[t \ {Max(t)}]>>]

LEMMA FoldExists ==
  ASSUME NEW n \in Nat, NEW S, NEW base \in S, NEW step \in [(1 .. n) \X S -> S]
  PROVE  \E g \in [SUBSET (1 .. n) -> S] : FoldsOver(g, n, base, step)
<1> DEFINE T == {k \in 0 .. n : \E g \in [SUBSET (1 .. k) -> S] : FoldsOver(g, k, base, step)}
<1>1. 0 \in T
  <2> DEFINE g == [t \in SUBSET (1 .. 0) |-> base]
  <2>1. g \in [SUBSET (1 .. 0) -> S]
    OBVIOUS
  <2>2. FoldsOver(g, 0, base, step)
    BY DEF FoldsOver
  <2> QED BY <2>1, <2>2
<1>2. ASSUME NEW k \in 0 .. n - 1, k \in T PROVE k + 1 \in T
  <2>1. PICK g \in [SUBSET (1 .. k) -> S] : FoldsOver(g, k, base, step)
    BY <1>2
  <2> DEFINE h == [t \in SUBSET (1 .. k + 1) |->
                     IF k + 1 \in t THEN step[<<k + 1, g[t \ {k + 1}]>>] ELSE g[t]]
  <2>2. ASSUME NEW t \in SUBSET (1 .. k + 1)
        PROVE  /\ k + 1 \in t => t \ {k + 1} \in SUBSET (1 .. k)
               /\ k + 1 \notin t => t \in SUBSET (1 .. k)
    OBVIOUS
  <2>3. h \in [SUBSET (1 .. k + 1) -> S]
    <3>1. ASSUME NEW t \in SUBSET (1 .. k + 1) PROVE h[t] \in S
      <4>1. CASE k + 1 \in t
        <5>1. g[t \ {k + 1}] \in S /\ k + 1 \in 1 .. n
          BY <2>2, <4>1
        <5> QED BY <4>1, <5>1
      <4>2. CASE k + 1 \notin t
        BY <2>2, <4>2
      <4> QED BY <4>1, <4>2
    <3> QED BY <3>1
  <2>4. FoldsOver(h, k + 1, base, step)
    <3> SUFFICES ASSUME NEW t \in SUBSET (1 .. k + 1)
                 PROVE  h[t] = IF t = {} THEN base ELSE step[<<Max(t), h[t \ {Max(t)}]>>]
      BY DEF FoldsOver
    <3>1. CASE k + 1 \in t
      <4>1. k + 1 \in Nat /\ t \subseteq 1 .. (k + 1) /\ t # {}
        BY <3>1
      <4>2. Max(t) = k + 1
        <5>1. Max(t) \in t /\ \A y \in t : Max(t) >= y
          BY <4>1, MaxIn
        <5>2. Max(t) \in 1 .. k + 1
          BY <5>1
        <5>3. Max(t) >= k + 1
          BY <3>1, <5>1
        <5> QED BY <5>2, <5>3
      <4>3. h[t \ {k + 1}] = g[t \ {k + 1}]
        BY <2>2, <3>1
      <4>4. h[t] = step[<<k + 1, g[t \ {k + 1}]>>]
        BY <3>1
      <4> QED BY <3>1, <4>2, <4>3, <4>4
    <3>2. CASE k + 1 \notin t
      <4>1. t \in SUBSET (1 .. k)
        BY <2>2, <3>2
      <4>2. CASE t = {}
        BY <2>1, <3>2, <4>1, <4>2 DEF FoldsOver
      <4>3. CASE t # {}
        <5> HIDE DEF h
        <5>0. k \in Nat
          OBVIOUS
        <5>1. Max(t) \in t
          BY <4>1, <4>3, <5>0, MaxIn
        <5> USE DEF h
        <5>2. t \ {Max(t)} \in SUBSET (1 .. k) /\ t \ {Max(t)} \in SUBSET (1 .. k + 1)
              /\ k + 1 \notin t \ {Max(t)}
          BY <3>2, <4>1
        <5>3. h[t] = g[t] /\ h[t \ {Max(t)}] = g[t \ {Max(t)}]
          BY <3>2, <5>2
        <5>4. g[t] = step[<<Max(t), g[t \ {Max(t)}]>>]
          BY <2>1, <4>1, <4>3 DEF FoldsOver
        <5> QED BY <4>3, <5>3, <5>4
      <4> QED BY <4>2, <4>3
    <3> QED BY <3>1, <3>2
  <2>5. k + 1 \in 0 .. n
    OBVIOUS
  <2> HIDE DEF h
  <2> QED BY <2>3, <2>4, <2>5
<1>3. 0 .. n \subseteq T
  <2> HIDE DEF T
  <2> QED BY <1>1, <1>2, InductUpTo
<1>4. n \in T
  <2>1. n \in 0 .. n
    OBVIOUS
  <2> HIDE DEF T
  <2> QED BY <1>3, <2>1
<1> QED BY <1>4

(***************************************************************************)
(* A function that is given by its first value and by steps exists.        *)
(***************************************************************************)
StepsOver(r, n, base, step) ==
  r[0] = base /\ \A i \in 1 .. n : r[i] = step[<<i, r[i - 1]>>]

LEMMA StepsExist ==
  ASSUME NEW n \in Nat, NEW S, NEW base \in S, NEW step \in [(1 .. n) \X S -> S]
  PROVE  \E r \in [0 .. n -> S] : StepsOver(r, n, base, step)
<1> DEFINE Runs(r, k) == StepsOver(r, k, base, step)
           T == {k \in 0 .. n : \E r \in [0 .. k -> S] : Runs(r, k)}
<1>1. 0 \in T
  <2> DEFINE r == [i \in 0 .. 0 |-> base]
  <2>1. r \in [0 .. 0 -> S] /\ Runs(r, 0)
    BY DEF StepsOver
  <2> HIDE DEF Runs, r
  <2> QED BY <2>1
<1>2. ASSUME NEW k \in 0 .. n - 1, k \in T PROVE k + 1 \in T
  <2>1. PICK r \in [0 .. k -> S] : Runs(r, k)
    BY <1>2
  <2> DEFINE q == [i \in 0 .. k + 1 |-> IF i = k + 1 THEN step[<<i, r[i - 1]>>] ELSE r[i]]
  <2>2. \A i \in 0 .. k + 1 : i # k + 1 => i \in 0 .. k
    OBVIOUS
  <2>3. (k + 1) - 1 = k /\ k \in 0 .. k /\ k + 1 \in 1 .. n /\ k + 1 \in 0 .. n /\ 0 \in 0 .. k
    OBVIOUS
  <2>4. q \in [0 .. k + 1 -> S]
    <3>1. step[<<k + 1, r[k]>>] \in S
      BY <2>3
    <3> QED BY <2>2, <2>3, <3>1
  <2>5. Runs(q, k + 1)
    <3>1. q[0] = base
      BY <2>1, <2>3 DEF StepsOver
    <3>2. ASSUME NEW i \in 1 .. k + 1 PROVE q[i] = step[<<i, q[i - 1]>>]
      <4>1. i - 1 \in 0 .. k /\ q[i - 1] = r[i - 1]
        OBVIOUS
      <4>2. CASE i = k + 1
        BY <4>1, <4>2
      <4>3. CASE i # k + 1
        <5>1. i \in 1 .. k
          BY <4>3
        <5> QED BY <2>1, <4>1, <4>3, <5>1 DEF StepsOver
      <4> QED BY <4>2, <4>3
    <3> HIDE DEF q
    <3> QED BY <3>1, <3>2 DEF StepsOver
  <2> HIDE DEF Runs, q
  <2> QED BY <2>3, <2>4, <2>5
<1>3. n \in T
  <2>1. 0 .. n \subseteq T
    <3> HIDE DEF T
    <3> QED BY <1>1, <1>2, InductUpTo
  <2>2. n \in 0 .. n
    OBVIOUS
  <2> HIDE DEF T
  <2> QED BY <2>1, <2>2
<1> QED BY <1>3

(***************************************************************************)
(* A sum over a set of numbers, taken one after the other: r[i] is the sum *)
(* of e over the members of s below i.                                     *)
(***************************************************************************)
SumsUp(r, s, n, e) ==
  /\ r \in [0 .. n -> Nat]
  /\ r[0] = 0
  /\ \A i \in 0 .. n - 1 : r[i + 1] = IF i \in s THEN r[i] + e[i] ELSE r[i]

LEMMA SumsExist ==
  ASSUME NEW n \in Nat, NEW e \in [0 .. n - 1 -> Nat], NEW s
  PROVE  \E r : SumsUp(r, s, n, e)
<1> DEFINE step == [p \in (1 .. n) \X Nat |-> IF p[1] - 1 \in s THEN p[2] + e[p[1] - 1] ELSE p[2]]
<1>1. step \in [(1 .. n) \X Nat -> Nat]
  <2>1. \A p \in (1 .. n) \X Nat : e[p[1] - 1] \in Nat
    OBVIOUS
  <2> QED BY <2>1
<1>2. PICK r \in [0 .. n -> Nat] : StepsOver(r, n, 0, step)
  <2> HIDE DEF step
  <2> QED BY <1>1, StepsExist
<1>3. ASSUME NEW i \in 0 .. n - 1
      PROVE  r[i + 1] = IF i \in s THEN r[i] + e[i] ELSE r[i]
  <2>1. i + 1 \in 1 .. n /\ (i + 1) - 1 = i /\ r[i] \in Nat
    OBVIOUS
  <2>2. r[i + 1] = step[<<i + 1, r[i]>>]
    BY <1>2, <2>1 DEF StepsOver
  <2> QED BY <2>1, <2>2
<1> QED BY <1>2, <1>3 DEF SumsUp, StepsOver

LEMMA SumWithout ==
  ASSUME NEW n \in Nat, NEW e \in [0 .. n - 1 -> Nat],
         NEW s, NEW x \in 0 .. n - 1, x \in s,
         NEW r, SumsUp(r, s, n, e), NEW q, SumsUp(q, s \ {x}, n, e)
  PROVE  r[n] = e[x] + q[n]
<1> DEFINE K == {k \in 0 .. n : r[k] = IF k > x THEN e[x] + q[k] ELSE q[k]}
<1>0. r \in [0 .. n -> Nat] /\ q \in [0 .. n -> Nat] /\ e[x] \in Nat
  BY DEF SumsUp
<1>1. 0 \in K
  BY DEF SumsUp
<1>2. ASSUME NEW k \in 0 .. n - 1, k \in K PROVE k + 1 \in K
  <2>1. /\ r[k + 1] = IF k \in s THEN r[k] + e[k] ELSE r[k]
        /\ q[k + 1] = IF k \in s /\ k # x THEN q[k] + e[k] ELSE q[k]
    BY DEF SumsUp
  <2>2. e[k] \in Nat /\ r[k] \in Nat /\ q[k] \in Nat /\ k + 1 \in 0 .. n
    BY <1>0
  <2>3. CASE k < x
    BY <1>0, <1>2, <2>1, <2>2, <2>3
  <2>4. CASE k = x
    BY <1>0, <1>2, <2>1, <2>2, <2>4
  <2>5. CASE k > x
    BY <1>0, <1>2, <2>1, <2>2, <2>5
  <2> QED BY <2>3, <2>4, <2>5
<1>3. 0 .. n \subseteq K
  <2> HIDE DEF K
  <2> QED BY <1>1, <1>2, InductUpTo
<1>4. n \in K /\ n > x
  BY <1>3
<1> QED BY <1>4

LEMMA SumOfNone ==
  ASSUME NEW n \in Nat, NEW e, NEW r, SumsUp(r, {}, n, e)
  PROVE  r[n] = 0
<1> DEFINE K == {k \in 0 .. n : r[k] = 0}
<1>1. 0 \in K
  BY DEF SumsUp
<1>2. \A k \in 0 .. n - 1 : k \in K => k + 1 \in K
  BY DEF SumsUp
<1>3. 0 .. n \subseteq K
  <2> HIDE DEF K
  <2> QED BY <1>1, <1>2, InductUpTo
<1> QED BY <1>3

(***************************************************************************)
(* What FoldFunction of the community modules computes when it adds up e   *)
(* in the order CHOOSE takes its indices: the sum in ascending order.      *)
(***************************************************************************)
AnyOf(s) == CHOOSE x \in s : TRUE

AddsUp(g, n, e) ==
  g = [s \in SUBSET (0 .. n - 1) |-> IF s = {} THEN 0 ELSE e[AnyOf(s)] + g[s \ {AnyOf(s)}]]

LEMMA AnyOfIn == ASSUME NEW s, s # {} PROVE AnyOf(s) \in s
BY DEF AnyOf

LEMMA AddsUpExists ==
  ASSUME NEW n \in Nat, NEW e \in [0 .. n - 1 -> Nat]
  PROVE  \E g : AddsUp(g, n, e)
<1> DEFINE run(s) == CHOOSE r : SumsUp(r, s, n, e)
           g == [s \in SUBSET (0 .. n - 1) |-> run(s)[n]]
<1>1. \A s : SumsUp(run(s), s, n, e)
  BY SumsExist
<1> HIDE DEF run
<1>2. ASSUME NEW s \in SUBSET (0 .. n - 1)
      PROVE  g[s] = IF s = {} THEN 0 ELSE e[AnyOf(s)] + g[s \ {AnyOf(s)}]
  <2>1. CASE s = {}
    <3>1. run({})[n] = 0
      <4>1. SumsUp(run({}), {}, n, e)
        BY <1>1
      <4> QED BY <4>1, SumOfNone
    <3>2. g[{}] = run({})[n]
      OBVIOUS
    <3> QED BY <2>1, <3>1, <3>2
  <2>2. CASE s # {}
    <3>1. AnyOf(s) \in s /\ AnyOf(s) \in 0 .. n - 1 /\ s \ {AnyOf(s)} \in SUBSET (0 .. n - 1)
      BY <2>2, AnyOfIn
    <3>2. run(s)[n] = e[AnyOf(s)] + run(s \ {AnyOf(s)})[n]
      <4>1. PICK x \in 0 .. n - 1 : x = AnyOf(s)
        BY <3>1
      <4>2. SumsUp(run(s), s, n, e) /\ SumsUp(run(s \ {x}), s \ {x}, n, e) /\ x \in s
        BY <1>1, <3>1, <4>1
      <4>3. run(s)[n] = e[x] + run(s \ {x})[n]
        BY <4>2, SumWithout
      <4> QED BY <4>1, <4>3
    <3> QED BY <2>2, <3>1, <3>2
  <2> QED BY <2>1, <2>2
<1>3. AddsUp(g, n, e)
  BY <1>2 DEF AddsUp
<1> QED BY <1>3

LEMMA AddsUpIsSum ==
  ASSUME NEW n \in Nat, NEW e \in [0 .. n - 1 -> Nat], NEW g, AddsUp(g, n, e),
         NEW r, SumsUp(r, 0 .. n - 1, n, e)
  PROVE  g[0 .. n - 1] = r[n]
<1> DEFINE Right(s) == \A q : SumsUp(q, s, n, e) => g[s] = q[n]
           K == {k \in 0 .. n : \A s \in SUBSET (0 .. n - 1) : Cardinality(s) = k => Right(s)}
<1>0. \A s \in SUBSET (0 .. n - 1) : IsFiniteSet(s)
  <2>1. IsFiniteSet(0 .. n - 1)
    BY FS_Interval
  <2> QED BY <2>1, FS_Subset
<1>1. 0 \in K
  <2>1. ASSUME NEW s \in SUBSET (0 .. n - 1), Cardinality(s) = 0 PROVE Right(s)
    <3>1. s = {}
      BY <1>0, <2>1, FS_EmptySet
    <3>2. g[s] = 0
      BY <3>1 DEF AddsUp
    <3>3. ASSUME NEW q, SumsUp(q, s, n, e) PROVE q[n] = 0
      <4>1. SumsUp(q, {}, n, e)
        BY <3>1, <3>3
      <4> QED BY <4>1, SumOfNone
    <3> QED BY <3>2, <3>3
  <2> QED BY <2>1
<1>2. ASSUME NEW k \in 0 .. n - 1, k \in K PROVE k + 1 \in K
  <2>1. ASSUME NEW s \in SUBSET (0 .. n - 1), Cardinality(s) = k + 1 PROVE Right(s)
    <3>1. s # {}
      <4>1. Cardinality({}) = 0
        BY FS_EmptySet
      <4>2. k + 1 # 0
        OBVIOUS
      <4> QED BY <2>1, <4>1, <4>2, Zenon
    <3>2. PICK x \in 0 .. n - 1 : x = AnyOf(s) /\ x \in s /\ s \ {x} \in SUBSET (0 .. n - 1)
      BY <3>1, AnyOfIn
    <3>3. Cardinality(s \ {x}) = k
      <4>1. Cardinality(s \ {x}) = Cardinality(s) - 1
        BY <1>0, <3>2, FS_RemoveElement
      <4> QED BY <2>1, <4>1
    <3>4. Right(s \ {x})
      BY <1>2, <3>2, <3>3
    <3>5. PICK p : SumsUp(p, s \ {x}, n, e)
      BY SumsExist
    <3>6. g[s] = e[x] + p[n]
      <4>1. g[s \ {x}] = p[n]
        BY <3>4, <3>5
      <4>2. g[s] = e[AnyOf(s)] + g[s \ {AnyOf(s)}]
        BY <3>1 DEF AddsUp
      <4> QED BY <3>2, <4>1, <4>2
    <3>7. ASSUME NEW q, SumsUp(q, s, n, e) PROVE g[s] = q[n]
      <4>1. q[n] = e[x] + p[n]
        BY <3>2, <3>5, <3>7, SumWithout
      <4> QED BY <3>6, <4>1
    <3> QED BY <3>7
  <2> QED BY <2>1
<1>3. 0 .. n \subseteq K
  <2> HIDE DEF K
  <2> QED BY <1>1, <1>2, InductUpTo
<1>4. Cardinality(0 .. n - 1) = n
  BY FS_Interval
<1>5. n \in K
  <2> HIDE DEF K
  <2> QED BY <1>3
<1> QED BY <1>4, <1>5
=============================================================================
