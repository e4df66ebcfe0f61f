----------------------------- MODULE Inductions -----------------------------
(***************************************************************************)
(* Induction over data for the proofs of this project.  The statement is a *)
(* set and not a predicate: what is to hold of every number is put as      *)
(* "every number is in the set of those it holds of", so that the          *)
(* principle can be cited like any other fact.                             *)
(***************************************************************************)
EXTENDS Lists, Functions, SequenceTheorems, WellFoundedInduction, TLAPS

\* A set of numbers that is not empty has a least one.
LEMMA LeastNumber ==
  ASSUME NEW U, U \subseteq Nat, U # {}
  PROVE  \E x \in U : \A y \in U : x <= y
<1> DEFINE R == OpToRel(<, Nat)
<1>1. IsWellFoundedOn(R, Nat)
  BY NatLessThanWellFounded
<1>2. PICK x \in U : \A y \in U : <<y, x>> \notin R
  <2> HIDE DEF R
  <2> QED
    BY <1>1, WFMin
<1>3. \A y \in U : ~(y < x)
  BY <1>2 DEF OpToRel
<1> QED
  BY <1>3

\* A set with 0 that has the successor of every number in it has every number.
LEMMA SetInduction ==
  ASSUME NEW T, 0 \in T, \A n \in Nat : n \in T => n + 1 \in T
  PROVE  Nat \subseteq T
<1> DEFINE U == Nat \ T
<1> SUFFICES ASSUME U # {}
             PROVE  FALSE
  OBVIOUS
<1>1. PICK x \in U : \A y \in U : x <= y
  <2> U \subseteq Nat
    OBVIOUS
  <2> HIDE DEF U
  <2> QED
    BY LeastNumber
<1>2. x \in Nat /\ x # 0
  OBVIOUS
<1>3. x - 1 \in Nat /\ ~(x <= x - 1)
  BY <1>2
<1>4. (x - 1) + 1 \in T
  BY <1>1, <1>3
<1>5. (x - 1) + 1 = x
  BY <1>2
<1> QED
  BY <1>4, <1>5

\* The same up to a bound.
LEMMA IntervalInduction ==
  ASSUME NEW n \in Nat, NEW T, 0 \in T,
         \A k \in Nat : k < n /\ k \in T => k + 1 \in T
  PROVE  \A k \in 0..n : k \in T
<1> DEFINE U == {k \in Nat : k <= n => k \in T}
<1>1. 0 \in U
  OBVIOUS
<1>2. ASSUME NEW k \in Nat, k \in U
      PROVE  k + 1 \in U
  <2>1. k + 1 <= n => k < n /\ k <= n
    OBVIOUS
  <2> QED
    BY <1>2, <2>1
<1>3. Nat \subseteq U
  <2> HIDE DEF U
  <2> QED
    BY <1>1, <1>2, SetInduction
<1> QED
  BY <1>3

\* f starts at base, and each value comes from the one before it.
StepByStep(f, base, n, step) ==
  f[0] = base /\ \A k \in 1..n : f[k] = step[k][f[k - 1]]

\* A function that is defined step by step exists.
LEMMA Recursion ==
  ASSUME NEW V, NEW base \in V, NEW n \in Nat, NEW step \in [1..n -> [V -> V]]
  PROVE  \E f \in [0..n -> V] : StepByStep(f, base, n, step)
<1> USE DEF StepByStep
<1> DEFINE Made(k, f) == f[0] = base /\ \A i \in 1..k : f[i] = step[i][f[i - 1]]
           T == {k \in Nat : \E f \in [0..k -> V] : Made(k, f)}
<1>1. 0 \in T
  <2> DEFINE f == [i \in 0..0 |-> base]
  <2>1. f \in [0..0 -> V] /\ Made(0, f)
    OBVIOUS
  <2> QED
    BY <2>1
<1>2. ASSUME NEW k \in Nat, k < n, k \in T
      PROVE  k + 1 \in T
  <2>1. PICK f \in [0..k -> V] : Made(k, f)
    BY <1>2
  <2> DEFINE g == [i \in 0..(k + 1) |-> IF i = k + 1 THEN step[k + 1][f[k]] ELSE f[i]]
  <2>2. k + 1 \in 1..n /\ f[k] \in V
    BY <1>2
  <2>3. g \in [0..(k + 1) -> V]
    BY <2>1, <2>2
  <2>4. g[0] = base
    BY <2>1
  <2>5. \A i \in 1..(k + 1) : g[i] = step[i][g[i - 1]]
    <3> SUFFICES ASSUME NEW i \in 1..(k + 1)
                 PROVE  g[i] = step[i][g[i - 1]]
      OBVIOUS
    <3>1. i \in 0..(k + 1) /\ i - 1 \in 0..(k + 1) /\ i - 1 # k + 1
      OBVIOUS
    <3>2. g[i - 1] = f[i - 1]
      BY <3>1
    <3>3. CASE i = k + 1
      <4> i - 1 = k
        BY <3>3
      <4> QED
        BY <3>1, <3>2, <3>3
    <3>4. CASE i # k + 1
      <4>1. i \in 1..k /\ g[i] = f[i]
        BY <3>1, <3>4
      <4> QED
        BY <2>1, <3>2, <4>1
    <3> QED
      BY <3>3, <3>4
  <2>6. \E h \in [0..(k + 1) -> V] : Made(k + 1, h)
    <3> HIDE DEF g
    <3> QED
      BY <2>3, <2>4, <2>5
  <2> QED
    <3> HIDE DEF g, Made
    <3> QED
      BY <2>6
<1>3. \A k \in 0..n : k \in T
  <2> HIDE DEF T
  <2> QED
    BY <1>1, <1>2, IntervalInduction
<1> QED
  BY <1>3

-----------------------------------------------------------------------------
(* Lists!Keep. *)

\* k[i] is what has been kept of the first i elements.
Keeping(s, S, k) ==
  k = [i \in 0..Len(s) |->
         IF i = 0 THEN << >>
         ELSE IF s[i] \in S THEN Append(k[i - 1], s[i]) ELSE k[i - 1]]

LEMMA KeepingExists ==
  ASSUME NEW T, NEW s \in Seq(T), NEW S
  PROVE  \E k \in [0..Len(s) -> Seq(T)] : Keeping(s, S, k)
<1> DEFINE n == Len(s)
           V == Seq(T)
           base == << >>
           step == [i \in 1..n |-> [v \in V |-> IF s[i] \in S THEN Append(v, s[i]) ELSE v]]
<1>1. n \in Nat /\ base \in V /\ \A i \in 1..n : s[i] \in T
  OBVIOUS
<1>2. step \in [1..n -> [V -> V]]
  <2>1. \A i \in 1..n : \A v \in V : (IF s[i] \in S THEN Append(v, s[i]) ELSE v) \in V
    BY <1>1
  <2> HIDE DEF n, V
  <2> QED
    BY <2>1
<1>3. \E f \in [0..n -> V] : StepByStep(f, base, n, step)
  <2>1. n \in Nat /\ base \in V /\ step \in [1..n -> [V -> V]]
    BY <1>1, <1>2, Zenon
  <2> HIDE DEF n, V, base, step
  <2> QED
    BY <2>1, Recursion
<1>4. PICK f \in [0..n -> V] : f[0] = base /\ \A i \in 1..n : f[i] = step[i][f[i - 1]]
  BY <1>3 DEF StepByStep
<1>5. \A i \in 0..n : f[i] = IF i = 0 THEN << >>
                            ELSE IF s[i] \in S THEN Append(f[i - 1], s[i]) ELSE f[i - 1]
  <2> SUFFICES ASSUME NEW i \in 0..n
               PROVE  f[i] = IF i = 0 THEN << >>
                             ELSE IF s[i] \in S THEN Append(f[i - 1], s[i]) ELSE f[i - 1]
    OBVIOUS
  <2>1. CASE i = 0
    BY <1>4, <2>1, Zenon
  <2>2. CASE i # 0
    <3>1. i \in 1..n /\ i - 1 \in 0..n
      BY <1>1, <2>2
    <3>2. f[i - 1] \in V /\ f[i] = step[i][f[i - 1]]
      BY <1>4, <3>1
    <3> HIDE DEF V
    <3>3. step[i][f[i - 1]] = IF s[i] \in S THEN Append(f[i - 1], s[i]) ELSE f[i - 1]
      BY <3>1, <3>2
    <3> QED
      BY <2>2, <3>2, <3>3, Zenon
  <2> QED
    BY <2>1, <2>2
<1>6. f = [i \in 0..n |-> IF i = 0 THEN << >>
                       ELSE IF s[i] \in S THEN Append(f[i - 1], s[i]) ELSE f[i - 1]]
  <2>1. f = [i \in 0..n |-> f[i]]
    BY <1>4
  <2> HIDE DEF n
  <2> QED
    BY <1>5, <2>1, Zenon
<1>7. Keeping(s, S, f)
  BY <1>6, Zenon DEF Keeping
<1> QED
  BY <1>4, <1>7

\* Keep is the list of the elements in S, and repeats none that the list does not.
LEMMA KeepSound ==
  ASSUME NEW T, NEW s \in Seq(T), NEW S
  PROVE  /\ Keep(s, S) \in Seq(T)
         /\ Range(Keep(s, S)) = Range(s) \cap S
         /\ IsInjective(s) => IsInjective(Keep(s, S))
<1> DEFINE n == Len(s)
           K(k) == Keeping(s, S, k)
<1>1. n \in Nat /\ DOMAIN s = 1..n /\ \A i \in 1..n : s[i] \in T
  OBVIOUS
<1>2. \E k : Keeping(s, S, k)
  BY KeepingExists
<1> DEFINE f == CHOOSE k : Keeping(s, S, k)
           first(i) == {s[j] : j \in 1..i}
           Good(i) == /\ f[i] \in Seq(T)
                      /\ Range(f[i]) = first(i) \cap S
                      /\ IsInjective(s) => IsInjective(f[i])
           U == {i \in Nat : Good(i)}
<1>3. Keep(s, S) = f[n]
  BY DEF Keep, Keeping
<1>4. Keeping(s, S, f)
  BY <1>2
<1> HIDE DEF f
<1>5. /\ f[0] = << >>
      /\ \A i \in 1..n : f[i] = IF s[i] \in S THEN Append(f[i - 1], s[i]) ELSE f[i - 1]
  <2>1. f = [i \in 0..n |-> IF i = 0 THEN << >>
                         ELSE IF s[i] \in S THEN Append(f[i - 1], s[i]) ELSE f[i - 1]]
    BY <1>4, Zenon DEF Keeping
  <2> HIDE DEF n
  <2>2. \A i \in 0..n : f[i] = IF i = 0 THEN << >>
                         ELSE IF s[i] \in S THEN Append(f[i - 1], s[i]) ELSE f[i - 1]
    BY <2>1, Zenon
  <2>3. 0 \in 0..n /\ \A i \in 1..n : i \in 0..n /\ i # 0
    BY <1>1
  <2> QED
    BY <2>2, <2>3, Zenon
<1>6. 0 \in U
  <2>1. first(0) = {}
    OBVIOUS
  <2>2. DOMAIN << >> = {} /\ << >> \in Seq(T)
    OBVIOUS
  <2>3. Range(<< >>) = {} /\ IsInjective(<< >>)
    BY <2>2 DEF Range, IsInjective
  <2>4. Good(0)
    <3> HIDE DEF first
    <3> QED
      BY <1>5, <2>1, <2>2, <2>3
  <2> QED
    <3> HIDE DEF Good
    <3> QED
      BY <2>4
<1>7. ASSUME NEW i \in Nat, i < n, i \in U
      PROVE  i + 1 \in U
  <2>1. i + 1 \in 1..n /\ (i + 1) - 1 = i /\ i + 1 \in Nat
    BY <1>1, <1>7
  <2>2. Good(i)
    <3> HIDE DEF Good
    <3> QED
      BY <1>7
  <2>3. first(i + 1) = first(i) \cup {s[i + 1]}
    <3>1. \A j : j \in 1..(i + 1) <=> j \in 1..i \/ j = i + 1
      OBVIOUS
    <3> QED
      BY <3>1, Zenon
  <2>4. f[i + 1] = IF s[i + 1] \in S THEN Append(f[i], s[i + 1]) ELSE f[i]
    BY <1>5, <2>1, Zenon
  <2>5. CASE s[i + 1] \notin S
    <3>1. Good(i + 1)
      <4> HIDE DEF first
      <4> QED
        BY <2>2, <2>3, <2>4, <2>5
    <3> HIDE DEF Good
    <3> QED
      BY <2>1, <3>1
  <2>6. CASE s[i + 1] \in S
    <3> DEFINE v == f[i]
               x == s[i + 1]
               a == Append(v, x)
               m == Len(v)
    <3>1. /\ v \in Seq(T) /\ m \in Nat /\ x \in T /\ a \in Seq(T)
          /\ DOMAIN v = 1..m /\ DOMAIN a = 1..(m + 1)
          /\ \A j \in 1..m : a[j] = v[j]
          /\ a[m + 1] = x
      BY <1>1, <2>1, <2>2
    <3>2. Range(v) = first(i) \cap S
      BY <2>2
    <3> HIDE DEF v, a, m
    <3>3. Range(a) = Range(v) \cup {x}
      <4>1. Range(v) = {v[j] : j \in 1..m} /\ Range(a) = {a[j] : j \in 1..(m + 1)}
        BY <3>1 DEF Range
      <4>2. \A j : j \in 1..(m + 1) <=> j \in 1..m \/ j = m + 1
        BY <3>1
      <4> HIDE DEF x
      <4> QED
        BY <3>1, <4>1, <4>2
    <3>4. Range(a) = first(i + 1) \cap S
      <4> HIDE DEF first
      <4> QED
        BY <2>3, <2>6, <3>2, <3>3 DEF x
    <3>5. IsInjective(s) => IsInjective(a)
      <4> SUFFICES ASSUME IsInjective(s)
                   PROVE  IsInjective(a)
        OBVIOUS
      <4>1. IsInjective(v)
        BY <2>2 DEF v
      <4>2. x \notin Range(v)
        <5> SUFFICES ASSUME x \in first(i)
                     PROVE  FALSE
          BY <3>2
        <5>1. PICK j \in 1..i : s[j] = s[i + 1]
          OBVIOUS
        <5>2. j \in 1..n /\ j # i + 1
          BY <2>1, <1>1
        <5> QED
          BY <1>1, <2>1, <5>1, <5>2, Zenon DEF IsInjective
      <4>3. \A j \in 1..m : v[j] # x
        <5> \A j \in 1..m : v[j] \in Range(v)
          BY <3>1 DEF Range
        <5> QED
          BY <4>2
      <4>4. ASSUME NEW j \in 1..(m + 1), NEW l \in 1..(m + 1), a[j] = a[l]
            PROVE  j = l
        <5>1. \A d \in 1..(m + 1) : d \in 1..m \/ d = m + 1
          BY <3>1
        <5>2. \A d, e \in 1..m : v[d] = v[e] => d = e
          BY <3>1, <4>1 DEF IsInjective
        <5> HIDE DEF x
        <5> QED
          BY <3>1, <4>3, <4>4, <5>1, <5>2, Zenon
      <4> QED
        BY <3>1, <4>4, Zenon DEF IsInjective
    <3>6. Good(i + 1)
      <4>1. f[i + 1] = a
        BY <2>4, <2>6 DEF a, v
      <4> HIDE DEF first
      <4> QED
        BY <3>1, <3>4, <3>5, <4>1, Zenon
    <3> HIDE DEF Good
    <3> QED
      BY <2>1, <3>6
  <2> QED
    BY <2>5, <2>6
<1>8. \A i \in 0..n : i \in U
  <2> HIDE DEF U, n
  <2> QED
    BY <1>1, <1>6, <1>7, IntervalInduction
<1>9. Good(n)
  <2> n \in 0..n
    BY <1>1
  <2> HIDE DEF Good
  <2> QED
    BY <1>8
<1>10. first(n) = Range(s)
  BY <1>1 DEF Range
<1> QED
  BY <1>3, <1>9, <1>10
=============================================================================
