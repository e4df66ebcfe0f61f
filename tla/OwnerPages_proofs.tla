-------------------------- MODULE OwnerPages_proofs --------------------------
(***************************************************************************)
(* Proofs about the admin console, for any lists of CAs and announcements, *)
(* any number of rows selected and any number of readings and changes, and *)
(* about the page that deploys, for any fees, tokens, limits and use cases.*)
(***************************************************************************)
EXTENDS OwnerPages, FiniteSetTheorems, Inductions

-----------------------------------------------------------------------------
(* The contract's removal of rows, and lists made of sets. *)

\* Swap-and-pop takes the row off, and moves none of the rows before it.
LEMMA SwapAndPopSound ==
  ASSUME NEW T, NEW l \in Seq(T), IsInjective(l), NEW i \in DOMAIN l
  PROVE  /\ SwapAndPop(l, i) \in Seq(T)
         /\ Len(SwapAndPop(l, i)) = Len(l) - 1
         /\ \A a \in 1..(Len(l) - 1) : a < i => SwapAndPop(l, i)[a] = l[a]
         /\ IsInjective(SwapAndPop(l, i))
         /\ Range(SwapAndPop(l, i)) = Range(l) \ {l[i]}
<1> DEFINE n == Len(l)
           m == [l EXCEPT ![i] = l[n]]
           r == SubSeq(m, 1, n - 1)
<1>1. /\ n \in Nat /\ n \in 1..n /\ i \in 1..n /\ DOMAIN l = 1..n
      /\ \A a \in 1..n : l[a] \in T
      /\ \A a, b \in 1..n : l[a] = l[b] => a = b
  BY DEF IsInjective
<1> HIDE DEF n
<1>2. /\ m \in Seq(T) /\ Len(m) = n
      /\ \A a \in 1..n : m[a] = IF a = i THEN l[n] ELSE l[a]
      /\ \A a \in 1..n : m[a] \in T
  BY <1>1 DEF n
<1>3. /\ r \in Seq(T) /\ Len(r) = n - 1
      /\ \A a \in 1..(n - 1) : r[a] = m[a]
  <2> HIDE DEF m
  <2>1. n - 1 \in Int /\ 1 \in Int /\ \A a \in 1..(n - 1) : a \in 1..n
    BY <1>1
  <2>2. /\ r \in Seq(T) /\ Len(r) = IF 1 <= n - 1 THEN n - 1 - 1 + 1 ELSE 0
        /\ \A a \in 1..(n - 1 - 1 + 1) : r[a] = m[1 + a - 1]
    BY <1>2, <2>1, SubSeqProperties
  <2>3. \A a \in 1..(n - 1) : a \in 1..(n - 1 - 1 + 1) /\ 1 + a - 1 = a
    BY <1>1
  <2> HIDE DEF r
  <2>4. Len(r) = n - 1
    BY <1>1, <2>2
  <2>5. ASSUME NEW a \in 1..(n - 1)
        PROVE  r[a] = m[a]
    BY <2>2, <2>3, Zenon
  <2> QED
    BY <2>2, <2>4, <2>5
<1>4. \A a \in 1..(n - 1) : r[a] = IF a = i THEN l[n] ELSE l[a]
  <2> SUFFICES ASSUME NEW a \in 1..(n - 1)
               PROVE  r[a] = IF a = i THEN l[n] ELSE l[a]
    OBVIOUS
  <2> a \in 1..n
    BY <1>1
  <2> HIDE DEF m, r
  <2> QED
    BY <1>2, <1>3
<1> HIDE DEF m, r
<1>5. DOMAIN r = 1..(n - 1)
  BY <1>3
<1>6. IsInjective(r)
  <2>1. ASSUME NEW a \in 1..(n - 1), NEW b \in 1..(n - 1), r[a] = r[b]
        PROVE  a = b
    <3>1. a \in 1..n /\ b \in 1..n /\ a # n /\ b # n
      BY <1>1
    <3> QED
      BY <1>1, <1>4, <2>1, <3>1
  <2> QED
    BY <1>5, <2>1 DEF IsInjective
<1>7. Range(r) = Range(l) \ {l[i]}
  <2>1. ASSUME NEW a \in 1..n, l[a] # l[i]
        PROVE  \E b \in 1..(n - 1) : r[b] = l[a]
    <3>1. CASE a = n
      <4>1. i \in 1..(n - 1)
        BY <1>1, <2>1, <3>1
      <4> QED
        BY <1>4, <3>1, <4>1
    <3>2. CASE a # n
      <4>1. a \in 1..(n - 1) /\ a # i
        BY <1>1, <2>1, <3>2
      <4> QED
        BY <1>4, <4>1
    <3> QED
      BY <3>1, <3>2
  <2>2. ASSUME NEW b \in 1..(n - 1)
        PROVE  /\ \E a \in 1..n : l[a] = r[b]
               /\ r[b] # l[i]
    <3>1. b \in 1..n /\ b # n
      BY <1>1
    <3> QED
      BY <1>1, <1>4, <3>1
  <2>3. Range(l) = {l[a] : a \in 1..n} /\ Range(r) = {r[b] : b \in 1..(n - 1)}
    BY <1>1, <1>5 DEF Range
  <2>4. ASSUME NEW x \in Range(l) \ {l[i]}
        PROVE  x \in Range(r)
    <3> PICK a \in 1..n : x = l[a]
      BY <2>3
    <3> QED
      BY <2>1, <2>3, <2>4
  <2>5. ASSUME NEW x \in Range(r)
        PROVE  x \in Range(l) \ {l[i]}
    <3> PICK b \in 1..(n - 1) : x = r[b]
      BY <2>3
    <3> QED
      BY <2>2, <2>3
  <2> QED
    BY <2>4, <2>5
<1>8. SwapAndPop(l, i) = r
  BY DEF SwapAndPop, r, m, n
<1>9. \A a \in 1..(n - 1) : a < i => r[a] = l[a]
  BY <1>1, <1>4
<1> QED
  BY <1>3, <1>6, <1>7, <1>8, <1>9 DEF n

\* f[k] is the list after k rounds of the loop over the indices.
RowsRemoved(list, indices, n, f) ==
  f = [k \in 0..n |-> IF k = 0 THEN list ELSE SwapAndPop(f[k - 1], indices[k])]

LEMMA RowsRemovedExists ==
  ASSUME NEW list, NEW indices, NEW n \in Nat
  PROVE  \E f : RowsRemoved(list, indices, n, f)
<1> USE DEF RowsRemoved
<1> DEFINE Loop(m, f) == RowsRemoved(list, indices, m, f)
           T == {m \in Nat : \E f : Loop(m, f)}
<1>1. 0 \in T
  <2> DEFINE f == [k \in 0..0 |-> list]
  <2>1. Loop(0, f)
    OBVIOUS
  <2> QED
    BY <2>1
<1>2. ASSUME NEW m \in Nat, m \in T
      PROVE  m + 1 \in T
  <2>1. PICK f : Loop(m, f)
    BY <1>2
  <2> DEFINE g == [k \in 0..(m + 1) |->
                     IF k = 0 THEN list ELSE SwapAndPop(f[k - 1], indices[k])]
  <2>2. DOMAIN f = 0..m /\ \A k \in 0..m : f[k] = IF k = 0 THEN list
                                                  ELSE SwapAndPop(f[k - 1], indices[k])
    BY <2>1, Zenon
  <2>3. \A k \in 0..m : g[k] = f[k]
    BY <2>2
  <2>4. \A k \in 0..(m + 1) : g[k] = IF k = 0 THEN list
                                      ELSE SwapAndPop(g[k - 1], indices[k])
    <3> SUFFICES ASSUME NEW k \in 0..(m + 1)
                 PROVE  g[k] = IF k = 0 THEN list ELSE SwapAndPop(g[k - 1], indices[k])
      OBVIOUS
    <3>1. k # 0 => k - 1 \in 0..m
      OBVIOUS
    <3>2. k # 0 => g[k - 1] = f[k - 1]
      BY <2>3, <3>1
    <3> QED
      BY <3>2, Zenon
  <2>5. Loop(m + 1, g)
    <3>1. g = [k \in 0..(m + 1) |-> g[k]]
      OBVIOUS
    <3> HIDE DEF g
    <3> QED
      BY <2>4, <3>1
  <2> QED
    <3> HIDE DEF g, Loop, RowsRemoved
    <3> QED
      BY <2>5
<1>3. Nat \subseteq T
  <2> HIDE DEF T
  <2> QED
    BY <1>1, <1>2, SetInduction
<1> HIDE DEF RowsRemoved
<1> QED
  BY <1>3

\* removeCAs with indices in descending order, each of them checked against the length
\* that the rounds before have left; the rows that are left of a list l are as before.
Descending(indices, n) ==
  /\ indices \in Seq(Nat)
  /\ \A k \in DOMAIN indices : indices[k] \in 1..(n - k + 1)
  /\ \A k \in 2..Len(indices) : indices[k] < indices[k - 1]

LEMMA RemoveRowsSound ==
  ASSUME NEW T, NEW l \in Seq(T), IsInjective(l), NEW indices, Descending(indices, Len(l))
  PROVE  /\ RemoveRows(l, indices) \in Seq(T)
         /\ IsInjective(RemoveRows(l, indices))
         /\ Range(RemoveRows(l, indices)) = Range(l) \ {l[i] : i \in Range(indices)}
<1> DEFINE d == Len(indices)
           n == Len(l)
<1>1. /\ d \in Nat /\ n \in Nat /\ DOMAIN indices = 1..d
      /\ \A k \in 1..d : indices[k] \in 1..(n - k + 1)
      /\ \A k \in 2..d : indices[k] < indices[k - 1]
  BY DEF Descending
<1>2. \E f : f = [k \in 0..d |->
                   IF k = 0 THEN l ELSE SwapAndPop(f[k - 1], indices[k])]
  <2> HIDE DEF d
  <2> PICK g : RowsRemoved(l, indices, d, g)
    BY <1>1, RowsRemovedExists
  <2> g = [k \in 0..d |-> IF k = 0 THEN l ELSE SwapAndPop(g[k - 1], indices[k])]
    BY DEF RowsRemoved
  <2> QED
    BY Zenon
<1> DEFINE f == CHOOSE f : f = [k \in 0..d |->
                  IF k = 0 THEN l ELSE SwapAndPop(f[k - 1], indices[k])]
           gone(k) == {l[indices[j]] : j \in 1..k}
           Good(k) == /\ f[k] \in Seq(T) /\ Len(f[k]) = n - k /\ IsInjective(f[k])
                      /\ Range(f[k]) = Range(l) \ gone(k)
                      /\ k < d => \A a \in 1..indices[k + 1] : f[k][a] = l[a]
           U == {k \in Nat : Good(k)}
<1>3. RemoveRows(l, indices) = f[d]
  BY DEF RemoveRows
<1>4. f = [k \in 0..d |-> IF k = 0 THEN l ELSE SwapAndPop(f[k - 1], indices[k])]
  <2> HIDE DEF d
  <2> QED
    BY <1>2, Zenon
<1> HIDE DEF f, d, n
<1>5. f[0] = l /\ \A k \in 1..d : f[k] = SwapAndPop(f[k - 1], indices[k])
  <2>1. \A k \in 0..d : f[k] = IF k = 0 THEN l ELSE SwapAndPop(f[k - 1], indices[k])
    BY <1>4, Zenon
  <2>2. 0 \in 0..d /\ \A k \in 1..d : k \in 0..d /\ k # 0
    BY <1>1
  <2> QED
    BY <2>1, <2>2, Zenon
<1>6. 0 \in U
  <2>1. gone(0) = {}
    OBVIOUS
  <2>2. Len(l) = n - 0
    BY <1>1 DEF n
  <2> HIDE DEF gone
  <2>3. Good(0)
    BY <1>5, <2>1, <2>2
  <2> HIDE DEF Good
  <2> QED
    BY <2>3
<1>7. ASSUME NEW k \in Nat, k < d, k \in U
      PROVE  k + 1 \in U
  <2>1. k + 1 \in 1..d /\ (k + 1) - 1 = k /\ k + 1 \in Nat
    BY <1>1, <1>7
  <2>2. Good(k)
    <3> HIDE DEF Good
    <3> QED
      BY <1>7
  <2> DEFINE v == f[k]
             i == indices[k + 1]
             r == SwapAndPop(v, i)
  <2>3. i \in 1..(n - k)
    BY <1>1, <2>1
  <2>4. /\ v \in Seq(T) /\ Len(v) = n - k /\ DOMAIN v = 1..(n - k) /\ IsInjective(v)
        /\ Range(v) = Range(l) \ gone(k)
        /\ \A a \in 1..i : v[a] = l[a]
    BY <1>7, <2>2
  <2>5. f[k + 1] = r
    BY <1>5, <2>1, Zenon
  <2> HIDE DEF i, v, r
  <2>6. /\ r \in Seq(T) /\ Len(r) = (n - k) - 1 /\ IsInjective(r)
        /\ \A a \in 1..((n - k) - 1) : a < i => r[a] = v[a]
        /\ Range(r) = Range(v) \ {v[i]}
    <3>1. v \in Seq(T) /\ IsInjective(v) /\ i \in DOMAIN v
      BY <2>3, <2>4
    <3>2. /\ r \in Seq(T) /\ Len(r) = Len(v) - 1 /\ IsInjective(r)
          /\ \A a \in 1..(Len(v) - 1) : a < i => r[a] = v[a]
          /\ Range(r) = Range(v) \ {v[i]}
      BY <3>1, SwapAndPopSound, Zenon DEF r
    <3> QED
      BY <2>4, <3>2
  <2>7. (n - k) - 1 = n - (k + 1)
    BY <1>1
  <2>8. v[i] = l[i]
    <3> i \in 1..i
      BY <2>3
    <3> QED
      BY <2>4
  <2>9. gone(k + 1) = gone(k) \cup {l[i]}
    <3>1. \A j : j \in 1..(k + 1) <=> j \in 1..k \/ j = k + 1
      OBVIOUS
    <3> QED
      BY <3>1, Zenon DEF i
  <2>10. k + 1 < d => \A a \in 1..indices[(k + 1) + 1] : r[a] = l[a]
    <3> SUFFICES ASSUME k + 1 < d, NEW a \in 1..indices[(k + 1) + 1]
                 PROVE  r[a] = l[a]
      OBVIOUS
    <3>1. (k + 1) + 1 \in 2..d /\ ((k + 1) + 1) - 1 = k + 1
      BY <1>1
    <3>2. indices[(k + 1) + 1] < i /\ indices[(k + 1) + 1] \in 1..(n - ((k + 1) + 1) + 1)
      BY <1>1, <3>1 DEF i
    <3>3. a < i /\ a \in 1..i /\ a \in 1..((n - k) - 1)
      BY <1>1, <2>3, <3>2
    <3> QED
      BY <2>4, <2>6, <3>3
  <2> HIDE DEF gone
  <2>11. Good(k + 1)
    <3> Range(r) = Range(l) \ gone(k + 1)
      BY <2>4, <2>6, <2>8, <2>9
    <3> QED
      BY <2>5, <2>6, <2>7, <2>10, Zenon
  <2> HIDE DEF Good
  <2> QED
    BY <2>1, <2>11
<1>8. \A k \in 0..d : k \in U
  <2> HIDE DEF U
  <2> QED
    BY <1>1, <1>6, <1>7, IntervalInduction
<1>9. Good(d)
  <2> d \in 0..d
    BY <1>1
  <2> HIDE DEF Good
  <2> QED
    BY <1>8
<1>10. gone(d) = {l[i] : i \in Range(indices)}
  BY <1>1 DEF Range
<1> QED
  BY <1>3, <1>9, <1>10

\* A list made of a finite set has each element of the set once.
LEMMA SetToSeqSound ==
  ASSUME NEW S, IsFiniteSet(S)
  PROVE  /\ SetToSeq(S) \in Seq(S)
         /\ Range(SetToSeq(S)) = S
         /\ IsInjective(SetToSeq(S))
<1> DEFINE n == Cardinality(S)
           D == 1..n
           f == SetToSeq(S)
<1>1. n \in Nat /\ ExistsBijection(D, S)
  BY FS_CardinalityType
<1>2. \E g \in [D -> S] : IsInjective(g)
  BY <1>1 DEF ExistsBijection, Bijection, Injection
<1>3. f \in [D -> S] /\ IsInjective(f)
  <2> HIDE DEF D
  <2>1. SetToSeq(S) = CHOOSE g \in [D -> S] : IsInjective(g)
    BY DEF SetToSeq, D
  <2> QED
    BY <1>2, <2>1
<1>4. f \in Seq(S) /\ DOMAIN f = D
  <2> HIDE DEF f, n
  <2> QED
    BY <1>1, <1>3
<1>5. Cardinality(D) = n
  <2> HIDE DEF n
  <2>1. Cardinality(1..n) = IF 1 > n THEN 0 ELSE n - 1 + 1
    BY <1>1, FS_Interval
  <2> QED
    BY <1>1, <2>1
<1>6. \A x \in S : \E i \in D : f[i] = x
  <2> HIDE DEF f, D
  <2>1. f \in Injection(D, S)
    BY <1>3 DEF Injection
  <2>2. f \in Surjection(D, S)
    BY <1>5, <2>1, FS_Injection
  <2> QED
    BY <2>2 DEF Surjection
<1>7. Range(f) = S
  <2> HIDE DEF f, D
  <2> QED
    BY <1>3, <1>4, <1>6 DEF Range
<1> QED
  BY <1>3, <1>4, <1>7

\* A list goes on with elements that it does not have.
LEMMA AppendedList ==
  ASSUME NEW T, NEW l \in Seq(T), NEW s \in Seq(T), IsInjective(l), IsInjective(s),
         Range(l) \cap Range(s) = {}
  PROVE  /\ l \o s \in Seq(T) /\ IsInjective(l \o s)
         /\ Range(l \o s) = Range(l) \cup Range(s)
<1> DEFINE n == Len(l)
           m == Len(s)
           r == l \o s
<1>1. /\ n \in Nat /\ m \in Nat /\ DOMAIN l = 1..n /\ DOMAIN s = 1..m
      /\ r \in Seq(T) /\ Len(r) = n + m /\ DOMAIN r = 1..(n + m)
      /\ \A a \in 1..(n + m) : r[a] = IF a <= n THEN l[a] ELSE s[a - n]
  <2>1. n \in Nat /\ m \in Nat /\ DOMAIN l = 1..n /\ DOMAIN s = 1..m
    OBVIOUS
  <2>2. r \in Seq(T) /\ Len(r) = n + m
        /\ \A a \in 1..(n + m) : r[a] = IF a <= n THEN l[a] ELSE s[a - n]
    BY ConcatProperties
  <2>3. DOMAIN r = 1..Len(r)
    <3> HIDE DEF r
    <3> QED
      BY <2>2
  <2> QED
    BY <2>1, <2>2, <2>3
<1>2. \A a, b \in 1..n : l[a] = l[b] => a = b
  BY <1>1 DEF IsInjective
<1>3. \A a, b \in 1..m : s[a] = s[b] => a = b
  BY <1>1 DEF IsInjective
<1>4. \A a \in 1..n, b \in 1..m : l[a] # s[b]
  BY <1>1 DEF Range
<1> HIDE DEF n, m, r
<1>5. \A a \in 1..(n + m) : a \in 1..n \/ (a - n \in 1..m /\ ~(a <= n))
  <2> n \in Nat /\ m \in Nat
    BY <1>1
  <2> QED
    OBVIOUS
<1>6. ASSUME NEW a \in 1..(n + m), NEW b \in 1..(n + m), r[a] = r[b]
      PROVE  a = b
  <2>1. CASE a \in 1..n /\ b \in 1..n
    BY <1>1, <1>2, <1>6, <2>1
  <2>2. CASE a \in 1..n /\ b \notin 1..n
    BY <1>1, <1>4, <1>5, <1>6, <2>2
  <2>3. CASE a \notin 1..n /\ b \in 1..n
    BY <1>1, <1>4, <1>5, <1>6, <2>3
  <2>4. CASE a \notin 1..n /\ b \notin 1..n
    <3>1. a - n \in 1..m /\ b - n \in 1..m /\ r[a] = s[a - n] /\ r[b] = s[b - n]
      BY <1>1, <1>5, <2>4
    <3>2. a - n = b - n
      BY <1>3, <1>6, <3>1
    <3> QED
      BY <1>1, <3>2
  <2> QED
    BY <2>1, <2>2, <2>3, <2>4
<1>7. IsInjective(r)
  BY <1>1, <1>6 DEF IsInjective
<1>8. Range(r) = Range(l) \cup Range(s)
  <2>1. ASSUME NEW a \in 1..n
        PROVE  a \in 1..(n + m) /\ r[a] = l[a]
    BY <1>1
  <2>2. ASSUME NEW a \in 1..m
        PROVE  a + n \in 1..(n + m) /\ r[a + n] = s[a]
    <3>1. a + n \in 1..(n + m) /\ ~(a + n <= n) /\ (a + n) - n = a
      <4> n \in Nat /\ m \in Nat
        BY <1>1
      <4> QED
        OBVIOUS
    <3> QED
      BY <1>1, <3>1
  <2>3. ASSUME NEW a \in 1..(n + m)
        PROVE  r[a] \in Range(l) \cup Range(s)
    <3>1. CASE a \in 1..n
      BY <1>1, <2>1, <3>1 DEF Range
    <3>2. CASE a \notin 1..n
      <4> a - n \in 1..m /\ r[a] = s[a - n]
        BY <1>1, <1>5, <3>2
      <4> QED
        BY <1>1 DEF Range
    <3> QED
      BY <3>1, <3>2
  <2>4. Range(l) \subseteq Range(r)
    BY <1>1, <2>1 DEF Range
  <2>5. Range(s) \subseteq Range(r)
    <3> SUFFICES ASSUME NEW a \in 1..m
                 PROVE  s[a] \in Range(r)
      BY <1>1 DEF Range
    <3>1. a + n \in DOMAIN r /\ r[a + n] = s[a]
      BY <1>1, <2>2
    <3> QED
      BY <3>1 DEF Range
  <2>6. Range(r) \subseteq Range(l) \cup Range(s)
    BY <1>1, <2>3 DEF Range
  <2> QED
    BY <2>4, <2>5, <2>6
<1> QED
  BY <1>1, <1>7, <1>8 DEF r

LEMMA AppendedOne ==
  ASSUME NEW T, NEW l \in Seq(T), IsInjective(l), NEW x \in T, x \notin Range(l)
  PROVE  /\ Append(l, x) \in Seq(T) /\ IsInjective(Append(l, x))
         /\ Range(Append(l, x)) = Range(l) \cup {x}
<1> DEFINE s == <<x>>
<1>1. s \in Seq(T) /\ DOMAIN s = 1..1 /\ s[1] = x
  OBVIOUS
<1>2. Append(l, x) = l \o s
  OBVIOUS
<1> HIDE DEF s
<1>3. IsInjective(s) /\ Range(s) = {x}
  BY <1>1 DEF IsInjective, Range
<1> QED
  BY <1>1, <1>2, <1>3, AppendedList

-----------------------------------------------------------------------------
(* The CAs: the inductive invariant. *)

ConsoleTypeOK ==
  /\ leaves \in Seq(Cas) /\ IsInjective(leaves)
  /\ onChainCaLeaves \in Seq(Cas) /\ selectedCaLeaves \subseteq Range(onChainCaLeaves)
  /\ fetched \subseteq Seq(Cas)
  /\ caFiles \subseteq Cas /\ IsFiniteSet(caFiles)
  /\ modal \in Modals \cup {NoModal}
  /\ batch \in Batches \cup {NoBatch}
  /\ guideCalls \subseteq GuideCalls

\* A removal names the CAs of its rows, as they were on screen; a modal that has come
\* past its transaction has the hash of it.
AsShown ==
  /\ batch # NoBatch =>
       /\ Range(batch.indices) \subseteq DOMAIN batch.shown
       /\ batch.certs = {batch.shown[i] : i \in Range(batch.indices)}
  /\ modal # NoModal =>
       /\ modal.op = "remove-ca" => /\ modal.index \in DOMAIN modal.shown
                                    /\ modal.certs = {modal.shown[modal.index]}
       /\ modal.op = "add-ca" => IsFiniteSet(modal.certs)
       /\ modal.step \notin {"tx", "error"} => modal.txHash = TRUE

\* A CA whose guide may go: it was named by a removal and is off the list, unless that
\* removal met another list or the CA has been added again.
Released(c) == c \in named /\ (c \notin Range(leaves) \/ c \in misnamed \cup readded)

GuidesReleased ==
  /\ \A call \in guideCalls : call.op = "delete" => Released(call.ca)
  /\ modal # NoModal /\ modal.op = "remove-ca" /\ modal.txHash = TRUE =>
       \A c \in modal.certs : Released(c)

\* Between a mined transaction of the modal, which it may have taken for failed, and its
\* closing nothing reads the list.
ReadingIsCurrent ==
  /\ ~overlapped /\ ~outdated
  /\ modal = NoModal \/ (modal.txHash = FALSE /\ modal.step # "error")
  =>
    IF fetched = {} THEN onChainCaLeaves \in {leaves, << >>} ELSE fetched = {leaves}

ConsoleInv == ConsoleTypeOK /\ AsShown /\ GuidesReleased /\ ReadingIsCurrent

LEMMA ConsoleInitInv == ConsoleInit => ConsoleInv
<1> SUFFICES ASSUME ConsoleInit
             PROVE  ConsoleInv
  OBVIOUS
<1>1. leaves \in Seq(Cas) /\ IsInjective(leaves)
  BY AdminAssumption DEF ConsoleInit
<1>2. << >> \in Seq(Cas)
  OBVIOUS
<1>3. ConsoleTypeOK
  BY <1>1, <1>2, FS_EmptySet DEF ConsoleInit, ConsoleTypeOK
<1>4. AsShown /\ GuidesReleased /\ ReadingIsCurrent
  BY DEF ConsoleInit, AsShown, GuidesReleased, ReadingIsCurrent
<1> QED
  BY <1>3, <1>4 DEF ConsoleInv

-----------------------------------------------------------------------------
(* What the steps do to the contract's list. *)

\* removeCAs of the selection: the rows it was made from are those that go.
LEMMA BatchEffect ==
  ASSUME ConsoleTypeOK, AsShown, BatchConfirmed \/ BatchUnseen
  PROVE  /\ leaves' \in Seq(Cas) /\ IsInjective(leaves')
         /\ Range(leaves') \subseteq Range(leaves)
         /\ leaves = batch.shown => Range(leaves') = Range(leaves) \ batch.certs
<1> DEFINE indices == batch.indices
<1>1. batch \in Batches /\ batch # NoBatch
  BY DEF ConsoleTypeOK, BatchConfirmed, BatchUnseen
<1>2. indices \in Seq(Nat) /\ Range(indices) \subseteq DOMAIN batch.shown
  BY <1>1 DEF AsShown, Batches
<1>3. batch.shown \in Seq(Cas) /\ batch.certs = {batch.shown[i] : i \in Range(indices)}
  BY <1>1 DEF AsShown, Batches
<1>4. Descending(indices, Len(leaves))
  <2>1. Removable(indices)
    BY DEF BatchConfirmed, BatchUnseen
  <2>2. ASSUME NEW k \in DOMAIN indices
        PROVE  indices[k] \in 1..(Len(leaves) - k + 1)
    <3>1. indices[k] \in Range(indices)
      BY DEF Range
    <3>2. indices[k] \in 1..Len(batch.shown) /\ Len(batch.shown) \in Nat
      BY <1>2, <1>3, <3>1
    <3>3. indices[k] <= Len(leaves) - k + 1 /\ Len(leaves) \in Nat /\ k \in Nat
      BY <1>2, <2>1 DEF Removable, ConsoleTypeOK
    <3> HIDE DEF indices
    <3> QED
      BY <3>2, <3>3
  <2> QED
    BY <1>2, <2>1, <2>2 DEF Descending, Removable
<1>5. leaves' = RemoveRows(leaves, indices)
  BY DEF BatchConfirmed, BatchUnseen
<1> HIDE DEF indices
<1>6. /\ leaves' \in Seq(Cas) /\ IsInjective(leaves')
      /\ Range(leaves') = Range(leaves) \ {leaves[i] : i \in Range(indices)}
  BY <1>4, <1>5, RemoveRowsSound DEF ConsoleTypeOK
<1> QED
  BY <1>3, <1>6

\* The transaction of the modal: its files are added, or its row goes.
LEMMA ModalEffect ==
  ASSUME ConsoleTypeOK, AsShown, ModalTxConfirmed \/ ModalTxUnseen
  PROVE  /\ modal \in Modals
         /\ leaves' \in Seq(Cas) /\ IsInjective(leaves')
         /\ modal.op = "add-ca" =>
              Range(leaves') = Range(leaves) \cup modal.certs /\ Added(modal.certs)
         /\ modal.op = "remove-ca" =>
              /\ Range(leaves') \subseteq Range(leaves)
              /\ leaves = modal.shown => Range(leaves') = Range(leaves) \ modal.certs
<1>1. modal \in Modals /\ modal # NoModal
  BY DEF ConsoleTypeOK, ModalTxConfirmed, ModalTxUnseen, AtStep
<1>2. modal.op \in {"add-ca", "remove-ca"} /\ modal.certs \subseteq Cas
      /\ modal.shown \in Seq(Cas) /\ modal.index \in Nat
  BY <1>1 DEF Modals
<1>3. CASE modal.op = "add-ca"
  <2> DEFINE s == SetToSeq(modal.certs)
  <2>1. Addable(modal.certs) /\ leaves' = leaves \o s /\ Added(modal.certs)
    BY <1>3 DEF ModalTxConfirmed, ModalTxUnseen, AddsCas, RemovesCa
  <2>2. s \in Seq(modal.certs) /\ Range(s) = modal.certs /\ IsInjective(s)
    BY <1>1, <1>3, SetToSeqSound DEF AsShown
  <2> HIDE DEF s
  <2>3. s \in Seq(Cas)
    BY <1>2, <2>2
  <2>4. Range(leaves) \cap Range(s) = {}
    BY <2>1, <2>2 DEF Addable
  <2>5. /\ leaves' \in Seq(Cas) /\ IsInjective(leaves')
        /\ Range(leaves') = Range(leaves) \cup Range(s)
    BY <2>1, <2>2, <2>3, <2>4, AppendedList DEF ConsoleTypeOK
  <2> QED
    BY <1>1, <1>3, <2>1, <2>2, <2>5
<1>4. CASE modal.op = "remove-ca"
  <2> DEFINE i == modal.index
  <2>1. Removable(<<i>>) /\ leaves' = SwapAndPop(leaves, i)
    BY <1>4 DEF ModalTxConfirmed, ModalTxUnseen, AddsCas, RemovesCa
  <2>2. i \in DOMAIN modal.shown /\ modal.certs = {modal.shown[i]}
    BY <1>1, <1>4 DEF AsShown
  <2>3. i \in DOMAIN leaves
    <3>1. DOMAIN <<i>> = 1..1 /\ <<i>>[1] = i
      OBVIOUS
    <3>2. i <= Len(leaves) - 1 + 1
      BY <2>1, <3>1 DEF Removable
    <3>3. i \in 1..Len(modal.shown) /\ Len(modal.shown) \in Nat
      BY <1>2, <2>2
    <3>4. Len(leaves) \in Nat /\ DOMAIN leaves = 1..Len(leaves)
      BY DEF ConsoleTypeOK
    <3> HIDE DEF i
    <3> QED
      BY <3>2, <3>3, <3>4
  <2> HIDE DEF i
  <2>4. /\ leaves' \in Seq(Cas) /\ IsInjective(leaves')
        /\ Range(leaves') = Range(leaves) \ {leaves[i]}
    BY <2>1, <2>3, SwapAndPopSound DEF ConsoleTypeOK
  <2> QED
    BY <1>1, <1>4, <2>2, <2>4
<1> QED
  BY <1>2, <1>3, <1>4

\* In the other session one CA comes, or one goes.
LEMMA ElsewhereEffect ==
  ASSUME ConsoleTypeOK, ChangeElsewhere
  PROVE  /\ leaves' \in Seq(Cas) /\ IsInjective(leaves')
         /\ \/ \E c \in Cas : Range(leaves') = Range(leaves) \cup {c} /\ Added({c})
            \/ Range(leaves') \subseteq Range(leaves) /\ UNCHANGED historyVars
<1>1. CASE \E c \in Cas : Addable({c}) /\ leaves' = Append(leaves, c) /\ Added({c})
  <2>1. PICK c \in Cas : Addable({c}) /\ leaves' = Append(leaves, c) /\ Added({c})
    BY <1>1
  <2>2. c \notin Range(leaves)
    BY <2>1 DEF Addable
  <2>3. /\ leaves' \in Seq(Cas) /\ IsInjective(leaves')
        /\ Range(leaves') = Range(leaves) \cup {c}
    BY <2>1, <2>2, AppendedOne DEF ConsoleTypeOK
  <2> QED
    BY <2>1, <2>3
<1>2. CASE \E i \in DOMAIN leaves : leaves' = SwapAndPop(leaves, i) /\ UNCHANGED historyVars
  <2>1. PICK i \in DOMAIN leaves : leaves' = SwapAndPop(leaves, i) /\ UNCHANGED historyVars
    BY <1>2
  <2>2. /\ leaves' \in Seq(Cas) /\ IsInjective(leaves')
        /\ Range(leaves') = Range(leaves) \ {leaves[i]}
    BY <2>1, SwapAndPopSound DEF ConsoleTypeOK
  <2> QED
    BY <2>1, <2>2
<1> QED
  BY <1>1, <1>2 DEF ChangeElsewhere

-----------------------------------------------------------------------------
(* The CAs: every step keeps the invariant. *)

\* handleRemoveSelected: the indices are the rows of the selected CAs.
LEMMA RowsSelected ==
  ASSUME ConsoleTypeOK
  PROVE  /\ Keep(RowsDown, SelectedRows) \in Seq(Nat)
         /\ Range(Keep(RowsDown, SelectedRows)) = SelectedRows
         /\ SelectedRows \subseteq DOMAIN onChainCaLeaves
         /\ selectedCaLeaves = {onChainCaLeaves[i] : i \in SelectedRows}
<1> DEFINE l == onChainCaLeaves
           n == Len(l)
           r == RowsDown
<1>1. l \in Seq(Cas) /\ n \in Nat /\ DOMAIN l = 1..n
  BY DEF ConsoleTypeOK
<1>2. r = [k \in 1..n |-> n + 1 - k]
  BY <1>1 DEF RowsDown
<1> HIDE DEF r, n
<1>3. r \in Seq(Nat) /\ DOMAIN r = 1..n /\ \A k \in 1..n : r[k] = n + 1 - k
  BY <1>1, <1>2
<1>4. Range(r) = 1..n
  <2>1. ASSUME NEW i \in 1..n
        PROVE  i \in Range(r)
    <3>1. n + 1 - i \in 1..n /\ n + 1 - (n + 1 - i) = i
      BY <1>1
    <3>2. r[n + 1 - i] = i
      BY <1>3, <3>1
    <3> QED
      BY <1>3, <3>1, <3>2 DEF Range
  <2>2. ASSUME NEW k \in 1..n
        PROVE  r[k] \in 1..n
    BY <1>1, <1>3
  <2> QED
    BY <1>3, <2>1, <2>2 DEF Range
<1>5. SelectedRows = {i \in 1..n : l[i] \in selectedCaLeaves}
  BY <1>1 DEF SelectedRows
<1>6. Keep(r, SelectedRows) \in Seq(Nat) /\ Range(Keep(r, SelectedRows)) = Range(r) \cap SelectedRows
  BY <1>3, KeepSound
<1>7. selectedCaLeaves = {l[i] : i \in SelectedRows}
  <2> selectedCaLeaves \subseteq {l[i] : i \in 1..n}
    BY <1>1 DEF ConsoleTypeOK, Range
  <2> HIDE DEF l
  <2> QED
    BY <1>5
<1> QED
  BY <1>1, <1>4, <1>5, <1>6, <1>7 DEF r

LEMMA ConsoleTypeStep ==
  ASSUME ConsoleInv, ConsoleNext
  PROVE  ConsoleTypeOK'
<1> USE DEF ConsoleInv
<1> DEFINE Lists == /\ leaves' \in Seq(Cas) /\ IsInjective(leaves')
                    /\ onChainCaLeaves' \in Seq(Cas)
                    /\ selectedCaLeaves' \subseteq Range(onChainCaLeaves')
                    /\ fetched' \subseteq Seq(Cas)
           Waiting == caFiles' \subseteq Cas /\ IsFiniteSet(caFiles')
           OnWay == /\ modal' \in Modals \cup {NoModal} /\ batch' \in Batches \cup {NoBatch}
                    /\ guideCalls' \subseteq GuideCalls
<1>0. Lists /\ Waiting /\ OnWay => ConsoleTypeOK'
  BY DEF ConsoleTypeOK
<1> USE DEF listVars, fetchVars, guideVars, Fetch
<1>1. CASE Refresh \/ Refreshed
  BY <1>0, <1>1 DEF Refresh, Refreshed, ConsoleTypeOK
<1>2. CASE AddAllCas
  <2> DEFINE new == caFiles \ Range(onChainCaLeaves)
  <2>1. Open("add-ca", new, 0) /\ new \subseteq Cas
    BY <1>2 DEF AddAllCas, ConsoleTypeOK
  <2> HIDE DEF new
  <2>2. modal' \in Modals
    BY <2>1 DEF Open, Modals, ConsoleTypeOK
  <2> QED
    BY <1>0, <2>1, <2>2 DEF Open, ConsoleTypeOK
<1>3. CASE RemoveSelected
  <2> DEFINE k == Keep(RowsDown, SelectedRows)
  <2>1. k \in Seq(Nat)
    BY RowsSelected
  <2>2. batch' = [indices |-> k, certs |-> selectedCaLeaves, shown |-> onChainCaLeaves]
    BY <1>3 DEF RemoveSelected
  <2> HIDE DEF k
  <2>3. selectedCaLeaves \subseteq Cas
    <3> Range(onChainCaLeaves) \subseteq Cas
      BY DEF ConsoleTypeOK, Range
    <3> QED
      BY DEF ConsoleTypeOK
  <2>4. batch' \in Batches
    BY <2>1, <2>2, <2>3 DEF Batches, ConsoleTypeOK
  <2> QED
    BY <1>0, <1>3, <2>4 DEF RemoveSelected, ConsoleTypeOK
<1>4. CASE ChangeElsewhere
  <2>1. leaves' \in Seq(Cas) /\ IsInjective(leaves')
    BY <1>4, ElsewhereEffect
  <2> QED
    BY <1>0, <1>4, <2>1 DEF ChangeElsewhere, ConsoleTypeOK
<1>5. CASE BatchConfirmed
  <2>1. leaves' \in Seq(Cas) /\ IsInjective(leaves')
    BY <1>5, BatchEffect
  <2>2. batch.certs \subseteq Cas
    BY <1>5 DEF BatchConfirmed, ConsoleTypeOK, Batches
  <2>3. DeleteAll(batch.certs) \subseteq GuideCalls
    BY <2>2 DEF DeleteAll, GuideCalls
  <2> QED
    BY <1>0, <1>5, <2>1, <2>3 DEF BatchConfirmed, AfterRemoval, ConsoleTypeOK
<1>6. CASE BatchFailed
  BY <1>0, <1>6 DEF BatchFailed, ConsoleTypeOK
<1>15. CASE BatchUnseen
  <2>1. leaves' \in Seq(Cas) /\ IsInjective(leaves')
    BY <1>15, BatchEffect
  <2> QED
    BY <1>0, <1>15, <2>1 DEF BatchUnseen, ConsoleTypeOK
<1>7. CASE ModalTxConfirmed \/ ModalTxUnseen
  <2>1. leaves' \in Seq(Cas) /\ IsInjective(leaves') /\ modal \in Modals
    BY <1>7, ModalEffect
  <2>2. modal' \in Modals
    BY <1>7, <2>1 DEF ModalTxConfirmed, ModalTxUnseen, GoStep, Modals
  <2> QED
    BY <1>0, <1>7, <2>1, <2>2 DEF ModalTxConfirmed, ModalTxUnseen, ConsoleTypeOK
<1>8. CASE ModalTxFailed \/ Sign \/ CreatePr
  <2>1. modal \in Modals
    BY <1>8 DEF ModalTxFailed, Sign, CreatePr, AtStep, ConsoleTypeOK
  <2>2. \E step \in {"git", "error", "done", "partial"} : GoStep(step)
    BY <1>8 DEF ModalTxFailed, Sign, CreatePr
  <2>3. modal' \in Modals
    BY <2>1, <2>2 DEF GoStep, Modals
  <2> QED
    BY <1>0, <1>8, <2>3 DEF ModalTxFailed, Sign, CreatePr, ConsoleTypeOK
<1>9. CASE Close
  <2>1. modal \in Modals
    BY <1>9 DEF Close, AtStep, ConsoleTypeOK
  <2>2. modal.certs \subseteq Cas
    BY <2>1 DEF Modals
  <2>3. guideCalls' \subseteq GuideCalls
    BY <1>9, <2>2 DEF Close, Synced, PutAll, DeleteAll, GuideCalls, ConsoleTypeOK
  <2>4. caFiles' \subseteq caFiles
    BY <1>9 DEF Close
  <2>5. Waiting
    BY <2>4, FS_Subset DEF ConsoleTypeOK
  <2> QED
    BY <1>0, <1>9, <2>3, <2>5 DEF Close, ConsoleTypeOK
<1>10. CASE \E list \in fetched : FetchAnswered(list)
  <2> << >> \in Seq(Cas)
    OBVIOUS
  <2> QED
    BY <1>0, <1>10 DEF FetchAnswered, SelectionAfter, ConsoleTypeOK
<1>11. CASE \E c \in Cas : ToggleSelect(c)
  BY <1>0, <1>11 DEF ToggleSelect, SymDiff, ConsoleTypeOK
<1>12. CASE \E c \in Files : AddFile(c) \/ RemoveFile(c)
  <2>1. PICK c \in Files : AddFile(c) \/ RemoveFile(c)
    BY <1>12
  <2>2. caFiles' \in {caFiles \cup {c}, caFiles \ {c}}
    BY <2>1 DEF AddFile, RemoveFile
  <2>3. IsFiniteSet(caFiles \cup {c}) /\ IsFiniteSet(caFiles \ {c})
    BY FS_AddElement, FS_RemoveElement DEF ConsoleTypeOK
  <2>4. Waiting
    BY <2>2, <2>3, AdminAssumption DEF ConsoleTypeOK
  <2> QED
    BY <1>0, <2>1, <2>4 DEF AddFile, RemoveFile, ConsoleTypeOK
<1>13. CASE \E i \in 1..Cardinality(Cas) : RemoveCaRow(i)
  <2>1. PICK i : i \in DOMAIN onChainCaLeaves /\ Open("remove-ca", {onChainCaLeaves[i]}, i)
    BY <1>13 DEF RemoveCaRow
  <2>2. onChainCaLeaves[i] \in Cas /\ i \in Nat
    BY <2>1 DEF ConsoleTypeOK
  <2>3. modal' \in Modals
    BY <2>1, <2>2 DEF Open, Modals, ConsoleTypeOK
  <2> QED
    BY <1>0, <2>1, <2>3 DEF Open, ConsoleTypeOK
<1>14. CASE \E call \in GuideCalls : GuideCallDone(call)
  BY <1>0, <1>14 DEF GuideCallDone, ConsoleTypeOK
<1> QED
  BY <1>1, <1>2, <1>3, <1>4, <1>5, <1>6, <1>7, <1>8, <1>9, <1>10, <1>11, <1>12, <1>13,
     <1>14, <1>15 DEF ConsoleNext

LEMMA AsShownStep ==
  ASSUME ConsoleInv, ConsoleNext
  PROVE  AsShown'
<1> USE DEF ConsoleInv
<1> DEFINE BatchShown == batch # NoBatch =>
             /\ Range(batch.indices) \subseteq DOMAIN batch.shown
             /\ batch.certs = {batch.shown[i] : i \in Range(batch.indices)}
           ModalShown == modal # NoModal =>
             /\ modal.op = "remove-ca" => /\ modal.index \in DOMAIN modal.shown
                                          /\ modal.certs = {modal.shown[modal.index]}
             /\ modal.op = "add-ca" => IsFiniteSet(modal.certs)
             /\ modal.step \notin {"tx", "error"} => modal.txHash = TRUE
<1>1. BatchShown /\ ModalShown
  BY DEF AsShown
<1>2. AsShown' <=> BatchShown' /\ ModalShown'
  BY DEF AsShown
<1>3. UNCHANGED batch => BatchShown'
  BY <1>1
<1>4. UNCHANGED modal => ModalShown'
  BY <1>1
<1> HIDE DEF BatchShown, ModalShown
<1>5. CASE UNCHANGED <<batch, modal>>
  BY <1>2, <1>3, <1>4, <1>5
<1>6. CASE AddAllCas
  <2> DEFINE new == caFiles \ Range(onChainCaLeaves)
  <2>1. Open("add-ca", new, 0)
    BY <1>6 DEF AddAllCas
  <2>2. IsFiniteSet(new)
    <3> new \subseteq caFiles
      OBVIOUS
    <3> QED
      BY FS_Subset DEF ConsoleTypeOK
  <2> HIDE DEF new
  <2>3. modal'.op = "add-ca" /\ modal'.certs = new /\ modal'.step = "tx" /\ UNCHANGED batch
    BY <2>1 DEF Open
  <2> QED
    BY <1>2, <1>3, <2>2, <2>3 DEF ModalShown
<1>7. CASE RemoveSelected
  <2> DEFINE k == Keep(RowsDown, SelectedRows)
  <2>1. /\ batch'.indices = k /\ batch'.certs = selectedCaLeaves
        /\ batch'.shown = onChainCaLeaves /\ UNCHANGED modal
    BY <1>7 DEF RemoveSelected
  <2>2. /\ Range(k) = SelectedRows /\ SelectedRows \subseteq DOMAIN onChainCaLeaves
        /\ selectedCaLeaves = {onChainCaLeaves[i] : i \in SelectedRows}
    BY RowsSelected
  <2> HIDE DEF k
  <2>3. BatchShown'
    BY <2>1, <2>2 DEF BatchShown
  <2> QED
    BY <1>2, <1>4, <2>1, <2>3
<1>8. CASE BatchConfirmed \/ BatchUnseen \/ BatchFailed
  <2> batch' = NoBatch /\ UNCHANGED modal
    BY <1>8 DEF BatchConfirmed, BatchUnseen, BatchFailed
  <2> QED
    BY <1>2, <1>4 DEF BatchShown
<1>9. CASE ModalTxConfirmed
  <2>1. modal \in Modals /\ modal # NoModal /\ UNCHANGED batch
    BY <1>9 DEF ModalTxConfirmed, AtStep, ConsoleTypeOK
  <2>2. /\ modal'.op = modal.op /\ modal'.index = modal.index /\ modal'.shown = modal.shown
        /\ modal'.certs = modal.certs /\ modal'.txHash = TRUE
    BY <1>9, <2>1 DEF ModalTxConfirmed, Modals
  <2> QED
    BY <1>1, <1>2, <1>3, <2>1, <2>2 DEF ModalShown
<1>10. CASE ModalTxUnseen \/ ModalTxFailed \/ Sign \/ CreatePr
  <2>1. modal \in Modals /\ modal # NoModal /\ UNCHANGED batch
    BY <1>10 DEF ModalTxUnseen, ModalTxFailed, Sign, CreatePr, AtStep, ConsoleTypeOK
  <2>2. PICK step : GoStep(step) /\ (step = "error" \/ modal.step \notin {"tx", "error"})
    BY <1>10 DEF ModalTxUnseen, ModalTxFailed, Sign, CreatePr, AtStep
  <2>3. /\ modal'.op = modal.op /\ modal'.index = modal.index /\ modal'.shown = modal.shown
        /\ modal'.certs = modal.certs /\ modal'.txHash = modal.txHash /\ modal'.step = step
    BY <2>1, <2>2 DEF GoStep, Modals
  <2> QED
    BY <1>1, <1>2, <1>3, <2>1, <2>2, <2>3 DEF ModalShown
<1>11. CASE Close
  <2> modal' = NoModal /\ UNCHANGED batch
    BY <1>11 DEF Close
  <2> QED
    BY <1>2, <1>3 DEF ModalShown
<1>12. CASE \E i \in 1..Cardinality(Cas) : RemoveCaRow(i)
  <2>1. PICK i : i \in DOMAIN onChainCaLeaves /\ Open("remove-ca", {onChainCaLeaves[i]}, i)
    BY <1>12 DEF RemoveCaRow
  <2>2. /\ modal'.op = "remove-ca" /\ modal'.certs = {onChainCaLeaves[i]}
        /\ modal'.index = i /\ modal'.shown = onChainCaLeaves /\ modal'.step = "tx"
        /\ UNCHANGED batch
    BY <2>1 DEF Open
  <2> QED
    BY <1>2, <1>3, <2>1, <2>2 DEF ModalShown
<1> QED
  BY <1>5, <1>6, <1>7, <1>8, <1>9, <1>10, <1>11, <1>12 DEF ConsoleNext, Refresh, Refreshed,
     ChangeElsewhere, FetchAnswered, ToggleSelect, AddFile, RemoveFile, GuideCallDone

\* A CA that is released stays so, whatever happens to the list and to the histories.
LEMMA ReleasedStays ==
  ASSUME ConsoleInv, ConsoleNext, NEW c, Released(c)
  PROVE  Released(c)'
<1> USE DEF ConsoleInv
<1>1. CASE UNCHANGED <<leaves, historyVars>>
  BY <1>1 DEF Released, historyVars
<1>2. CASE ChangeElsewhere
  <2>1. CASE \E d \in Cas : Range(leaves') = Range(leaves) \cup {d} /\ Added({d})
    BY <2>1 DEF Released, Added
  <2>2. CASE Range(leaves') \subseteq Range(leaves) /\ UNCHANGED historyVars
    BY <2>2 DEF Released, historyVars
  <2> QED
    BY <1>2, <2>1, <2>2, ElsewhereEffect
<1>3. CASE BatchConfirmed
  <2>1. Range(leaves') \subseteq Range(leaves)
    BY <1>3, BatchEffect
  <2>2. named \subseteq named' /\ misnamed \subseteq misnamed' /\ readded' = readded
    BY <1>3 DEF BatchConfirmed, Named
  <2> QED
    BY <2>1, <2>2 DEF Released
<1>5. CASE BatchUnseen
  <2> Range(leaves') \subseteq Range(leaves) /\ UNCHANGED historyVars
    BY <1>5, BatchEffect DEF BatchUnseen
  <2> QED
    BY DEF Released, historyVars
<1>4. CASE ModalTxConfirmed \/ ModalTxUnseen
  <2>1. CASE modal.op = "add-ca"
    <3>1. Range(leaves') = Range(leaves) \cup modal.certs /\ Added(modal.certs)
      BY <1>4, <2>1, ModalEffect
    <3> QED
      BY <3>1 DEF Released, Added
  <2>2. CASE modal.op = "remove-ca"
    <3>1. Range(leaves') \subseteq Range(leaves)
      BY <1>4, <2>2, ModalEffect
    <3>2. named \subseteq named' /\ misnamed \subseteq misnamed' /\ readded' = readded
      BY <1>4, <2>2
      DEF ModalTxConfirmed, ModalTxUnseen, AddsCas, RemovesCa, Named, historyVars
    <3> QED
      BY <3>1, <3>2 DEF Released
  <2>3. modal.op \in {"add-ca", "remove-ca"}
    BY <1>4, ModalEffect DEF Modals
  <2> QED
    BY <2>1, <2>2, <2>3
<1> QED
  BY <1>1, <1>2, <1>3, <1>4, <1>5 DEF ConsoleNext, Refresh, Refreshed, AddAllCas, Open,
     RemoveSelected, BatchFailed, ModalTxFailed, Sign, CreatePr, Close, FetchAnswered,
     ToggleSelect, AddFile, RemoveFile, RemoveCaRow, GuideCallDone

LEMMA GuidesStep ==
  ASSUME ConsoleInv, ConsoleNext
  PROVE  GuidesReleased'
<1> USE DEF ConsoleInv
<1> DEFINE Removes == modal # NoModal /\ modal.op = "remove-ca" /\ modal.txHash = TRUE
<1>1. \A c : Released(c) => Released(c)'
  BY ReleasedStays
<1>2. ASSUME \A call \in guideCalls' :
               call \in guideCalls \/ (call.op = "delete" => Released(call.ca)'),
             Removes' => \/ Removes /\ modal'.certs = modal.certs
                         \/ \A c \in modal'.certs : Released(c)'
      PROVE  GuidesReleased'
  BY <1>1, <1>2 DEF GuidesReleased
<1>3. CASE UNCHANGED <<guideCalls, modal>>
  BY <1>1, <1>3 DEF GuidesReleased
<1>4. CASE AddAllCas \/ \E i \in 1..Cardinality(Cas) : RemoveCaRow(i)
  <2> modal'.txHash = FALSE /\ guideCalls' = guideCalls
    BY <1>4 DEF AddAllCas, RemoveCaRow, Open, guideVars
  <2> QED
    BY <1>2
<1>5. CASE BatchConfirmed
  <2>1. ASSUME NEW c \in batch.certs
        PROVE  Released(c)'
    <3>1. leaves = batch.shown => Range(leaves') = Range(leaves) \ batch.certs
      BY <1>5, BatchEffect
    <3>2. Named(batch)
      BY <1>5 DEF BatchConfirmed
    <3> QED
      BY <3>1, <3>2 DEF Released, Named
  <2>2. guideCalls' = guideCalls \cup DeleteAll(batch.certs) /\ UNCHANGED modal
    BY <1>5 DEF BatchConfirmed
  <2>3. \A call \in DeleteAll(batch.certs) : call.ca \in batch.certs
    BY DEF DeleteAll
  <2>4. \A call \in guideCalls' :
          call \in guideCalls \/ (call.op = "delete" => Released(call.ca)')
    BY <2>1, <2>2, <2>3
  <2> QED
    BY <1>2, <2>2, <2>4
<1>6. CASE ModalTxConfirmed
  <2>1. modal \in Modals
    BY <1>6, ModalEffect
  <2>2. modal'.op = modal.op /\ modal'.certs = modal.certs /\ guideCalls' = guideCalls
    BY <1>6, <2>1 DEF ModalTxConfirmed, Modals, guideVars
  <2>3. ASSUME modal.op = "remove-ca", NEW c \in modal.certs
        PROVE  Released(c)'
    <3>1. leaves = modal.shown => Range(leaves') = Range(leaves) \ modal.certs
      BY <1>6, <2>3, ModalEffect
    <3>2. Named(modal)
      BY <1>6, <2>3 DEF ModalTxConfirmed, AddsCas, RemovesCa
    <3> QED
      BY <3>1, <3>2 DEF Released, Named
  <2> QED
    BY <1>2, <2>2, <2>3
<1>7. CASE ModalTxUnseen \/ ModalTxFailed \/ Sign \/ CreatePr
  <2>1. modal \in Modals /\ modal # NoModal /\ guideCalls' = guideCalls
    BY <1>7
    DEF ModalTxUnseen, ModalTxFailed, Sign, CreatePr, AtStep, ConsoleTypeOK, guideVars
  <2>2. PICK step : GoStep(step)
    BY <1>7 DEF ModalTxUnseen, ModalTxFailed, Sign, CreatePr
  <2>3. modal'.op = modal.op /\ modal'.certs = modal.certs /\ modal'.txHash = modal.txHash
    BY <2>1, <2>2 DEF GoStep, Modals
  <2> QED
    BY <1>2, <2>1, <2>3
<1>8. CASE Close
  <2>1. modal \in Modals /\ modal # NoModal /\ modal' = NoModal
    BY <1>8 DEF Close, AtStep, ConsoleTypeOK
  <2>2. PICK txSuccess \in Reported : guideCalls' = guideCalls \cup Synced(txSuccess)
    BY <1>8 DEF Close
  <2>3. txSuccess = TRUE => modal.txHash = TRUE
    <3>1. CASE modal.step = "error"
      BY <2>1, <3>1 DEF Reported, Modals
    <3>2. CASE modal.step # "error"
      <4> modal.step \in {"done", "partial"}
        BY <1>8, <3>2 DEF Close, AtStep
      <4> QED
        BY <2>1 DEF AsShown
    <3> QED
      BY <3>1, <3>2
  <2>4. txSuccess \in BOOLEAN
    BY <2>1, <2>2 DEF Reported, Modals
  <2>5. ASSUME NEW call \in Synced(txSuccess), call.op = "delete"
        PROVE  Released(call.ca)'
    <3>1. modal.op # "add-ca" /\ txSuccess = TRUE
      BY <2>4, <2>5 DEF Synced, PutAll
    <3>2. modal.op = "remove-ca" /\ call.ca \in modal.certs
      BY <2>1, <2>5, <3>1 DEF Synced, DeleteAll, Modals
    <3> QED
      BY <1>1, <2>1, <2>3, <3>1, <3>2 DEF GuidesReleased
  <2> QED
    BY <1>2, <2>1, <2>2, <2>5
<1>9. CASE \E call \in GuideCalls : GuideCallDone(call)
  <2> guideCalls' \subseteq guideCalls /\ UNCHANGED modal
    BY <1>9 DEF GuideCallDone
  <2> QED
    BY <1>2
<1> QED
  BY <1>3, <1>4, <1>5, <1>6, <1>7, <1>8, <1>9 DEF ConsoleNext, Refresh, Refreshed,
     RemoveSelected, BatchUnseen, BatchFailed, ChangeElsewhere, FetchAnswered, ToggleSelect,
     AddFile, RemoveFile, guideVars

LEMMA ReadingStep ==
  ASSUME ConsoleInv, ConsoleNext
  PROVE  ReadingIsCurrent'
<1> USE DEF ConsoleInv
<1> DEFINE NoneMined == modal = NoModal \/ (modal.txHash = FALSE /\ modal.step # "error")
<1>1. ReadingIsCurrent => (~overlapped /\ ~outdated /\ NoneMined =>
        IF fetched = {} THEN onChainCaLeaves \in {leaves, << >>} ELSE fetched = {leaves})
  BY DEF ReadingIsCurrent
<1>2. ASSUME UNCHANGED <<leaves, onChainCaLeaves, fetched, overlapped, outdated>>,
             NoneMined' => NoneMined
      PROVE  ReadingIsCurrent'
  BY <1>1, <1>2 DEF ReadingIsCurrent
<1>3. ASSUME Fetch(leaves')
      PROVE  ReadingIsCurrent'
  BY <1>3 DEF Fetch, ReadingIsCurrent
<1> USE DEF listVars, fetchVars
<1>4. CASE Refresh \/ Refreshed \/ BatchConfirmed \/ Close
  <2> Fetch(leaves')
    BY <1>4 DEF Refresh, Refreshed, BatchConfirmed, AfterRemoval, Close
  <2> QED
    BY <1>3
<1>5. CASE AddAllCas \/ \E i \in 1..Cardinality(Cas) : RemoveCaRow(i)
  <2> modal = NoModal /\ UNCHANGED <<leaves, onChainCaLeaves, fetched, overlapped, outdated>>
    BY <1>5 DEF AddAllCas, RemoveCaRow, Open
  <2> QED
    BY <1>2
<1>6. CASE ChangeElsewhere
  BY <1>6 DEF ChangeElsewhere, ReadingIsCurrent
<1>7. CASE ModalTxConfirmed
  <2>1. modal \in Modals
    BY <1>7, ModalEffect
  <2>2. modal' \in Modals /\ modal'.txHash = TRUE
    BY <1>7, <2>1 DEF ModalTxConfirmed, Modals
  <2>3. modal' # NoModal
    BY <2>2, AdminAssumption
  <2> QED
    BY <2>2, <2>3 DEF ReadingIsCurrent
<1>10. CASE ModalTxUnseen
  <2>1. modal \in Modals
    BY <1>10, ModalEffect
  <2>2. modal' \in Modals /\ modal'.step = "error"
    BY <1>10, <2>1 DEF ModalTxUnseen, GoStep, Modals
  <2>3. modal' # NoModal
    BY <2>2, AdminAssumption
  <2> QED
    BY <2>2, <2>3 DEF ReadingIsCurrent
<1>11. CASE BatchUnseen
  BY <1>11 DEF BatchUnseen, ReadingIsCurrent
<1>8. CASE ModalTxFailed \/ Sign \/ CreatePr
  <2>1. /\ modal \in Modals /\ modal.step # "error"
        /\ UNCHANGED <<leaves, onChainCaLeaves, fetched, overlapped, outdated>>
    BY <1>8 DEF ModalTxFailed, Sign, CreatePr, AtStep, ConsoleTypeOK
  <2>2. \E step \in {"git", "error", "done", "partial"} : GoStep(step)
    BY <1>8 DEF ModalTxFailed, Sign, CreatePr
  <2>3. modal' \in Modals /\ modal'.txHash = modal.txHash
    BY <2>1, <2>2 DEF GoStep, Modals
  <2>4. modal' # NoModal
    BY <2>3, AdminAssumption
  <2> QED
    BY <1>2, <2>1, <2>3, <2>4
<1>9. CASE \E list \in fetched : FetchAnswered(list)
  <2>1. PICK list \in fetched : FetchAnswered(list)
    BY <1>9
  <2>2. /\ UNCHANGED <<leaves, overlapped, outdated, modal>> /\ fetched' = fetched \ {list}
        /\ onChainCaLeaves' \in {list, << >>}
    BY <2>1 DEF FetchAnswered
  <2>3. ReadingIsCurrent /\ list \in fetched
    BY <2>1
  <2> QED
    BY <2>2, <2>3 DEF ReadingIsCurrent
<1> QED
  BY <1>2, <1>4, <1>5, <1>6, <1>7, <1>8, <1>9, <1>10, <1>11
  DEF ConsoleNext, RemoveSelected, BatchFailed, ToggleSelect, AddFile, RemoveFile, GuideCallDone

THEOREM ConsoleInvariance == ConsoleSpec => []ConsoleInv
<1>1. ASSUME ConsoleInv, [ConsoleNext]_consoleVars
      PROVE  ConsoleInv'
  <2>1. CASE ConsoleNext
    BY <1>1, <2>1, ConsoleTypeStep, AsShownStep, GuidesStep, ReadingStep DEF ConsoleInv
  <2>2. CASE UNCHANGED consoleVars
    BY <1>1, <2>2 DEF ConsoleInv, consoleVars, listVars, fetchVars, guideVars, historyVars,
       ConsoleTypeOK, AsShown, GuidesReleased, Released, ReadingIsCurrent
  <2> QED
    BY <1>1, <2>1, <2>2
<1> QED
  BY ConsoleInitInv, <1>1, PTL DEF ConsoleSpec

-----------------------------------------------------------------------------
(* The parts of the console, and what they promise. *)

\* A behaviour of the pages is one of the CA management, one of the forms and one of the
\* page that deploys.
LEMMA PagesAreParts == OwnerSpec => ConsoleSpec /\ FormSpec /\ CreateSpec
<1>1. OwnerInit => ConsoleInit /\ FormInit /\ CreateInit
  BY DEF OwnerInit
<1>2. [CasStep \/ SettingsStep \/ CreateStep]_ownerVars =>
        [ConsoleNext]_consoleVars /\ [FormNext]_formsVars /\ [CreateNext]_createVars
  BY DEF CasStep, SettingsStep, CreateStep, ownerVars
<1> QED
  BY <1>1, <1>2, PTL DEF OwnerSpec, ConsoleSpec, FormSpec, CreateSpec

\* handleRemoveCa, handleRemoveSelected: for any list and any selection of its rows, a
\* removal that meets the list it was made from takes the CAs it names and no others, also
\* when its confirmation is lost.
THEOREM RemovalsHitNamedHolds == OwnerSpec => RemovalsHitNamed
<1>1. ASSUME ConsoleInv
      PROVE  /\ (BatchConfirmed \/ BatchUnseen) /\ leaves = batch.shown =>
                  Range(leaves') = Range(leaves) \ batch.certs
             /\ (ModalTxConfirmed \/ ModalTxUnseen) /\ modal.op = "remove-ca"
                   /\ leaves = modal.shown =>
                  Range(leaves') = Range(leaves) \ modal.certs
  BY <1>1, BatchEffect, ModalEffect DEF ConsoleInv
<1> QED
  BY <1>1, ConsoleInvariance, PagesAreParts, PTL DEF RemovalsHitNamed

\* onClose of the modal and the removal of the selection: for any number of calls on
\* their way, a guide that is deleted is that of a CA that was removed, unless the
\* removal met another list or the CA has been added again before the call arrived.
THEOREM GuideOfListedCaKeptHolds == OwnerSpec => GuideOfListedCaKept
<1>1. ASSUME ConsoleInv, [ConsoleNext]_consoleVars
      PROVE  [\A c \in guides \ guides' :
                c \notin Range(leaves) \/ c \in misnamed \cup readded]_consoleVars
  <2> SUFFICES ASSUME ConsoleNext, NEW c \in guides \ guides'
               PROVE  c \notin Range(leaves) \/ c \in misnamed \cup readded
    BY <1>1
  <2>1. CASE \E call \in GuideCalls : GuideCallDone(call)
    <3>1. PICK call \in GuideCalls : GuideCallDone(call)
      BY <2>1
    <3>2. call \in guideCalls /\ call.op = "delete" /\ call.ca = c
      BY <3>1 DEF GuideCallDone, GuideCalls
    <3> QED
      BY <1>1, <3>2 DEF ConsoleInv, GuidesReleased, Released
  <2>2. CASE ~\E call \in GuideCalls : GuideCallDone(call)
    <3> guides' = guides
      BY <2>2 DEF ConsoleNext, Refresh, Refreshed, AddAllCas, RemoveSelected,
         ChangeElsewhere, BatchConfirmed, BatchUnseen, BatchFailed, ModalTxConfirmed,
         ModalTxUnseen, ModalTxFailed, Sign, CreatePr, Close, FetchAnswered, ToggleSelect, AddFile, RemoveFile,
         RemoveCaRow, Open, guideVars
    <3> QED
      OBVIOUS
  <2> QED
    BY <2>1, <2>2
<1> QED
  BY <1>1, ConsoleInvariance, PagesAreParts, PTL DEF GuideOfListedCaKept, ConsoleSpec

\* fetchCaLeaves: with nothing on its way the list on screen is the contract's (or none,
\* after a failed reading), unless readings crossed, another session changed the list or a
\* removal of the selection was mined that the console took for failed.
THEOREM ListCatchesUpHolds == OwnerSpec => []ListCatchesUp
<1>1. ConsoleInv => ListCatchesUp
  BY DEF ConsoleInv, ReadingIsCurrent, ListCatchesUp
<1> QED
  BY <1>1, ConsoleInvariance, PagesAreParts, PTL

-----------------------------------------------------------------------------
(* The forms: the inductive invariant. *)

Storable == IF form = "announcements" THEN SUBSET Ids ELSE [Fields -> Values]
Filling == [Fields -> Values \cup {Unknown}]

FormTypeOK ==
  /\ form \in Forms /\ stored \in Storable
  /\ input \in Filling /\ base \in Filling /\ touched \subseteq Fields
  /\ form # "maxProofAge" => input \in [Fields -> Values]
  /\ tx \in Sent \cup {NoTx}
  /\ form # "maxProofAge" /\ tx # NoTx => tx.vals \in [Fields -> Values]
  /\ shown \in Seq(Ids)
  /\ calls \subseteq Posts \cup Deletes
  /\ \A load \in loads : load.vals \in Storable
  /\ \A read \in walletReads : read.vals \in Storable

\* What a form never has.
OfTheForm ==
  /\ form = "announcements" => tx = NoTx
  /\ form # "announcements" => calls = {}
  /\ form \in {"typed", "maxProofAge"} => loads = {}
  /\ form \in BackendForms => \A l, m \in loads : l = m
  /\ form \in BackendForms /\ loads # {} => loading = TRUE

\* Until a field is edited it holds what it was filled with, if anything; the fields of
\* the typed forms start empty, and the proof age unknown.
AsFilled ==
  /\ \A x \in Fields \ touched : base[x] # Unknown => input[x] = base[x]
  /\ form = "typed" => \A x \in Fields \ touched : base[x] = Unknown => input[x] = None
  /\ form = "maxProofAge" =>
       /\ input.mode = Unknown =>
            isOwner = FALSE /\ touched = {} /\ \A x \in Fields : base[x] = Unknown
       /\ \A read \in walletReads : read.vals = stored
       /\ \A x \in Fields : base[x] \in {Unknown, stored[x]}

\* A save on its way was made of such a form.
AsSeen ==
  tx # NoTx =>
    \A x \in Fields \ tx.touched :
      /\ tx.base[x] # Unknown => tx.vals[x] = tx.base[x]
      /\ form = "typed" => tx.base[x] # Unknown

\* While a save of the backend's forms is on its way only edits change the form.
EditedSince ==
  form \in {"metadata", "caGuide"} /\ tx # NoTx /\ ~crossed =>
    loads = {} /\ \A x \in Fields \ touched : input[x] = tx.vals[x]

\* The copy of the wallet session, or what it is about to become.
CopyIsCurrent ==
  form \notin BackendForms /\ Undisturbed =>
    IF walletReads = {} THEN copy = stored /\ isOwner = owns
    ELSE \A read \in walletReads : read.vals = stored /\ read.owns = owns

\* What the fields were filled with, or are about to be.
FillingIsCurrent ==
  form \in ContractForms \cup {"metadata", "caGuide"} /\ Undisturbed =>
    IF loads = {} THEN \A x \in Fields \ touched : base[x] # Unknown => base[x] = stored[x]
    ELSE \A load \in loads : load.vals = stored

Arrived(op) == {id \in Ids : [op |-> op, id |-> id, arrived |-> TRUE] \in calls}

\* The list that is shown once the calls that have arrived are answered; the post on its
\* way is of an announcement that nothing else is about.
ListMatches ==
  /\ IsInjective(shown)
  /\ stored = (Range(shown) \cup Arrived("post")) \ Arrived("delete")
  /\ \A p \in calls : p.op = "post" =>
       p.id \notin Range(shown) /\ \A c \in calls \ {p} : c.id # p.id

ListIsCurrent ==
  form = "announcements" /\ Undisturbed =>
    IF loads = {} THEN ~loading => ListMatches
    ELSE calls = {} /\ \A load \in loads : load.vals = stored

FormInv == /\ FormTypeOK /\ OfTheForm /\ AsFilled /\ AsSeen
           /\ EditedSince /\ CopyIsCurrent /\ FillingIsCurrent /\ ListIsCurrent

LEMMA FormInitInv == FormInit => FormInv
<1> SUFFICES ASSUME FormInit
             PROVE  FormInv
  OBVIOUS
<1> USE DEF FormInit
<1>1. stored \in Storable
  BY DEF Storable
<1>2. input \in Filling /\ base \in Filling /\ (form # "maxProofAge" => input \in [Fields -> Values])
  BY FormAssumption DEF Filling, Defaults
<1>3. << >> \in Seq(Ids)
  OBVIOUS
<1>4. FormTypeOK
  BY <1>1, <1>2, <1>3 DEF FormTypeOK
<1>5. OfTheForm
  BY DEF OfTheForm, ContractForms, BackendForms
<1>6. AsFilled
  BY FormAssumption DEF AsFilled, Defaults, Fields
<1>7. AsSeen /\ EditedSince
  BY DEF AsSeen, EditedSince
<1>8. CopyIsCurrent
  <2>1. walletReads # {} /\ \A read \in walletReads : read.vals = stored /\ read.owns = TRUE
    OBVIOUS
  <2>2. owns = TRUE
    OBVIOUS
  <2> QED
    BY <2>1, <2>2 DEF CopyIsCurrent
<1>9. FillingIsCurrent
  BY DEF FillingIsCurrent, ContractForms
<1>10. ListIsCurrent
  BY DEF ListIsCurrent, BackendForms, ContractForms
<1> QED
  BY <1>4, <1>5, <1>6, <1>7, <1>8, <1>9, <1>10 DEF FormInv

\* A behaviour is about one form.
LEMMA FormStays == FormNext => form' = form
BY DEF FormNext, OtherCard, OpenTab, Save, SaveDone, SaveFailed, SaveElsewhere,
   WalletAnswered, LoadAnswered, Edit, Post, Delete, CallArrives, CallAnswered

LEMMA FormTypeStep ==
  ASSUME FormInv, FormNext
  PROVE  FormTypeOK'
<1> DEFINE Source == stored' \in Storable
           Filled == /\ input' \in Filling /\ base' \in Filling /\ touched' \subseteq Fields
                     /\ form # "maxProofAge" => input' \in [Fields -> Values]
           OnItsWay ==
             /\ tx' \in Sent \cup {NoTx}
             /\ form # "maxProofAge" /\ tx' # NoTx => tx'.vals \in [Fields -> Values]
           Listed == shown' \in Seq(Ids) /\ calls' \subseteq Posts \cup Deletes
           Read == /\ \A load \in loads' : load.vals \in Storable
                   /\ \A read \in walletReads' : read.vals \in Storable
<1>0. form \in Forms /\ form' = form /\ Storable' = Storable
  BY FormStays DEF FormInv, FormTypeOK, Storable
<1>1. Source /\ Filled /\ OnItsWay /\ Listed /\ Read => FormTypeOK'
  <2> SUFFICES ASSUME Source, Filled, OnItsWay, Listed, Read
               PROVE  FormTypeOK'
    OBVIOUS
  <2>1. (form \in Forms /\ stored \in Storable)'
    BY <1>0
  <2>2. (input \in Filling /\ base \in Filling /\ touched \subseteq Fields
         /\ (form # "maxProofAge" => input \in [Fields -> Values]))'
    BY <1>0 DEF Filling
  <2>3. (tx \in Sent \cup {NoTx}
         /\ (form # "maxProofAge" /\ tx # NoTx => tx.vals \in [Fields -> Values]))'
    BY <1>0
  <2>4. (shown \in Seq(Ids) /\ calls \subseteq Posts \cup Deletes)'
    OBVIOUS
  <2>5. (/\ \A load \in loads : load.vals \in Storable
         /\ \A read \in walletReads : read.vals \in Storable)'
    BY <1>0
  <2> QED
    BY <2>1, <2>2, <2>3, <2>4, <2>5, Zenon DEF FormTypeOK
<1>2. /\ UNCHANGED stored => Source
      /\ UNCHANGED <<input, base, touched>> => Filled
      /\ UNCHANGED tx => OnItsWay
      /\ UNCHANGED <<shown, calls>> => Listed
      /\ UNCHANGED <<loads, walletReads>> => Read
  BY DEF FormInv, FormTypeOK
<1>3. ASSUME NEW vals \in Storable, ReadContract(vals)
      PROVE  Read
  BY <1>3 DEF ReadContract, Load, FormInv, FormTypeOK
<1> USE DEF sourceVars, formVars, walletVars, readVars, announcementVars
<1>4. CASE OtherCard
  <2> Read
    BY <1>3, <1>4 DEF OtherCard, FormInv, FormTypeOK
  <2> HIDE DEF Source, Filled, OnItsWay, Listed, Read
  <2> QED
    BY <1>1, <1>2, <1>4 DEF OtherCard
<1>5. CASE OpenTab
  <2> Read
    BY <1>5 DEF OpenTab, TabLoads, Load, FormInv, FormTypeOK
  <2> HIDE DEF Source, Filled, OnItsWay, Listed, Read
  <2> QED
    BY <1>1, <1>2, <1>5 DEF OpenTab
<1>6. CASE Save
  <2>1. tx' = [vals |-> input, touched |-> touched, base |-> base]
    BY <1>6 DEF Save
  <2>2. OnItsWay
    BY <2>1 DEF FormInv, FormTypeOK, Sent, Filling
  <2> HIDE DEF Source, Filled, OnItsWay, Listed, Read
  <2> QED
    BY <1>1, <1>2, <1>6, <2>2 DEF Save
<1>7. CASE SaveDone
  <2>1. form \in Supported /\ form # "maxProofAge" /\ form # "announcements"
    BY <1>7 DEF SaveDone, Supported
  <2>2. tx.vals \in [Fields -> Values] /\ tx # NoTx
    BY <1>7, <2>1 DEF SaveDone, FormInv, FormTypeOK
  <2>3. Source
    BY <1>7, <2>1, <2>2 DEF SaveDone, Storable
  <2>4. Filled
    BY <1>7, <2>1 DEF SaveDone, FormInv, FormTypeOK, Filling
  <2>5. Read
    <3>1. tx.vals \in Storable
      BY <2>1, <2>2 DEF Storable
    <3> QED
      BY <1>2, <1>3, <1>7, <3>1 DEF SaveDone, AfterSave
  <2>6. OnItsWay
    BY <1>7 DEF SaveDone
  <2> HIDE DEF Source, Filled, OnItsWay, Listed, Read
  <2> QED
    BY <1>1, <1>2, <1>7, <2>3, <2>4, <2>5, <2>6 DEF SaveDone
<1>8. CASE SaveFailed
  <2>1. Source
    <3>1. CASE UNCHANGED stored
      BY <1>2, <3>1
    <3>2. CASE form \in Supported /\ stored' = tx.vals
      <4> tx # NoTx /\ form # "announcements" /\ form # "maxProofAge"
        BY <1>8, <3>2 DEF SaveFailed, Supported, FormInv, OfTheForm
      <4> QED
        BY <3>2 DEF FormInv, FormTypeOK, Storable
    <3> QED
      BY <1>8, <3>1, <3>2 DEF SaveFailed
  <2>2. OnItsWay
    BY <1>8 DEF SaveFailed
  <2> HIDE DEF Source, Filled, OnItsWay, Listed, Read
  <2> QED
    BY <1>1, <1>2, <1>8, <2>1, <2>2 DEF SaveFailed
<1>9. CASE SaveElsewhere
  <2>1. Source
    <3>1. CASE UNCHANGED stored
      BY <1>2, <3>1
    <3>2. CASE form # "announcements"
                /\ \E x \in Fields, v \in Values : stored' = [stored EXCEPT ![x] = v]
      BY <3>2 DEF FormInv, FormTypeOK, Storable
    <3>3. CASE form = "announcements" /\ \E id \in Ids : stored' = SymDiff(stored, {id})
      BY <3>3 DEF FormInv, FormTypeOK, Storable, SymDiff
    <3> QED
      BY <1>9, <3>1, <3>2, <3>3 DEF SaveElsewhere
  <2> HIDE DEF Source, Filled, OnItsWay, Listed, Read
  <2> QED
    BY <1>1, <1>2, <1>9, <2>1 DEF SaveElsewhere
<1>10. CASE \E read \in walletReads : WalletAnswered(read)
  <2>1. PICK read \in walletReads : WalletAnswered(read)
    BY <1>10
  <2>2. read.vals \in Storable /\ Defaults \in [Fields -> Values]
    BY FormAssumption DEF FormInv, FormTypeOK, Defaults
  <2>3. Filled
    <3>1. CASE form # "maxProofAge"
      <4> UNCHANGED <<input, base, touched>>
        BY <2>1, <3>1 DEF WalletAnswered, SyncProofAge
      <4> QED
        BY <1>2
    <3>2. CASE form = "maxProofAge"
      <4>1. read.vals \in Filling /\ Defaults \in Filling
        BY <2>2, <3>2 DEF Storable, Filling
      <4>2. input' \in {input, read.vals, Defaults} /\ base' \in {base, read.vals}
            /\ touched' = touched
        BY <2>1 DEF WalletAnswered, SyncProofAge
      <4> QED
        BY <3>2, <4>1, <4>2 DEF FormInv, FormTypeOK
    <3> QED
      BY <3>1, <3>2
  <2>4. Read
    BY <2>1 DEF WalletAnswered, FormInv, FormTypeOK
  <2> HIDE DEF Source, Filled, OnItsWay, Listed, Read
  <2> QED
    BY <1>1, <1>2, <2>1, <2>3, <2>4 DEF WalletAnswered
<1>11. CASE \E load \in loads : LoadAnswered(load)
  <2>1. PICK load \in loads : LoadAnswered(load)
    BY <1>11
  <2>2. load.vals \in Storable /\ form # "maxProofAge" /\ Defaults \in [Fields -> Values]
    BY FormAssumption DEF FormInv, FormTypeOK, OfTheForm, Defaults
  <2>3. Filled
    <3>1. CASE UNCHANGED <<input, base, touched>>
      BY <1>2, <3>1
    <3>2. CASE form # "announcements" /\ input' = load.vals /\ base' = load.vals /\ touched' = {}
      BY <2>2, <3>2 DEF Storable, Filling
    <3>3. CASE input' = Defaults /\ base' = [x \in Fields |-> Unknown] /\ touched' = {}
      BY <2>2, <3>3 DEF Filling
    <3> HIDE DEF Filled
    <3> QED
      BY <2>1, <3>1, <3>2, <3>3 DEF LoadAnswered
  <2>4. shown' \in Seq(Ids)
    <3>1. CASE form = "announcements"
      <4>1. load.vals \subseteq Ids /\ IsFiniteSet(load.vals)
        BY <2>2, <3>1, FormAssumption, FS_Subset DEF Storable
      <4>2. SetToSeq(load.vals) \in Seq(Ids)
        BY <4>1, SetToSeqSound
      <4>3. shown' \in {shown, SetToSeq(load.vals), << >>}
        BY <2>1, <3>1 DEF LoadAnswered
      <4>4. shown \in Seq(Ids) /\ << >> \in Seq(Ids)
        BY DEF FormInv, FormTypeOK
      <4> QED
        BY <4>2, <4>3, <4>4, Zenon
    <3>2. CASE form # "announcements"
      BY <2>1, <3>2 DEF LoadAnswered, FormInv, FormTypeOK
    <3> QED
      BY <3>1, <3>2
  <2>5. Read /\ Listed
    BY <2>1, <2>4 DEF LoadAnswered, FormInv, FormTypeOK
  <2> HIDE DEF Source, Filled, OnItsWay, Listed, Read
  <2> QED
    BY <1>1, <1>2, <2>1, <2>3, <2>5 DEF LoadAnswered
<1>12. CASE \E x \in Fields, v \in Values : Edit(x, v)
  <2>1. PICK x \in Fields, v \in Values : Edit(x, v)
    BY <1>12
  <2>2. Filled
    BY <2>1 DEF Edit, FormInv, FormTypeOK, Filling
  <2> HIDE DEF Source, Filled, OnItsWay, Listed, Read
  <2> QED
    BY <1>1, <1>2, <2>1, <2>2 DEF Edit
<1>13. CASE \E id \in Ids : Post(id) \/ Delete(id)
  <2>1. PICK id \in Ids : Post(id) \/ Delete(id)
    BY <1>13
  <2>2. /\ [op |-> "post", id |-> id, arrived |-> FALSE] \in Posts
        /\ [op |-> "delete", id |-> id, arrived |-> FALSE] \in Deletes
    BY DEF Posts, Deletes
  <2>3. calls \subseteq Posts \cup Deletes /\ shown' = shown /\ shown \in Seq(Ids)
    BY <2>1 DEF Post, Delete, FormInv, FormTypeOK
  <2>4. \/ calls' = calls \cup {[op |-> "post", id |-> id, arrived |-> FALSE]}
        \/ calls' = calls \cup {[op |-> "delete", id |-> id, arrived |-> FALSE]}
    BY <2>1, Zenon DEF Post, Delete
  <2>5. Listed
    BY <2>2, <2>3, <2>4
  <2> HIDE DEF Source, Filled, OnItsWay, Listed, Read
  <2> QED
    BY <1>1, <1>2, <2>1, <2>5 DEF Post, Delete
<1>14. CASE \E call \in Posts \cup Deletes : CallArrives(call)
  <2>1. PICK call \in Posts \cup Deletes : CallArrives(call)
    BY <1>14
  <2>2. call.id \in Ids /\ [call EXCEPT !.arrived = TRUE] \in Posts \cup Deletes
    BY DEF Posts, Deletes
  <2>3. form = "announcements"
    BY <2>1 DEF CallArrives, FormInv, OfTheForm
  <2>4. Source
    BY <2>1, <2>2, <2>3 DEF CallArrives, FormInv, FormTypeOK, Storable
  <2>5. Listed
    BY <2>1, <2>2 DEF CallArrives, FormInv, FormTypeOK
  <2> HIDE DEF Source, Filled, OnItsWay, Listed, Read
  <2> QED
    BY <1>1, <1>2, <2>1, <2>4, <2>5 DEF CallArrives
<1>15. CASE \E call \in Posts \cup Deletes : CallAnswered(call)
  <2>1. PICK call \in Posts \cup Deletes : CallAnswered(call)
    BY <1>15
  <2>2. call.id \in Ids /\ shown \in Seq(Ids)
    BY DEF Posts, Deletes, FormInv, FormTypeOK
  <2>3. ShownAfter(call) \in Seq(Ids)
    BY <2>2, KeepSound DEF ShownAfter
  <2>4. Listed
    BY <2>1, <2>2, <2>3 DEF CallAnswered, FormInv, FormTypeOK
  <2> HIDE DEF Source, Filled, OnItsWay, Listed, Read
  <2> QED
    BY <1>1, <1>2, <2>1, <2>4 DEF CallAnswered
<1> QED
  BY <1>4, <1>5, <1>6, <1>7, <1>8, <1>9, <1>10, <1>11, <1>12, <1>13, <1>14, <1>15 DEF FormNext

LEMMA OfTheFormStep ==
  ASSUME FormInv, FormNext
  PROVE  OfTheForm'
<1>0. OfTheForm /\ form' = form
  BY FormStays DEF FormInv
<1> USE DEF readVars, announcementVars
<1>1. CASE OtherCard
  BY <1>0, <1>1 DEF OtherCard, ReadContract, OfTheForm, ContractForms, BackendForms
<1>2. CASE OpenTab
  BY <1>0, <1>2 DEF OpenTab, TabLoads, OfTheForm, BackendForms
<1>3. CASE Save
  BY <1>0, <1>3 DEF Save, OfTheForm
<1>4. CASE SaveDone
  <2>1. form # "announcements" /\ tx' = NoTx /\ UNCHANGED <<calls, shown>>
    BY <1>0, <1>4 DEF SaveDone, OfTheForm
  <2>2. CASE form \in BackendForms
    BY <1>0, <1>4, <2>1, <2>2 DEF SaveDone, AfterSave, OfTheForm
  <2>3. CASE form \notin BackendForms
    BY <1>0, <1>4, <2>1, <2>3 DEF SaveDone, AfterSave, ReadContract, OfTheForm, ContractForms
  <2> QED
    BY <2>2, <2>3
<1>5. CASE SaveFailed
  BY <1>0, <1>5 DEF SaveFailed, OfTheForm
<1>6. CASE SaveElsewhere
  BY <1>0, <1>6 DEF SaveElsewhere, OfTheForm
<1>7. CASE \E read \in walletReads : WalletAnswered(read)
  BY <1>0, <1>7 DEF WalletAnswered, OfTheForm
<1>8. CASE \E load \in loads : LoadAnswered(load)
  <2>1. PICK load \in loads : LoadAnswered(load)
    BY <1>8
  <2>2. loads' = loads \ {load} /\ UNCHANGED <<tx, calls>>
    BY <2>1 DEF LoadAnswered
  <2>3. form \in BackendForms => loads' = {}
    BY <1>0, <2>1, <2>2 DEF OfTheForm
  <2> QED
    BY <1>0, <2>2, <2>3 DEF OfTheForm
<1>9. CASE \E x \in Fields, v \in Values : Edit(x, v)
  BY <1>0, <1>9 DEF Edit, OfTheForm
<1>10. CASE \E id \in Ids : Post(id) \/ Delete(id)
  BY <1>0, <1>10 DEF Post, Delete, OfTheForm, formVars
<1>11. CASE \E call \in Posts \cup Deletes : CallArrives(call) \/ CallAnswered(call)
  BY <1>0, <1>11 DEF CallArrives, CallAnswered, OfTheForm
<1> QED
  BY <1>1, <1>2, <1>3, <1>4, <1>5, <1>6, <1>7, <1>8, <1>9, <1>10, <1>11 DEF FormNext

LEMMA AsFilledStep ==
  ASSUME FormInv, FormNext
  PROVE  AsFilled'
<1> DEFINE Same == \A x \in Fields \ touched : base[x] # Unknown => input[x] = base[x]
           Empty == form = "typed" =>
                      \A x \in Fields \ touched : base[x] = Unknown => input[x] = None
           Unread == input.mode = Unknown =>
                       isOwner = FALSE /\ touched = {} /\ \A x \in Fields : base[x] = Unknown
           Age == form = "maxProofAge" =>
                    /\ Unread
                    /\ \A read \in walletReads : read.vals = stored
                    /\ \A x \in Fields : base[x] \in {Unknown, stored[x]}
<1>0. /\ Same /\ Empty /\ Age
      /\ (AsFilled' <=> Same' /\ Empty' /\ Age')
      /\ form' = form /\ OfTheForm /\ FormTypeOK
  BY FormStays DEF AsFilled, FormInv
<1>1. /\ UNCHANGED <<input, base, touched>> => Same' /\ Empty'
      /\ form # "maxProofAge" => Age'
      /\ UNCHANGED <<input, base, touched, isOwner, walletReads, stored>> => Age'
  BY <1>0
<1> USE DEF sourceVars, formVars, walletVars, readVars, announcementVars
<1>2. CASE OtherCard
  <2>1. /\ UNCHANGED <<input, base, touched, isOwner, stored>>
        /\ \A read \in walletReads' : read \in walletReads \/ read.vals = stored
    BY <1>2 DEF OtherCard, ReadContract
  <2>2. Age'
    BY <1>0, <2>1
  <2> HIDE DEF Same, Empty, Age
  <2> QED
    BY <1>0, <1>1, <2>1, <2>2
<1>3. CASE OpenTab \/ Save \/ \E id \in Ids : Post(id) \/ Delete(id)
  <2> UNCHANGED <<input, base, touched, isOwner, walletReads, stored>>
    BY <1>3 DEF OpenTab, Save, Post, Delete
  <2> HIDE DEF Same, Empty, Age
  <2> QED
    BY <1>0, <1>1
<1>4. CASE SaveDone
  <2>1. form # "maxProofAge" /\ tx # NoTx /\ input' = input
        /\ touched' = {x \in touched : input[x] # tx.vals[x]}
        /\ base' = [x \in Fields |-> IF input[x] = tx.vals[x] THEN input[x] ELSE base[x]]
    BY <1>4 DEF SaveDone, Supported
  <2>2. touched \subseteq Fields /\ input \in [Fields -> Values] /\ \A x \in Fields : input[x] # Unknown
    BY <1>0, <2>1, FormAssumption DEF FormTypeOK
  <2>3. ASSUME NEW x \in Fields \ touched'
        PROVE  /\ base'[x] # Unknown => input'[x] = base'[x]
               /\ form = "typed" /\ base'[x] = Unknown => input'[x] = None
    <3>1. base'[x] = IF input[x] = tx.vals[x] THEN input[x] ELSE base[x]
      BY <2>1
    <3>2. CASE input[x] = tx.vals[x]
      BY <2>1, <2>2, <3>1, <3>2
    <3>3. CASE input[x] # tx.vals[x]
      <4> x \in Fields \ touched
        BY <2>1, <2>2, <3>3
      <4> QED
        BY <1>0, <2>1, <3>1, <3>3
    <3> QED
      BY <3>2, <3>3
  <2>4. Same' /\ Empty'
    BY <1>0, <2>3
  <2> HIDE DEF Same, Empty, Age
  <2> QED
    BY <1>0, <1>1, <2>1, <2>4
<1>5. CASE SaveFailed
  <2>1. UNCHANGED <<input, base, touched, isOwner, walletReads>>
        /\ (form = "maxProofAge" => stored' = stored)
    BY <1>5 DEF SaveFailed, Supported
  <2> HIDE DEF Same, Empty, Age
  <2> QED
    BY <1>0, <1>1, <2>1
<1>6. CASE SaveElsewhere
  <2>1. UNCHANGED <<input, base, touched, isOwner, walletReads>>
        /\ (form = "maxProofAge" => stored' = stored)
    BY <1>6 DEF SaveElsewhere
  <2> HIDE DEF Same, Empty, Age
  <2> QED
    BY <1>0, <1>1, <2>1
<1>7. CASE \E read \in walletReads : WalletAnswered(read)
  <2>1. PICK read \in walletReads : WalletAnswered(read)
    BY <1>7
  <2>2. touched' = touched /\ stored' = stored /\ walletReads' \subseteq walletReads
    BY <2>1 DEF WalletAnswered
  <2>3. CASE form # "maxProofAge"
    <3> UNCHANGED <<input, base>>
      BY <2>1, <2>3 DEF WalletAnswered, SyncProofAge
    <3> HIDE DEF Same, Empty, Age
    <3> QED
      BY <1>0, <1>1, <2>2, <2>3
  <2>4. CASE form = "maxProofAge"
    <3>1. read.vals = stored /\ stored \in [Fields -> Values]
      BY <1>0, <2>4 DEF FormTypeOK, Storable
    <3>2. Empty'
      BY <1>0, <2>4
    <3>3. CASE input.mode = Unknown /\ input' = read.vals /\ base' = read.vals
      <4>1. input'.mode # Unknown
        BY <3>1, <3>3, FormAssumption DEF Fields
      <4>2. Same' /\ Age'
        BY <1>0, <2>2, <3>1, <3>3, <4>1
      <4> QED
        BY <1>0, <3>2, <4>2
    <3>4. CASE input.mode = Unknown /\ input' = Defaults /\ base' = base
      <4>1. input'.mode # Unknown
        BY <3>4, FormAssumption DEF Fields, Defaults
      <4>2. \A x \in Fields : base[x] = Unknown
        BY <1>0, <2>4, <3>4
      <4>3. Same' /\ Age'
        BY <1>0, <2>2, <3>4, <4>1, <4>2
      <4> QED
        BY <1>0, <3>2, <4>3
    <3>5. CASE input.mode # Unknown /\ UNCHANGED <<input, base>>
      <4> Same' /\ Age'
        BY <1>0, <2>2, <2>4, <3>5
      <4> QED
        BY <1>0, <3>2
    <3>6. CASE UNCHANGED <<input, base, isOwner>>
      <4> Same' /\ Age'
        BY <1>0, <2>2, <2>4, <3>6
      <4> QED
        BY <1>0, <3>2
    <3> QED
      BY <2>1, <2>4, <3>3, <3>4, <3>5, <3>6 DEF WalletAnswered, SyncProofAge
  <2> QED
    BY <2>3, <2>4
<1>8. CASE \E load \in loads : LoadAnswered(load)
  <2>1. PICK load \in loads : LoadAnswered(load)
    BY <1>8
  <2>2. form # "maxProofAge" /\ form # "typed"
    BY <1>0, <2>1 DEF OfTheForm
  <2>3. \/ UNCHANGED <<input, base, touched>>
        \/ input' = load.vals /\ base' = load.vals
        \/ \A x \in Fields : base'[x] = Unknown
    BY <2>1 DEF LoadAnswered
  <2>4. Same' /\ Empty'
    BY <1>0, <2>2, <2>3
  <2> HIDE DEF Same, Empty, Age
  <2> QED
    BY <1>0, <1>1, <2>2, <2>4
<1>9. CASE \E x \in Fields, v \in Values : Edit(x, v)
  <2>1. PICK x \in Fields, v \in Values : Edit(x, v)
    BY <1>9
  <2>2. /\ input' = [input EXCEPT ![x] = v] /\ touched' = touched \cup {x}
        /\ UNCHANGED <<base, isOwner, walletReads, stored>> /\ isOwner
    BY <2>1 DEF Edit, Editable
  <2>3. \A y \in Fields \ touched' : y \in Fields \ touched /\ input'[y] = input[y]
    BY <1>0, <2>2 DEF FormTypeOK, Filling
  <2>4. Same' /\ Empty'
    BY <1>0, <2>2, <2>3
  <2>5. form = "maxProofAge" => input.mode # Unknown
    BY <1>0, <2>2
  <2>6. form = "maxProofAge" => input'.mode # Unknown
    BY <1>0, <2>2, <2>5, FormAssumption DEF FormTypeOK, Filling, Fields
  <2>7. Age'
    BY <1>0, <2>2, <2>6
  <2> QED
    BY <1>0, <2>4, <2>7
<1>10. CASE \E call \in Posts \cup Deletes : CallArrives(call) \/ CallAnswered(call)
  <2>1. UNCHANGED <<input, base, touched, isOwner, walletReads>> /\ form = "announcements"
    BY <1>0, <1>10 DEF CallArrives, CallAnswered, OfTheForm
  <2>2. form # "maxProofAge"
    BY <2>1
  <2> HIDE DEF Same, Empty, Age
  <2> QED
    BY <1>0, <1>1, <2>1, <2>2
<1> QED
  BY <1>2, <1>3, <1>4, <1>5, <1>6, <1>7, <1>8, <1>9, <1>10 DEF FormNext

LEMMA AsSeenStep ==
  ASSUME FormInv, FormNext
  PROVE  AsSeen'
<1>0. AsSeen /\ AsFilled /\ form' = form
  BY FormStays DEF FormInv
<1>1. tx' \in {tx, NoTx} => AsSeen'
  BY <1>0 DEF AsSeen
<1>2. CASE Save
  <2>1. tx' = [vals |-> input, touched |-> touched, base |-> base]
    BY <1>2 DEF Save
  <2>2. form = "typed" => \A x \in Fields : input[x] # None
    BY <1>2 DEF Save, CanSend, CanSendTyped
  <2> QED
    BY <1>0, <2>1, <2>2 DEF AsSeen, AsFilled
<1>3. CASE ~Save
  <2> tx' \in {tx, NoTx}
    BY <1>3 DEF FormNext, OtherCard, OpenTab, SaveDone, SaveFailed, SaveElsewhere,
       WalletAnswered, LoadAnswered, Edit, Post, Delete, CallArrives, CallAnswered
  <2> QED
    BY <1>1
<1> QED
  BY <1>2, <1>3

LEMMA EditedSinceStep ==
  ASSUME FormInv, FormNext
  PROVE  EditedSince'
<1> DEFINE Backend == form \in {"metadata", "caGuide"}
           Kept == loads = {} /\ \A x \in Fields \ touched : input[x] = tx.vals[x]
<1>0. /\ (Backend /\ tx # NoTx /\ ~crossed => Kept) /\ form' = form /\ OfTheForm /\ FormTypeOK
      /\ (EditedSince' <=> (Backend /\ tx' # NoTx /\ ~crossed' => Kept'))
  BY FormStays DEF FormInv, EditedSince
<1>1. UNCHANGED <<loads, input, tx, touched, crossed>> => EditedSince'
  BY <1>0
<1>2. ~Backend \/ tx' = NoTx \/ crossed' => EditedSince'
  BY <1>0
<1> USE DEF sourceVars, formVars, walletVars, readVars, announcementVars
<1>3. CASE OtherCard
  <2> ~Backend
    BY <1>3 DEF OtherCard, BackendForms
  <2> QED
    BY <1>2
<1>4. CASE OpenTab
  <2> tx' = NoTx \/ crossed'
    BY <1>4 DEF OpenTab
  <2> QED
    BY <1>2
<1>5. CASE Save
  <2>1. tx' = [vals |-> input, touched |-> touched, base |-> base] /\ ~loading
        /\ UNCHANGED <<loads, input, touched>>
    BY <1>5 DEF Save, Editable
  <2>2. Backend => loads = {}
    BY <1>0, <2>1 DEF OfTheForm, BackendForms
  <2> QED
    BY <1>0, <2>1, <2>2
<1>6. CASE SaveDone \/ SaveFailed
  <2> tx' = NoTx
    BY <1>6 DEF SaveDone, SaveFailed
  <2> QED
    BY <1>2
<1>7. CASE SaveElsewhere
  BY <1>1, <1>7 DEF SaveElsewhere
<1>8. CASE \E read \in walletReads : WalletAnswered(read)
  <2> Backend => UNCHANGED <<loads, input, tx, touched, crossed>>
    BY <1>8 DEF WalletAnswered, SyncProofAge
  <2> QED
    BY <1>1, <1>2
<1>9. CASE \E load \in loads : LoadAnswered(load)
  <2> loads # {} /\ UNCHANGED <<tx, crossed>>
    BY <1>9 DEF LoadAnswered
  <2> QED
    BY <1>0
<1>10. CASE \E x \in Fields, v \in Values : Edit(x, v)
  <2>1. PICK x \in Fields, v \in Values : Edit(x, v)
    BY <1>10
  <2>2. /\ input' = [input EXCEPT ![x] = v] /\ touched' = touched \cup {x}
        /\ UNCHANGED <<loads, tx, crossed>>
    BY <2>1 DEF Edit
  <2>3. \A y \in Fields \ touched' : y \in Fields \ touched /\ input'[y] = input[y]
    BY <1>0, <2>2 DEF FormTypeOK, Filling
  <2> QED
    BY <1>0, <2>2, <2>3
<1>11. CASE \E id \in Ids : Post(id) \/ Delete(id)
  <2> ~Backend
    BY <1>11 DEF Post, Delete
  <2> QED
    BY <1>2
<1>12. CASE \E call \in Posts \cup Deletes : CallArrives(call) \/ CallAnswered(call)
  <2> ~Backend
    BY <1>0, <1>12 DEF CallArrives, CallAnswered, OfTheForm
  <2> QED
    BY <1>2
<1> QED
  BY <1>3, <1>4, <1>5, <1>6, <1>7, <1>8, <1>9, <1>10, <1>11, <1>12 DEF FormNext

\* ReadContract: a reading of what is stored, that crosses no other one, is the only one
\* on its way.
LEMMA ContractRead ==
  ASSUME ReadContract(stored'), owns' = owns, ~crossed'
  PROVE  /\ walletReads' # {}
         /\ \A read \in walletReads' : read.vals = stored' /\ read.owns = owns'
         /\ form \in ContractForms => loads' # {}
         /\ \A load \in loads' : load.vals = stored'
<1>1. walletReads = {} /\ loads = {}
  BY DEF ReadContract
<1>2. walletReads' = {[n |-> reads + 1, vals |-> stored', owns |-> owns]}
  BY <1>1 DEF ReadContract
<1>3. loads' = IF form \in ContractForms THEN {[n |-> reads + 1, vals |-> stored']} ELSE {}
  BY <1>1 DEF ReadContract, Load
<1>4. walletReads' # {} /\ \A read \in walletReads' : read.vals = stored'
  BY <1>2
<1>5. ASSUME NEW read \in walletReads'  PROVE read.owns = owns'
  <2>1. read = [n |-> reads + 1, vals |-> stored', owns |-> owns]
    BY <1>2
  <2>2. read.owns = owns
    BY <2>1, Zenon
  <2> QED
    BY <2>2, Zenon
<1>6. /\ form \in ContractForms => loads' # {}
      /\ \A load \in loads' : load.vals = stored'
  <2>1. CASE form \in ContractForms
    <3> loads' = {[n |-> reads + 1, vals |-> stored']}
      BY <1>3, <2>1
    <3> QED
      OBVIOUS
  <2>2. CASE form \notin ContractForms
    <3> loads' = {}
      BY <1>3, <2>2
    <3> QED
      BY <2>2
  <2> QED
    BY <2>1, <2>2
<1> QED
  BY <1>4, <1>5, <1>6, Zenon

LEMMA CopyStep ==
  ASSUME FormInv, FormNext
  PROVE  CopyIsCurrent'
<1> DEFINE Contract == form \notin BackendForms
           Good == IF walletReads = {} THEN copy = stored /\ isOwner = owns
                   ELSE \A read \in walletReads : read.vals = stored /\ read.owns = owns
<1>0. /\ (Contract /\ Undisturbed => Good) /\ form' = form /\ OfTheForm
      /\ (CopyIsCurrent' <=> (Contract /\ Undisturbed' => Good'))
  BY FormStays DEF FormInv, CopyIsCurrent
<1>1. ASSUME UNCHANGED <<walletReads, stored, owns, copy, isOwner>>, Undisturbed' => Undisturbed
      PROVE  CopyIsCurrent'
  BY <1>0, <1>1
<1>2. ~Contract \/ ~Undisturbed' => CopyIsCurrent'
  BY <1>0
<1>3. ASSUME ReadContract(stored'), owns' = owns
      PROVE  CopyIsCurrent'
  <2>1. Undisturbed' => ~crossed'
    BY DEF Undisturbed
  <2>2. ~crossed' => Good'
    BY <1>3, ContractRead
  <2> HIDE DEF Good
  <2> QED
    BY <1>0, <2>1, <2>2
<1> USE DEF sourceVars, formVars, walletVars, readVars, announcementVars
<1>4. CASE OtherCard
  <2> ReadContract(stored') /\ owns' = owns
    BY <1>4 DEF OtherCard
  <2> QED
    BY <1>3
<1>5. CASE SaveDone
  <2> Contract => ReadContract(stored') /\ owns' = owns
    BY <1>5 DEF SaveDone, AfterSave
  <2> QED
    BY <1>2, <1>3
<1>6. CASE SaveFailed
  <2>1. CASE UNCHANGED <<stored, outdatedForm>>
    <3> /\ UNCHANGED <<walletReads, stored, owns, copy, isOwner>>
        /\ UNCHANGED <<crossed, outdatedForm, failed>>
      BY <1>6, <2>1 DEF SaveFailed
    <3> HIDE DEF Good
    <3> QED
      BY <1>1, <1>2 DEF Undisturbed
  <2>2. CASE outdatedForm' = TRUE
    BY <1>2, <2>2 DEF Undisturbed
  <2> QED
    BY <1>6, <2>1, <2>2 DEF SaveFailed
<1>7. CASE SaveElsewhere
  <2> ~Undisturbed'
    BY <1>7 DEF SaveElsewhere, Undisturbed
  <2> QED
    BY <1>2
<1>8. CASE \E read \in walletReads : WalletAnswered(read)
  <2>1. PICK read \in walletReads : WalletAnswered(read)
    BY <1>8
  <2>2. CASE failed' = TRUE
    BY <1>2, <2>2 DEF Undisturbed
  <2>3. CASE failed' = failed /\ copy' = read.vals /\ isOwner' = read.owns
    <3>1. /\ walletReads' = walletReads \ {read} /\ UNCHANGED <<stored, owns>>
          /\ UNCHANGED <<crossed, outdatedForm, failed>>
      BY <2>1, <2>3 DEF WalletAnswered
    <3>2. Undisturbed' => Undisturbed
      BY <3>1 DEF Undisturbed
    <3>3. Contract /\ Undisturbed =>
            \A r \in walletReads : r.vals = stored /\ r.owns = owns
      BY <1>0, <2>1
    <3>4. Contract /\ Undisturbed => Good'
      BY <2>1, <2>3, <3>1, <3>3
    <3> HIDE DEF Good
    <3> QED
      BY <1>0, <3>2, <3>4
  <2> QED
    BY <2>1, <2>2, <2>3 DEF WalletAnswered
<1>9. CASE \/ Save
           \/ \E load \in loads : LoadAnswered(load)
           \/ \E x \in Fields, v \in Values : Edit(x, v)
  <2>1. /\ UNCHANGED <<walletReads, stored, owns, copy, isOwner, crossed, outdatedForm>>
        /\ failed' = failed \/ failed' = TRUE
    BY <1>9 DEF Save, LoadAnswered, Edit
  <2>2. Undisturbed' => Undisturbed
    BY <2>1 DEF Undisturbed
  <2> QED
    BY <1>1, <2>1, <2>2
<1>10. CASE \/ OpenTab
            \/ \E id \in Ids : Post(id) \/ Delete(id)
            \/ \E call \in Posts \cup Deletes : CallArrives(call) \/ CallAnswered(call)
  <2> ~Contract
    BY <1>0, <1>10 DEF OpenTab, Post, Delete, CallArrives, CallAnswered, OfTheForm, BackendForms
  <2> QED
    BY <1>2
<1> QED
  BY <1>4, <1>5, <1>6, <1>7, <1>8, <1>9, <1>10 DEF FormNext

LEMMA FillingStep ==
  ASSUME FormInv, FormNext
  PROVE  FillingIsCurrent'
<1> DEFINE Looked == form \in ContractForms \cup {"metadata", "caGuide"}
           Filled == \A x \in Fields \ touched : base[x] # Unknown => base[x] = stored[x]
           Good == IF loads = {} THEN Filled ELSE \A load \in loads : load.vals = stored
<1>0. /\ (Looked /\ Undisturbed => Good) /\ form' = form
      /\ (FillingIsCurrent' <=> (Looked /\ Undisturbed' => Good'))
      /\ OfTheForm /\ FormTypeOK /\ EditedSince
  BY FormStays DEF FormInv, FillingIsCurrent
<1>1. ASSUME UNCHANGED <<loads, stored, base>>, touched \subseteq touched', Undisturbed' => Undisturbed
      PROVE  FillingIsCurrent'
  BY <1>0, <1>1
<1>2. ~Looked \/ ~Undisturbed' => FillingIsCurrent'
  BY <1>0
<1>3. ASSUME ReadContract(stored'), owns' = owns, form \in ContractForms
      PROVE  FillingIsCurrent'
  <2>1. Undisturbed' => ~crossed'
    BY DEF Undisturbed
  <2>2. ~crossed' => Good'
    BY <1>3, ContractRead
  <2> HIDE DEF Good
  <2> QED
    BY <1>0, <2>1, <2>2
<1> USE DEF sourceVars, formVars, walletVars, readVars, announcementVars
<1>4. CASE OtherCard
  <2> /\ ReadContract(stored') /\ owns' = owns
      /\ form \notin {"metadata", "caGuide"}
    BY <1>4 DEF OtherCard, BackendForms
  <2> QED
    BY <1>2, <1>3
<1>5. CASE OpenTab
  <2> loads' # {} /\ \A load \in loads' : load.vals = stored'
    BY <1>5 DEF OpenTab, TabLoads, Load
  <2> QED
    BY <1>0
<1>6. CASE SaveDone
  <2>1. CASE form \in ContractForms
    <3> ReadContract(stored') /\ owns' = owns
      BY <1>6, <2>1 DEF SaveDone, AfterSave, ContractForms, BackendForms
    <3> QED
      BY <1>3, <2>1
  <2>2. CASE form \in {"metadata", "caGuide"}
    <3>1. /\ tx # NoTx /\ input' = input /\ stored' = tx.vals
          /\ touched' = {x \in touched : input[x] # tx.vals[x]}
          /\ base' = [x \in Fields |-> IF input[x] = tx.vals[x] THEN input[x] ELSE base[x]]
      BY <1>6 DEF SaveDone
    <3>2. crossed' = (crossed \/ loads # {}) /\ loads' = loads
      BY <1>6, <2>2 DEF SaveDone, AfterSave, BackendForms
    <3>3. ASSUME Undisturbed'
          PROVE  Good'
      <4>1. ~crossed /\ loads' = {}
        BY <3>2, <3>3 DEF Undisturbed
      <4>2. \A x \in Fields \ touched : input[x] = tx.vals[x]
        BY <1>0, <2>2, <3>1, <4>1 DEF EditedSince
      <4>3. touched \subseteq Fields
        BY <1>0 DEF FormTypeOK
      <4>4. ASSUME NEW x \in Fields \ touched'
            PROVE  base'[x] = stored'[x]
        <5> input[x] = tx.vals[x]
          BY <3>1, <4>2, <4>3
        <5> QED
          BY <3>1
      <4> QED
        BY <4>1, <4>4
    <3> HIDE DEF Good
    <3> QED
      BY <1>0, <3>3
  <2>3. CASE ~Looked
    BY <1>2, <2>3
  <2> HIDE DEF Good
  <2> QED
    BY <2>1, <2>2, <2>3
<1>7. CASE SaveFailed
  <2>1. CASE UNCHANGED <<stored, outdatedForm>>
    <3> /\ UNCHANGED <<loads, stored, base, touched>>
        /\ UNCHANGED <<crossed, outdatedForm, failed>>
      BY <1>7, <2>1 DEF SaveFailed
    <3> HIDE DEF Good
    <3> QED
      BY <1>1 DEF Undisturbed
  <2>2. CASE outdatedForm' = TRUE
    BY <1>2, <2>2 DEF Undisturbed
  <2> QED
    BY <1>7, <2>1, <2>2 DEF SaveFailed
<1>8. CASE SaveElsewhere
  <2> ~Undisturbed'
    BY <1>8 DEF SaveElsewhere, Undisturbed
  <2> QED
    BY <1>2
<1>9. CASE \E read \in walletReads : WalletAnswered(read)
  <2>1. /\ Looked => UNCHANGED base
        /\ UNCHANGED <<loads, stored, touched, crossed, outdatedForm>>
        /\ failed' = failed \/ failed' = TRUE
    BY <1>9 DEF WalletAnswered, SyncProofAge, ContractForms
  <2>2. Undisturbed' => Undisturbed
    BY <2>1 DEF Undisturbed
  <2> HIDE DEF Good
  <2> QED
    BY <1>1, <1>2, <2>1, <2>2
<1>10. CASE \E load \in loads : LoadAnswered(load)
  <2>1. PICK load \in loads : LoadAnswered(load)
    BY <1>10
  <2>2. CASE failed' = TRUE
    BY <1>2, <2>2 DEF Undisturbed
  <2>3. CASE failed' = failed /\ base' = load.vals
    <3>1. /\ loads' = loads \ {load} /\ stored' = stored
          /\ UNCHANGED <<crossed, outdatedForm, failed>>
      BY <2>1, <2>3 DEF LoadAnswered
    <3>2. Undisturbed' => Undisturbed
      BY <3>1 DEF Undisturbed
    <3>3. Looked /\ Undisturbed => \A l \in loads : l.vals = stored
      BY <1>0, <2>1
    <3>4. Looked /\ Undisturbed => Good'
      BY <2>1, <2>3, <3>1, <3>3
    <3> HIDE DEF Good
    <3> QED
      BY <1>0, <3>2, <3>4
  <2>4. CASE form = "announcements"
    BY <1>2, <2>4 DEF ContractForms
  <2> QED
    BY <2>1, <2>2, <2>3, <2>4 DEF LoadAnswered
<1>11. CASE Save \/ \E x \in Fields, v \in Values : Edit(x, v)
  <2>1. /\ UNCHANGED <<loads, stored, base, crossed, outdatedForm, failed>>
        /\ touched \subseteq touched'
    BY <1>11 DEF Save, Edit
  <2>2. Undisturbed' => Undisturbed
    BY <2>1 DEF Undisturbed
  <2> QED
    BY <1>1, <2>1, <2>2
<1>12. CASE (\E id \in Ids : Post(id) \/ Delete(id))
            \/ \E call \in Posts \cup Deletes : CallArrives(call) \/ CallAnswered(call)
  <2> ~Looked
    BY <1>0, <1>12 DEF Post, Delete, CallArrives, CallAnswered, OfTheForm, ContractForms
  <2> QED
    BY <1>2
<1> QED
  BY <1>4, <1>5, <1>6, <1>7, <1>8, <1>9, <1>10, <1>11, <1>12 DEF FormNext

\* What is known of the calls on their way.
LEMMA CallShape ==
  ASSUME FormTypeOK, NEW call \in calls
  PROVE  /\ call.op \in {"post", "delete"} /\ call.id \in Ids /\ call.arrived \in BOOLEAN
         /\ call = [op |-> call.op, id |-> call.id, arrived |-> call.arrived]
  BY DEF FormTypeOK, Posts, Deletes

LEMMA CallsGoOut ==
  ASSUME FormTypeOK, ListMatches, NEW id \in Ids, NEW op \in {"post", "delete"},
         UNCHANGED <<stored, shown>>,
         calls' = calls \cup {[op |-> op, id |-> id, arrived |-> FALSE]},
         op = "post" => calls \cap Posts = {} /\ New(id),
         op = "delete" => id \in Range(shown)
  PROVE  ListMatches'
<1> DEFINE sent == [op |-> op, id |-> id, arrived |-> FALSE]
<1>1. Arrived("post")' = Arrived("post") /\ Arrived("delete")' = Arrived("delete")
  BY DEF Arrived
<1>2. ASSUME NEW p \in calls', p.op = "post"
      PROVE  p.id \notin Range(shown) /\ \A c \in calls' \ {p} : c.id # p.id
  <2>1. CASE op = "post"
    <3>1. p \notin calls
      BY <1>2, <2>1, CallShape DEF Posts
    <3>2. p = sent
      BY <1>2, <3>1
    <3> QED
      BY <2>1, <3>2 DEF New
  <2>2. CASE op = "delete"
    <3>1. p \in calls
      BY <1>2, <2>2
    <3> QED
      BY <1>2, <2>2, <3>1 DEF ListMatches
  <2> QED
    BY <2>1, <2>2
<1> QED
  BY <1>1, <1>2 DEF ListMatches

LEMMA CallsArrive ==
  ASSUME FormTypeOK, ListMatches, NEW call \in calls, CallArrives(call)
  PROVE  ListMatches'
<1> DEFINE there == [call EXCEPT !.arrived = TRUE]
<1>1. /\ call.op \in {"post", "delete"} /\ call.id \in Ids
      /\ call = [op |-> call.op, id |-> call.id, arrived |-> FALSE]
  <2>1. call.arrived = FALSE
    BY CallShape, Zenon DEF CallArrives
  <2> QED
    BY <2>1, CallShape
<1>2. there = [op |-> call.op, id |-> call.id, arrived |-> TRUE]
  <2>1. ASSUME NEW o, NEW i, NEW b, NEW c
        PROVE  [[op |-> o, id |-> i, arrived |-> b] EXCEPT !.arrived = c]
                 = [op |-> o, id |-> i, arrived |-> c]
    OBVIOUS
  <2> DEFINE o == call.op
             i == call.id
  <2>2. call = [op |-> o, id |-> i, arrived |-> FALSE]
    BY <1>1
  <2> HIDE DEF o, i
  <2>3. there = [[op |-> o, id |-> i, arrived |-> FALSE] EXCEPT !.arrived = TRUE]
    BY <2>2, Zenon
  <2>4. there = [op |-> o, id |-> i, arrived |-> TRUE]
    BY <2>1, <2>3, Zenon
  <2> QED
    BY <2>4 DEF o, i
<1>3. calls' = (calls \ {call}) \cup {there} /\ shown' = shown
      /\ stored' = IF call.op = "post" THEN stored \cup {call.id} ELSE stored \ {call.id}
  BY DEF CallArrives, announcementVars
<1>4. ASSUME NEW op \in {"post", "delete"}
      PROVE  Arrived(op)' = IF op = call.op THEN Arrived(op) \cup {call.id} ELSE Arrived(op)
  <2>1. ASSUME NEW id
        PROVE  [op |-> op, id |-> id, arrived |-> TRUE] # call
    BY <1>1
  <2>2. ASSUME NEW id
        PROVE  [op |-> op, id |-> id, arrived |-> TRUE] = there <=> id = call.id /\ op = call.op
    BY <1>2
  <2> QED
    BY <1>1, <1>3, <2>1, <2>2 DEF Arrived
<1>5. call.op = "post" => call.id \notin Range(shown) /\ call.id \notin Arrived("delete")
  BY <1>1 DEF ListMatches, Arrived
<1>6. ASSUME NEW p \in calls', p.op = "post"
      PROVE  p.id \notin Range(shown) /\ \A c \in calls' \ {p} : c.id # p.id
  <2>1. CASE p = there
    BY <1>2, <1>3, <1>6, <2>1 DEF ListMatches
  <2>2. CASE p \in calls \ {call}
    <3> there.id = call.id
      BY <1>2
    <3> QED
      BY <1>3, <1>6, <2>2 DEF ListMatches
  <2> QED
    BY <1>3, <2>1, <2>2
<1>7. stored' = (Range(shown) \cup Arrived("post")') \ Arrived("delete")'
  <2>1. CASE call.op = "post"
    BY <1>3, <1>4, <1>5, <2>1 DEF ListMatches
  <2>2. CASE call.op = "delete"
    BY <1>3, <1>4, <2>2 DEF ListMatches
  <2> QED
    BY <1>1, <2>1, <2>2
<1> QED
  BY <1>3, <1>6, <1>7 DEF ListMatches

LEMMA CallsAreAnswered ==
  ASSUME FormTypeOK, ListMatches, NEW call \in calls, CallAnswered(call),
         ~outdatedForm' 
  PROVE  ListMatches'
<1> DEFINE Gone(op) == IF op = call.op THEN Arrived(op) \ {call.id} ELSE Arrived(op)
<1>1. /\ call.op \in {"post", "delete"} /\ call.id \in Ids /\ call.arrived \in BOOLEAN
      /\ call = [op |-> call.op, id |-> call.id, arrived |-> call.arrived]
  BY CallShape
<1>2. calls' = calls \ {call} /\ stored' = stored
  BY DEF CallAnswered, sourceVars
<1>3. ASSUME NEW p \in calls', p.op = "post"
      PROVE  /\ p \in calls /\ p.id # call.id /\ p.id \notin Range(shown)
             /\ \A c \in calls' \ {p} : c.id # p.id
  BY <1>2, <1>3 DEF ListMatches
<1>4. CASE call.arrived = FALSE
  <2>1. shown' = shown
    BY <1>4 DEF CallAnswered
  <2>2. \A op, id : [op |-> op, id |-> id, arrived |-> TRUE] # call
    BY <1>1, <1>4
  <2>3. Arrived("post")' = Arrived("post") /\ Arrived("delete")' = Arrived("delete")
    BY <1>2, <2>2 DEF Arrived
  <2> QED
    BY <1>2, <1>3, <2>1, <2>3 DEF ListMatches
<1>5. CASE call.arrived = TRUE
  <2>1. shown' = ShownAfter(call)
    BY <1>5 DEF CallAnswered
  <2>2. \A op, id : [op |-> op, id |-> id, arrived |-> TRUE] = call <=> op = call.op /\ id = call.id
    BY <1>1, <1>5
  <2>3. Arrived("post")' = Gone("post") /\ Arrived("delete")' = Gone("delete")
    BY <1>1, <1>2, <2>2 DEF Arrived
  <2>4. shown \in Seq(Ids) /\ IsInjective(shown)
    BY DEF FormTypeOK, ListMatches
  <2>5. call.id \in Arrived(call.op)
    BY <1>1, <2>2 DEF Arrived
  <2>6. CASE call.op = "post"
    <3>1. /\ call.id \notin Range(shown)
          /\ \A c \in calls \ {call} : c.id # call.id
      BY <2>6 DEF ListMatches
    <3>2. call.id \notin Arrived("delete")
      BY <2>6, <3>1 DEF Arrived
    <3>3. IsInjective(shown') /\ Range(shown') = {call.id} \cup Range(shown)
      <4> DEFINE one == <<call.id>>
      <4>1. one \in Seq(Ids) /\ DOMAIN one = 1..1 /\ one[1] = call.id
        BY <1>1
      <4>2. shown' = one \o shown
        BY <2>1, <2>6 DEF ShownAfter
      <4> HIDE DEF one
      <4>3. IsInjective(one) /\ Range(one) = {call.id}
        BY <4>1 DEF IsInjective, Range
      <4> QED
        BY <2>4, <3>1, <4>1, <4>2, <4>3, AppendedList
    <3>4. stored' = (Range(shown') \cup Arrived("post")') \ Arrived("delete")'
      BY <1>2, <2>3, <2>5, <2>6, <3>2, <3>3 DEF ListMatches
    <3>5. \A p \in calls' : p.op = "post" => p.id \notin Range(shown')
      BY <1>3, <3>3
    <3> QED
      BY <1>3, <3>3, <3>4, <3>5 DEF ListMatches
  <2>7. CASE call.op = "delete"
    <3>1. IsInjective(shown') /\ Range(shown') = Range(shown) \ {call.id}
      <4> DEFINE others == Ids \ {call.id}
      <4>1. shown' = Keep(shown, others)
        BY <2>1, <2>7 DEF ShownAfter
      <4>2. Range(shown) \subseteq Ids
        BY <2>4 DEF Range
      <4> HIDE DEF others
      <4>3. IsInjective(shown') /\ Range(shown') = Range(shown) \cap others
        BY <2>4, <4>1, KeepSound
      <4> QED
        BY <4>2, <4>3 DEF others
    <3>2. call.id \notin Arrived("post")
      <4> SUFFICES ASSUME call.id \in Arrived("post")
                   PROVE  FALSE
        OBVIOUS
      <4> DEFINE p == [op |-> "post", id |-> call.id, arrived |-> TRUE]
      <4>1. p \in calls /\ p.op = "post" /\ p.id = call.id
        BY DEF Arrived
      <4>2. p # call
        BY <2>7, <4>1
      <4> HIDE DEF p
      <4> QED
        BY <4>1, <4>2 DEF ListMatches
    <3>3. stored' = (Range(shown') \cup Arrived("post")') \ Arrived("delete")'
      BY <1>2, <2>3, <2>5, <2>7, <3>1, <3>2 DEF ListMatches
    <3>4. \A p \in calls' : p.op = "post" => p.id \notin Range(shown')
      BY <1>3, <3>1
    <3> QED
      BY <1>3, <3>1, <3>3, <3>4 DEF ListMatches
  <2> QED
    BY <1>1, <2>6, <2>7
<1> QED
  BY <1>1, <1>4, <1>5

LEMMA ListStep ==
  ASSUME FormInv, FormNext
  PROVE  ListIsCurrent'
<1> DEFINE List == form = "announcements"
           Good == IF loads = {} THEN ~loading => ListMatches
                   ELSE calls = {} /\ \A load \in loads : load.vals = stored
<1>0. /\ (List /\ Undisturbed => Good) /\ form' = form
      /\ (ListIsCurrent' <=> (List /\ Undisturbed' => Good'))
      /\ OfTheForm /\ FormTypeOK
  BY FormStays DEF FormInv, ListIsCurrent
<1>1. ASSUME UNCHANGED <<loads, loading, stored, shown, calls>>, Undisturbed' => Undisturbed
      PROVE  ListIsCurrent'
  BY <1>0, <1>1 DEF ListMatches, Arrived
<1>2. ~List \/ ~Undisturbed' => ListIsCurrent'
  BY <1>0
<1> USE DEF sourceVars, formVars, walletVars, readVars, announcementVars
<1>3. CASE OtherCard
  <2> ~List
    BY <1>3 DEF OtherCard, BackendForms
  <2> QED
    BY <1>2
<1>4. CASE OpenTab
  <2>1. loads' = {Load(stored)} /\ stored' = stored /\ calls' = calls
        /\ (crossed' <=> (tx # NoTx \/ calls # {}))
    BY <1>4 DEF OpenTab, TabLoads
  <2>2. Undisturbed' => calls' = {} /\ loads' # {} /\ \A load \in loads' : load.vals = stored'
    BY <2>1 DEF Undisturbed, Load
  <2> HIDE DEF Good
  <2>3. Undisturbed' => Good'
    BY <2>2 DEF Good
  <2> QED
    BY <1>0, <2>3
<1>5. CASE Save \/ SaveDone \/ SaveFailed
  <2> ~List
    BY <1>0, <1>5 DEF Save, SaveDone, SaveFailed, OfTheForm
  <2> QED
    BY <1>2
<1>6. CASE SaveElsewhere
  <2> ~Undisturbed'
    BY <1>6 DEF SaveElsewhere, Undisturbed
  <2> QED
    BY <1>2
<1>7. CASE \E read \in walletReads : WalletAnswered(read)
  <2>1. /\ UNCHANGED <<loads, loading, stored, shown, calls, crossed, outdatedForm>>
        /\ failed' = failed \/ failed' = TRUE
    BY <1>7 DEF WalletAnswered, SyncProofAge
  <2>2. Undisturbed' => Undisturbed
    BY <2>1 DEF Undisturbed
  <2> QED
    BY <1>1, <2>1, <2>2
<1>8. CASE \E load \in loads : LoadAnswered(load)
  <2>1. PICK load \in loads : LoadAnswered(load)
    BY <1>8
  <2>2. CASE failed' = TRUE
    BY <1>2, <2>2 DEF Undisturbed
  <2>3. CASE failed' = failed /\ form = "announcements" /\ shown' = SetToSeq(load.vals)
    <3>1. /\ loads' = loads \ {load} /\ stored' = stored /\ calls' = calls
          /\ UNCHANGED <<crossed, outdatedForm, failed>>
      BY <2>1, <2>3 DEF LoadAnswered
    <3> SUFFICES ASSUME Undisturbed'
                 PROVE  ListMatches' /\ loads' = {}
      BY <1>0
    <3>2. Undisturbed /\ calls = {} /\ load.vals = stored
      BY <1>0, <2>1, <2>3, <3>1 DEF Undisturbed
    <3>3. loads' = {}
      BY <1>0, <2>3, <3>1 DEF OfTheForm, BackendForms
    <3>4. IsFiniteSet(stored)
      <4> stored \subseteq Ids
        BY <1>0, <2>3 DEF FormTypeOK, Storable
      <4> QED
        BY FormAssumption, FS_Subset
    <3>5. Range(shown') = stored /\ IsInjective(shown')
      BY <2>3, <3>2, <3>4, SetToSeqSound
    <3>6. Arrived("post")' = {} /\ Arrived("delete")' = {}
      BY <3>1, <3>2 DEF Arrived
    <3>7. ListMatches'
      BY <3>1, <3>2, <3>5, <3>6 DEF ListMatches
    <3> QED
      BY <3>3, <3>7
  <2>4. CASE form # "announcements"
    BY <1>2, <2>4
  <2> QED
    BY <2>1, <2>2, <2>3, <2>4 DEF LoadAnswered
<1>9. CASE \E x \in Fields, v \in Values : Edit(x, v)
  <2> ~List
    BY <1>9 DEF Edit
  <2> QED
    BY <1>2
<1>10. ASSUME UNCHANGED <<loads, loading, crossed, failed>>,
              ~outdatedForm' => ~outdatedForm, calls # {},
              Undisturbed', List, ListMatches => ListMatches'
       PROVE  ListIsCurrent'
  <2>1. Undisturbed
    BY <1>10 DEF Undisturbed
  <2>2. CASE loads = {}
    BY <1>0, <1>10, <2>1, <2>2
  <2>3. CASE loads # {}
    BY <1>0, <1>10, <2>1, <2>3
  <2> QED
    BY <2>2, <2>3
<1>11. CASE \E id \in Ids : Post(id) \/ Delete(id)
  <2>1. PICK id \in Ids : Post(id) \/ Delete(id)
    BY <1>11
  <2> SUFFICES ASSUME Undisturbed', List
               PROVE  ListIsCurrent'
    BY <1>2
  <2>2. PICK op \in {"post", "delete"} :
          /\ UNCHANGED <<stored, shown, loads, loading, outdatedForm, failed>>
          /\ calls' = calls \cup {[op |-> op, id |-> id, arrived |-> FALSE]}
          /\ (crossed' <=> (crossed \/ loads # {}))
          /\ op = "post" => calls \cap Posts = {} /\ New(id)
          /\ op = "delete" => id \in Range(shown)
    BY <2>1 DEF Post, Delete
  <2>3. loads' = {} /\ loads = {} /\ Undisturbed
    BY <2>2 DEF Undisturbed
  <2>4. ListMatches => ListMatches'
    BY <1>0, <2>2, CallsGoOut
  <2> QED
    BY <1>0, <2>2, <2>3, <2>4
<1>12. CASE \E call \in Posts \cup Deletes : CallArrives(call) \/ CallAnswered(call)
  <2>1. PICK call \in Posts \cup Deletes : CallArrives(call) \/ CallAnswered(call)
    BY <1>12
  <2> SUFFICES ASSUME Undisturbed', List
               PROVE  ListIsCurrent'
    BY <1>2
  <2>2. call \in calls
    BY <2>1 DEF CallArrives, CallAnswered
  <2>3. /\ UNCHANGED <<loads, loading, crossed, failed>>
        /\ ~outdatedForm' => ~outdatedForm
    <3>1. CASE CallArrives(call)
      BY <3>1 DEF CallArrives
    <3>2. CASE CallAnswered(call)
      <4>1. UNCHANGED <<loads, loading, crossed, failed>>
        BY <3>2 DEF CallAnswered
      <4>2. UNCHANGED outdatedForm \/ outdatedForm' = (outdatedForm \/ call.arrived)
        BY <3>2 DEF CallAnswered
      <4>3. ~outdatedForm' => ~outdatedForm
        BY <4>2, Zenon
      <4> QED
        BY <4>1, <4>3
    <3> QED
      BY <2>1, <3>1, <3>2
  <2>4. ListMatches => ListMatches'
    <3> ~outdatedForm'
      BY DEF Undisturbed
    <3> QED
      BY <1>0, <2>1, <2>2, CallsArrive, CallsAreAnswered
  <2> HIDE DEF Good
  <2> QED
    BY <1>10, <2>2, <2>3, <2>4
<1> QED
  BY <1>3, <1>4, <1>5, <1>6, <1>7, <1>8, <1>9, <1>11, <1>12 DEF FormNext

THEOREM FormInvariance == FormSpec => []FormInv
<1>1. ASSUME FormInv, [FormNext]_formsVars
      PROVE  FormInv'
  <2>1. CASE FormNext
    BY <1>1, <2>1, FormTypeStep, OfTheFormStep, AsFilledStep, AsSeenStep, EditedSinceStep,
       CopyStep, FillingStep, ListStep DEF FormInv
  <2>2. CASE UNCHANGED formsVars
    BY <1>1, <2>2 DEF FormInv, formsVars, sourceVars, formVars, walletVars, readVars,
       announcementVars, FormTypeOK, Storable, OfTheForm, AsFilled, AsSeen, EditedSince,
       CopyIsCurrent, FillingIsCurrent, ListIsCurrent, ListMatches, Arrived, Undisturbed
  <2> QED
    BY <1>1, <2>1, <2>2
<1> QED
  BY FormInitInv, <1>1, PTL DEF FormSpec

\* The forms of AdminContent and its announcements: with nothing on its way, and nothing
\* crossed, failed or done elsewhere and no answer lost, the console shows what is stored.
THEOREM FormCatchesUpHolds == OwnerSpec => []FormCatchesUp
<1>1. ASSUME FormInv
      PROVE  FormCatchesUp
  <2> SUFFICES ASSUME Settled, Undisturbed
               PROVE  IF form = "announcements"
                      THEN ~loading => Range(shown) = stored /\ IsInjective(shown)
                      ELSE /\ form # "typed" =>
                                \A x \in Fields \ touched :
                                  base[x] # Unknown => input[x] = stored[x]
                           /\ form \notin BackendForms => copy = stored /\ isOwner = owns
    BY DEF FormCatchesUp
  <2>1. loads = {} /\ walletReads = {} /\ calls = {}
    BY DEF Settled
  <2>2. form \notin BackendForms => copy = stored /\ isOwner = owns
    BY <1>1, <2>1, Zenon DEF FormInv, CopyIsCurrent
  <2>3. CASE form = "announcements"
    <3> Arrived("post") = {} /\ Arrived("delete") = {}
      BY <2>1 DEF Arrived
    <3> QED
      BY <1>1, <2>1, <2>3 DEF FormInv, ListIsCurrent, ListMatches
  <2>4. ASSUME form \notin {"announcements", "typed"}, NEW x \in Fields \ touched,
               base[x] # Unknown
        PROVE  input[x] = stored[x]
    <3>1. input[x] = base[x]
      BY <1>1, <2>4 DEF FormInv, AsFilled
    <3>2. CASE form = "maxProofAge"
      BY <1>1, <2>4, <3>1, <3>2 DEF FormInv, AsFilled
    <3>3. CASE form \in ContractForms \cup {"metadata", "caGuide"}
      BY <1>1, <2>1, <2>4, <3>1, <3>3 DEF FormInv, FillingIsCurrent
    <3>4. form \in Forms
      BY <1>1 DEF FormInv, FormTypeOK
    <3> QED
      BY <2>4, <3>2, <3>3, <3>4, FormAssumption DEF ContractForms
  <2> QED
    BY <2>2, <2>3, <2>4
<1> QED
  BY <1>1, FormInvariance, PagesAreParts, PTL

\* handleSaveMetadata, handleSaveCaGuide, handleSetProofAge and the others: a save changes
\* only what was edited, or what was not on screen or had changed elsewhere.
THEOREM UneditedKeptHolds == OwnerSpec => UneditedKept
<1> DEFINE Kept(x) == \/ x \in tx.touched
                      \/ tx.base[x] \in Values \ {stored[x]}
                      \/ tx.base[x] = Unknown /\ form # "typed"
<1>1. ASSUME FormInv, [FormNext]_formsVars
      PROVE  [\A x \in Fields : tx # NoTx /\ tx' = NoTx /\ stored'[x] # stored[x] =>
                                  Kept(x)]_formsVars
  <2> SUFFICES ASSUME FormNext, NEW x \in Fields,
                      tx # NoTx, tx' = NoTx, stored'[x] # stored[x], x \notin tx.touched
               PROVE  Kept(x)
    BY <1>1
  <2> USE DEF sourceVars, formVars, walletVars, readVars, announcementVars
  <2>1. SaveDone \/ SaveFailed
    BY FormAssumption DEF FormNext, OtherCard, OpenTab, Save, SaveElsewhere, WalletAnswered,
       SyncProofAge, LoadAnswered, Edit, Post, Delete, CallArrives, CallAnswered
  <2>2. stored' = tx.vals
    BY <2>1 DEF SaveDone, SaveFailed
  <2>3. tx \in Sent
    BY <1>1 DEF FormInv, FormTypeOK
  <2>4. tx.base[x] \in Values \cup {Unknown}
    BY <2>3 DEF Sent
  <2>5. /\ tx.base[x] # Unknown => tx.vals[x] = tx.base[x]
        /\ form = "typed" => tx.base[x] # Unknown
    BY <1>1 DEF FormInv, AsSeen
  <2> QED
    BY <2>2, <2>4, <2>5
<1> QED
  BY <1>1, FormInvariance, PagesAreParts, PTL DEF UneditedKept, FormSpec

-----------------------------------------------------------------------------
(***************************************************************************)
(* The page that deploys.  The argument: an attempt carries what was on    *)
(* screen when it was started, its number is its own, and until its        *)
(* transaction is mined there is nothing under that number on chain or in  *)
(* the directory.  What is on screen is the fee as it is, once the one read *)
(* of the token's metadata is answered.                                    *)
(***************************************************************************)

FormShape == [named : BOOLEAN, limit : Limits, tags : SUBSET Tags, lowered : BOOLEAN]

Steps == {"allowance", "approve", "create", "confirming", "save"}

Tokens == {Native} \cup Erc20s

Attempt == [n : Nat, here : BOOLEAN, token : Tokens, fee : Nat, form : FormShape,
            shown : Nat, told : BOOLEAN, step : Steps]

Made == [n : Nat, limit : Limits, paid : FeeConfig, token : Tokens, shown : Nat,
         told : BOOLEAN, lowered : BOOLEAN]

Approved == [n : Nat, token : Erc20s, fee : Nat]

CreateTypeOK ==
  /\ config \in FeeConfig /\ allowance \in [Erc20s -> Nat]
  /\ registries \subseteq Made
  /\ directory \subseteq [n : Nat, tags : SUBSET Tags]
  /\ feeReads \subseteq [token : Tokens \cup {None}, fee : Nat \cup {None}]
  /\ feeToken \in Tokens /\ creationFee \in Nat
  /\ metaReads \in [Erc20s -> Nat] /\ tokenUnit \in Nat
  /\ metadataError \in BOOLEAN /\ metaCrossed \in BOOLEAN
  /\ newForm \in FormShape
  /\ attempts \subseteq Attempt
  /\ approvals \subseteq Approved
  /\ clicks \in Nat

\* The number of an attempt is the click that started it, and no other's.
Numbered ==
  /\ \A a \in attempts : a.n <= clicks
  /\ \A a, b \in attempts : a.n = b.n => a = b
  /\ \A r \in registries : r.n <= clicks
  /\ \A p \in approvals : p.n <= clicks
  /\ \A l \in directory : l.n <= clicks

\* An attempt has made a registry only when all that is left is to save it, and that
\* registry has the form of the attempt; nothing is listed for it yet.
MadeAtItsTime ==
  \A a \in attempts :
    /\ \A r \in registries : r.n = a.n =>
         a.step = "save" /\ r.limit = a.form.limit /\ r.lowered = a.form.lowered
    /\ \A l \in directory : l.n # a.n

\* What the factory may take of a token was approved by some attempt, for the fee that it
\* had read.
ApprovedByAttempts ==
  /\ \A t \in Erc20s :
       allowance[t] > 0 => \E p \in approvals : p.token = t /\ allowance[t] <= p.fee
  /\ \A a \in attempts :
       /\ a.step \in {"allowance", "approve"} => a.token \in Erc20s
       /\ \A p \in approvals : p.n = a.n => p.fee = a.fee /\ p.token = a.token

\* Reads of the metadata that did not cross are one, of the token of the fee; without an
\* error its answer is the unit of that token.
UnitOfToken ==
  ready /\ ~metaCrossed /\ feeToken # Native =>
    /\ \A t \in Erc20s : metaReads[t] > 0 => t = feeToken /\ metaReads[t] = 1
    /\ ~MetaUnderWay /\ ~metadataError => tokenUnit = UnitOf[feeToken]

\* An attempt that could tell the fee showed it.
ToldIsShown == \A a \in attempts : a.told => a.shown = a.fee * UnitOf[a.token]

\* A form asks for more wallets than its limit only if the limit was lowered.
Fits(f) == ~f.lowered => \A t \in f.tags : MinWallets[t] <= f.limit

FormsFit == Fits(newForm) /\ \A a \in attempts : Fits(a.form)

\* The status on screen belongs to the latest attempt; one that failed is over.
StatusOfLatest ==
  /\ \A a \in attempts :
       a.here /\ a.step # "save" =>
         a.n = clicks /\ status.phase \in {"pending", "confirming"}
  /\ status.phase = "error" => \A a \in attempts : a.n # clicks

CreateInv ==
  /\ CreateTypeOK /\ Numbered /\ MadeAtItsTime /\ ApprovedByAttempts
  /\ UnitOfToken /\ ToldIsShown /\ FormsFit /\ StatusOfLatest
  /\ PaidAsShown /\ ListedTagsFit /\ OutcomeShown

-----------------------------------------------------------------------------
LEMMA UnitTypes ==
  /\ Native \notin Erc20s /\ None \notin Tokens
  /\ \A t \in Tokens : UnitOf[t] \in Nat
<1>1. \A t \in Tokens : UnitOf[t] \in Nat
  BY CreateAssumption DEF Tokens
<1> QED
  BY <1>1, CreateAssumption DEF Tokens

LEMMA CreateInitInv == CreateInit => CreateInv
<1> SUFFICES ASSUME CreateInit
             PROVE  CreateInv
  OBVIOUS
<1>1. CreateTypeOK
  <2>1. config \in FeeConfig /\ registries = {} /\ directory = {} /\ attempts = {}
        /\ approvals = {} /\ clicks = 0
    BY CreateAssumption DEF CreateInit
  <2>2. allowance \in [Erc20s -> Nat] /\ metaReads \in [Erc20s -> Nat]
    BY DEF CreateInit
  <2>3. tokenUnit \in Nat /\ feeToken \in Tokens /\ creationFee \in Nat
    BY CreateAssumption, UnitTypes DEF CreateInit, Tokens
  <2>4. feeReads \subseteq [token : Tokens \cup {None}, fee : Nat \cup {None}]
    BY DEF CreateInit, NewRead
  <2>5. metadataError \in BOOLEAN /\ metaCrossed \in BOOLEAN
    BY DEF CreateInit
  <2>6. newForm \in FormShape
    BY CreateAssumption DEF CreateInit, EmptyForm, FormShape
  <2> QED
    BY <2>1, <2>2, <2>3, <2>4, <2>5, <2>6 DEF CreateTypeOK
<1>5. UnitOfToken /\ ToldIsShown
  BY DEF CreateInit, UnitOfToken, ToldIsShown
<1>2. Numbered /\ MadeAtItsTime /\ ApprovedByAttempts /\ StatusOfLatest
  BY DEF CreateInit, Numbered, MadeAtItsTime, ApprovedByAttempts, StatusOfLatest, Idle
<1>3. FormsFit
  BY DEF CreateInit, FormsFit, Fits, EmptyForm
<1>4. PaidAsShown /\ ListedTagsFit /\ OutcomeShown
  BY DEF CreateInit, PaidAsShown, ListedTagsFit, OutcomeShown, Idle
<1> QED
  BY <1>1, <1>2, <1>3, <1>4, <1>5 DEF CreateInv

\* A fee in tokens is collected only up to what was allowed.
LEMMA CollectsTokens ==
  ASSUME NEW value, Collects(value), config.fee \in Nat, config.fee > 0,
         config.token # Native, config.token \in Erc20s
  PROVE  allowance[config.token] >= config.fee
<1>1. config.fee # 0
  OBVIOUS
<1> QED
  BY <1>1 DEF Collects

\* The updates of an attempt change one field.
LEMMA AttemptFields ==
  ASSUME NEW a \in Attempt
  PROVE  /\ \A s \in Steps :
              LET b == [a EXCEPT !.step = s]
              IN  /\ b \in Attempt /\ b.n = a.n /\ b.here = a.here /\ b.token = a.token
                  /\ b.fee = a.fee /\ b.form = a.form /\ b.shown = a.shown
                  /\ b.told = a.told /\ b.step = s
         /\ LET b == [a EXCEPT !.here = FALSE]
            IN  /\ b \in Attempt /\ b.n = a.n /\ b.here = FALSE /\ b.token = a.token
                /\ b.fee = a.fee /\ b.form = a.form /\ b.shown = a.shown
                /\ b.told = a.told /\ b.step = a.step
  BY DEF Attempt

\* What the fee and the form do, as long as neither chain nor attempts change.
LEMMA NothingDeployed ==
  ASSUME CreateInv, CreateTypeOK', Fits(newForm)', UnitOfToken',
         UNCHANGED <<allowance, registries, directory, attempts, approvals, clicks, lost,
                     status>>
  PROVE  CreateInv'
<1>1. /\ Numbered' /\ MadeAtItsTime' /\ ApprovedByAttempts' /\ StatusOfLatest'
      /\ ToldIsShown'
  BY DEF CreateInv, Numbered, MadeAtItsTime, ApprovedByAttempts, StatusOfLatest, ToldIsShown
<1>2. FormsFit'
  BY DEF CreateInv, FormsFit, Fits
<1>3. PaidAsShown' /\ ListedTagsFit' /\ OutcomeShown'
  BY DEF CreateInv, PaidAsShown, ListedTagsFit, OutcomeShown
<1> QED
  BY <1>1, <1>2, <1>3 DEF CreateInv

\* The effect that reads the metadata: alone, or it crosses another read.
LEMMA MetadataRead ==
  ASSUME CreateTypeOK, NEW token \in Tokens, ReadMetadata(token), feeToken' = token
  PROVE  /\ metaReads' \in [Erc20s -> Nat] /\ metaCrossed' \in BOOLEAN
         /\ UnitOfToken'
<1>1. CASE token = Native
  BY <1>1 DEF ReadMetadata, CreateTypeOK, UnitOfToken
<1>2. CASE token # Native
  <2>1. /\ token \in Erc20s /\ metaReads \in [Erc20s -> Nat]
        /\ metaReads' = [metaReads EXCEPT ![token] = @ + 1] /\ metaCrossed' = MetaUnderWay
    BY <1>2 DEF ReadMetadata, CreateTypeOK, Tokens
  <2>2. metaReads' \in [Erc20s -> Nat]
    BY <2>1
  <2>3. MetaUnderWay \in BOOLEAN
    BY DEF MetaUnderWay
  <2>4. metaReads'[token] = metaReads[token] + 1 /\ metaReads[token] \in Nat
    BY <2>1
  <2>5. MetaUnderWay'
    BY <2>1, <2>4 DEF MetaUnderWay
  <2>6. ASSUME ~metaCrossed', NEW t \in Erc20s, metaReads'[t] > 0
        PROVE  t = token /\ metaReads'[t] = 1
    <3>1. metaReads[t] \in Nat /\ ~(metaReads[t] > 0) /\ ~(metaReads[token] > 0)
      BY <2>1, <2>6 DEF MetaUnderWay
    <3>2. t # token => metaReads'[t] = metaReads[t]
      BY <2>1
    <3> QED
      BY <2>4, <2>6, <3>1, <3>2
  <2> QED
    BY <2>1, <2>2, <2>3, <2>5, <2>6 DEF UnitOfToken
<1> QED
  BY <1>1, <1>2

LEMMA FeeStep ==
  ASSUME CreateInv,
         \/ DisconnectWallet \/ Connect
         \/ \E c \in Charges : SetFeeConfig(c)
         \/ \E r \in feeReads : ReadAnswered(r) \/ FeeLoaded(r) \/ FeeFails(r)
         \/ \E t \in Erc20s : MetadataAnswered(t)
  PROVE  CreateInv'
<1> USE DEF chainVars, feeVars, metaVars, userVars
<1>0. CreateTypeOK /\ Fits(newForm) /\ UnitOfToken
  BY DEF CreateInv, FormsFit
<1>9. ASSUME UNCHANGED <<metaVars, feeToken>>, ready' => ready
      PROVE  UnitOfToken'
  BY <1>0, <1>9 DEF UnitOfToken, MetaUnderWay
<1>1. CASE DisconnectWallet
  <2>1. CreateTypeOK'
    BY <1>0, <1>1 DEF DisconnectWallet, CreateTypeOK
  <2>2. UnitOfToken'
    BY <1>1 DEF DisconnectWallet, UnitOfToken
  <2> QED
    BY <1>0, <1>1, <2>1, <2>2, NothingDeployed DEF DisconnectWallet, Fits
<1>2. CASE Connect
  <2>1. /\ metaReads' \in [Erc20s -> Nat] /\ metaCrossed' \in BOOLEAN
        /\ UnitOfToken'
    BY <1>0, <1>2, MetadataRead DEF Connect, CreateTypeOK
  <2>2. CreateTypeOK'
    BY <1>0, <1>2, <2>1 DEF Connect, CreateTypeOK, NewRead
  <2> QED
    BY <1>0, <1>2, <2>1, <2>2, NothingDeployed DEF Connect, Fits
<1>3. ASSUME NEW c \in Charges, SetFeeConfig(c)
      PROVE  CreateInv'
  <2>1. CreateTypeOK' /\ UnitOfToken'
    BY <1>0, <1>3, <1>9, CreateAssumption DEF SetFeeConfig, CreateTypeOK
  <2> QED
    BY <1>0, <1>3, <2>1, NothingDeployed DEF SetFeeConfig, Fits
<1>4. ASSUME NEW r \in feeReads, ReadAnswered(r)
      PROVE  CreateInv'
  <2>1. PICK part \in {"token", "fee"} :
           feeReads' = (feeReads \ {r}) \cup {[r EXCEPT ![part] = config[part]]}
    BY <1>4 DEF ReadAnswered
  <2>2. [r EXCEPT ![part] = config[part]]
          \in [token : Tokens \cup {None}, fee : Nat \cup {None}]
    <3>1. CASE part = "token"
      BY <1>0, <3>1 DEF CreateTypeOK, FeeConfig, Tokens
    <3>2. CASE part = "fee"
      BY <1>0, <3>2 DEF CreateTypeOK, FeeConfig
    <3> QED
      BY <3>1, <3>2
  <2>3. CreateTypeOK' /\ UnitOfToken'
    BY <1>0, <1>4, <1>9, <2>1, <2>2 DEF ReadAnswered, CreateTypeOK
  <2> QED
    BY <1>0, <1>4, <2>3, NothingDeployed DEF ReadAnswered, Fits
<1>5. ASSUME NEW r \in feeReads, FeeLoaded(r)
      PROVE  CreateInv'
  <2>1. r.token \in Tokens /\ r.fee \in Nat
    BY <1>0, <1>5 DEF FeeLoaded, CreateTypeOK
  <2>2. metaReads' \in [Erc20s -> Nat] /\ metaCrossed' \in BOOLEAN /\ UnitOfToken'
    <3>1. CASE ready /\ r.token # feeToken
      BY <1>0, <1>5, <2>1, <3>1, MetadataRead DEF FeeLoaded
    <3>2. CASE ready /\ r.token = feeToken
      BY <1>0, <1>5, <1>9, <3>2 DEF FeeLoaded, CreateTypeOK
    <3>3. CASE ~ready
      BY <1>0, <1>5, <3>3 DEF FeeLoaded, CreateTypeOK, UnitOfToken
    <3> QED
      BY <3>1, <3>2, <3>3
  <2>3. CreateTypeOK'
    BY <1>0, <1>5, <2>1, <2>2 DEF FeeLoaded, CreateTypeOK
  <2> QED
    BY <1>0, <1>5, <2>2, <2>3, NothingDeployed DEF FeeLoaded, Fits
<1>6. ASSUME NEW r \in feeReads, FeeFails(r)
      PROVE  CreateInv'
  <2>1. CreateTypeOK' /\ UnitOfToken'
    BY <1>0, <1>6, <1>9 DEF FeeFails, CreateTypeOK
  <2> QED
    BY <1>0, <1>6, <2>1, NothingDeployed DEF FeeFails, Fits
<1>7. ASSUME NEW t \in Erc20s, MetadataAnswered(t)
      PROVE  CreateInv'
  <2>1. /\ metaReads[t] > 0 /\ metaReads \in [Erc20s -> Nat]
        /\ metaReads' = [metaReads EXCEPT ![t] = @ - 1]
        /\ UNCHANGED <<ready, metaCrossed, feeToken>>
        /\ \/ tokenUnit' = UnitOf[t] /\ metadataError' = FALSE
           \/ tokenUnit' = tokenUnit /\ metadataError' = TRUE
    BY <1>0, <1>7 DEF MetadataAnswered, CreateTypeOK
  <2>2. metaReads' \in [Erc20s -> Nat]
    BY <2>1
  <2>3. UnitOf[t] \in Nat
    BY UnitTypes DEF Tokens
  <2>4. CreateTypeOK'
    BY <1>0, <1>7, <2>1, <2>2, <2>3 DEF MetadataAnswered, CreateTypeOK
  <2>5. UnitOfToken'
    <3> SUFFICES ASSUME ready, ~metaCrossed, feeToken # Native
                 PROVE  /\ \A s \in Erc20s : ~(metaReads'[s] > 0)
                        /\ ~metadataError' => tokenUnit' = UnitOf[feeToken]
      BY <2>1 DEF UnitOfToken
    <3>1. /\ \A s \in Erc20s : metaReads[s] > 0 => s = feeToken /\ metaReads[s] = 1
          /\ t = feeToken /\ metaReads[t] = 1
      BY <1>0, <2>1 DEF UnitOfToken
    <3>2. metaReads'[t] = 0
      BY <2>1, <3>1
    <3>3. \A s \in Erc20s : s # t => metaReads'[s] = metaReads[s] /\ ~(metaReads[s] > 0)
      BY <2>1, <3>1
    <3> QED
      BY <2>1, <3>1, <3>2, <3>3
  <2> QED
    BY <1>0, <1>7, <2>4, <2>5, NothingDeployed DEF MetadataAnswered, Fits
<1> QED
  BY <1>1, <1>2, <1>3, <1>4, <1>5, <1>6, <1>7

\* An edit of the form touches nothing else that the invariant speaks of.
LEMMA EditKeeps ==
  ASSUME CreateInv, NEW f \in FormShape, Fits(f), EditForm(f)
  PROVE  CreateInv'
<1>1. CreateTypeOK'
  BY DEF CreateInv, CreateTypeOK, EditForm, chainVars, feeVars, metaVars
<1>2. Fits(newForm)'
  BY DEF EditForm, Fits
<1>3. UnitOfToken'
  BY DEF CreateInv, UnitOfToken, MetaUnderWay, EditForm, feeVars, metaVars
<1> QED
  BY <1>1, <1>2, <1>3, NothingDeployed DEF EditForm, chainVars, feeVars

LEMMA FormStep ==
  ASSUME CreateInv,
         \/ SetName
         \/ \E n \in Limits : SetMaxWallets(n)
         \/ \E t \in Tags : ToggleUseCase(t)
  PROVE  CreateInv'
<1>0. newForm \in FormShape /\ Fits(newForm)
  BY DEF CreateInv, CreateTypeOK, FormsFit
<1>1. CASE SetName
  <2> [newForm EXCEPT !.named = TRUE] \in FormShape /\ Fits([newForm EXCEPT !.named = TRUE])
    BY <1>0 DEF FormShape, Fits
  <2> QED
    BY <1>1, EditKeeps DEF SetName
<1>2. ASSUME NEW n \in Limits, SetMaxWallets(n)
      PROVE  CreateInv'
  <2> DEFINE low == newForm.lowered \/ \E t \in newForm.tags : MinWallets[t] > n
             f == [newForm EXCEPT !.limit = n, !.lowered = low]
  <2>1. low \in BOOLEAN
    BY <1>0 DEF FormShape
  <2>2. f \in FormShape /\ f.limit = n /\ f.tags = newForm.tags /\ f.lowered = low
    <3> HIDE DEF low
    <3> QED
      BY <1>0, <2>1 DEF FormShape
  <2>3. n \in Nat /\ \A t \in newForm.tags : MinWallets[t] \in Nat
    BY <1>0, CreateAssumption DEF FormShape
  <2>4. Fits(f)
    <3> SUFFICES ASSUME ~low, NEW t \in newForm.tags
                 PROVE  MinWallets[t] <= n
      BY <2>2 DEF Fits
    <3>1. ~(MinWallets[t] > n)
      OBVIOUS
    <3> QED
      BY <2>3, <3>1
  <2>5. EditForm(f)
    BY <1>2 DEF SetMaxWallets
  <2> QED
    BY <2>2, <2>4, <2>5, EditKeeps
<1>3. ASSUME NEW t \in Tags, ToggleUseCase(t)
      PROVE  CreateInv'
  <2> DEFINE ts == IF t \in newForm.tags THEN newForm.tags \ {t} ELSE newForm.tags \cup {t}
             f == [newForm EXCEPT !.tags = ts]
  <2>1. ts \in SUBSET Tags
    BY <1>0 DEF FormShape
  <2>2. f \in FormShape /\ f.limit = newForm.limit /\ f.tags = ts /\ f.lowered = newForm.lowered
    <3> HIDE DEF ts
    <3> QED
      BY <1>0, <2>1 DEF FormShape
  <2>3. newForm.limit \in Nat /\ MinWallets[t] \in Nat
    BY <1>0, CreateAssumption DEF FormShape
  <2>4. t \notin newForm.tags => MinWallets[t] <= newForm.limit
    BY <1>3, <2>3 DEF ToggleUseCase
  <2>5. Fits(f)
    BY <1>0, <2>2, <2>4 DEF Fits
  <2>6. EditForm(f)
    BY <1>3 DEF ToggleUseCase
  <2> QED
    BY <2>2, <2>5, <2>6, EditKeeps
<1> QED
  BY <1>1, <1>2, <1>3

-----------------------------------------------------------------------------
LEMMA GoesOn ==
  ASSUME CreateInv, NEW a \in attempts, NEW s \in Steps, Goes(a, s)
  PROVE  \E b \in Attempt :
           /\ attempts' = (attempts \ {a}) \cup {b}
           /\ b.n = a.n /\ b.here = a.here /\ b.token = a.token /\ b.fee = a.fee
           /\ b.form = a.form /\ b.shown = a.shown /\ b.told = a.told /\ b.step = s
<1> DEFINE b == [a EXCEPT !.step = s]
<1>1. a \in Attempt
  BY DEF CreateInv, CreateTypeOK
<1>2. /\ b \in Attempt /\ b.n = a.n /\ b.here = a.here /\ b.token = a.token
      /\ b.fee = a.fee /\ b.form = a.form /\ b.shown = a.shown /\ b.told = a.told
      /\ b.step = s
  BY <1>1, AttemptFields
<1>3. attempts' = (attempts \ {a}) \cup {b}
  BY DEF Goes
<1> QED
  BY <1>2, <1>3

\* A step of an attempt whose transaction has not been sent, or is only sent: it goes on
\* or ends, and its status is shown while its page is there.
LEMMA BeforeMined ==
  ASSUME CreateInv, NEW a \in attempts, a.step \in {"allowance", "approve", "create"},
         \/ Ends(a) /\ \E phase \in {"idle", "error"} : ShowStatus(a, phase, None)
         \/ \E s \in {"approve", "create", "confirming"} :
              /\ Goes(a, s)
              /\ status' = status \/ ShowStatus(a, "confirming", None),
         UNCHANGED <<config, registries, directory, feeVars, ready, newForm, clicks, lost>>,
         ApprovedByAttempts', allowance' \in [Erc20s -> Nat], approvals \subseteq approvals',
         approvals' \subseteq Approved, \A p \in approvals' : p.n <= clicks
  PROVE  CreateInv'
<1>0. /\ CreateTypeOK /\ Numbered /\ MadeAtItsTime /\ UnitOfToken /\ ToldIsShown /\ FormsFit
      /\ StatusOfLatest /\ PaidAsShown /\ ListedTagsFit /\ OutcomeShown
  BY DEF CreateInv
<1>1. /\ \A r \in registries : r.n # a.n
      /\ a.here => a.n = clicks /\ status.phase \in {"pending", "confirming"}
  BY <1>0 DEF MadeAtItsTime, StatusOfLatest
<1>2. PaidAsShown' /\ ListedTagsFit' /\ UnitOfToken'
  BY <1>0 DEF PaidAsShown, ListedTagsFit, UnitOfToken, MetaUnderWay, feeVars, metaVars
<1>3. CASE Ends(a) /\ \E phase \in {"idle", "error"} : ShowStatus(a, phase, None)
  <2>1. PICK phase \in {"idle", "error"} : Ends(a) /\ ShowStatus(a, phase, None)
    BY <1>3
  <2>2. CreateTypeOK'
    BY <1>0, <2>1 DEF Ends, CreateTypeOK, feeVars, metaVars
  <2>3. Numbered' /\ MadeAtItsTime'
    BY <1>0, <2>1 DEF Ends, Numbered, MadeAtItsTime
  <2>4. FormsFit' /\ ToldIsShown'
    BY <1>0, <2>1 DEF Ends, FormsFit, Fits, ToldIsShown
  <2>5. CASE a.here
    <3>1. status' = [phase |-> phase, registry |-> None]
      BY <2>1, <2>5 DEF ShowStatus
    <3>2. \A b \in attempts' : b.n # clicks
      BY <1>0, <1>1, <2>1, <2>5 DEF Numbered, Ends
    <3>3. \A b \in attempts' : ~(b.here /\ b.step # "save")
      BY <1>0, <2>1, <3>2 DEF StatusOfLatest, Ends
    <3>4. StatusOfLatest'
      BY <3>1, <3>2, <3>3 DEF StatusOfLatest
    <3>5. OutcomeShown'
      BY <1>1, <2>5, <3>1 DEF OutcomeShown
    <3> QED
      BY <1>2, <2>2, <2>3, <2>4, <3>4, <3>5 DEF CreateInv
  <2>6. CASE ~a.here
    <3>1. status' = status
      BY <2>1, <2>6 DEF ShowStatus
    <3>2. StatusOfLatest' /\ OutcomeShown'
      BY <1>0, <2>1, <3>1 DEF StatusOfLatest, OutcomeShown, Ends
    <3> QED
      BY <1>2, <2>2, <2>3, <2>4, <3>2 DEF CreateInv
  <2> QED
    BY <2>5, <2>6
<1>4. CASE \E s \in {"approve", "create", "confirming"} :
             Goes(a, s) /\ (status' = status \/ ShowStatus(a, "confirming", None))
  <2>1. PICK s \in {"approve", "create", "confirming"} :
           Goes(a, s) /\ (status' = status \/ ShowStatus(a, "confirming", None))
    BY <1>4
  <2>2. PICK b \in Attempt :
           /\ attempts' = (attempts \ {a}) \cup {b}
           /\ b.n = a.n /\ b.here = a.here /\ b.token = a.token /\ b.fee = a.fee
           /\ b.form = a.form /\ b.shown = a.shown /\ b.told = a.told /\ b.step = s
    BY <2>1, GoesOn DEF Steps
  <2>3. CreateTypeOK'
    BY <1>0, <2>2 DEF CreateTypeOK, feeVars, metaVars
  <2>4. Numbered'
    BY <1>0, <2>2 DEF Numbered
  <2>5. MadeAtItsTime'
    BY <1>0, <1>1, <2>2 DEF MadeAtItsTime
  <2>6. FormsFit' /\ ToldIsShown'
    BY <1>0, <2>2 DEF FormsFit, Fits, ToldIsShown
  <2>7. status' = status \/ (a.here /\ status' = [phase |-> "confirming", registry |-> None])
    BY <2>1 DEF ShowStatus
  <2>8. status.phase = "error" => ~a.here /\ status' = status
    BY <1>1, <2>7
  <2>9. StatusOfLatest'
    <3>1. ASSUME NEW d \in attempts', d.here, d.step # "save"
          PROVE  d.n = clicks /\ status'.phase \in {"pending", "confirming"}
      BY <1>0, <1>1, <2>2, <2>7, <3>1 DEF StatusOfLatest
    <3>2. ASSUME status'.phase = "error", NEW d \in attempts'
          PROVE  d.n # clicks
      <4>1. status.phase = "error"
        BY <2>7, <3>2
      <4> QED
        BY <1>0, <2>2, <4>1 DEF StatusOfLatest
    <3> QED
      BY <3>1, <3>2 DEF StatusOfLatest
  <2>10. OutcomeShown'
    BY <1>0, <2>7 DEF OutcomeShown
  <2> QED
    BY <1>2, <2>3, <2>4, <2>5, <2>6, <2>9, <2>10 DEF CreateInv
<1> QED
  BY <1>3, <1>4

LEMMA DeployStep ==
  ASSUME CreateInv, Deploy
  PROVE  CreateInv'
<1> DEFINE a == [n |-> clicks + 1, here |-> TRUE, token |-> feeToken, fee |-> creationFee,
                 form |-> newForm, shown |-> FeeDisplay, told |-> FeeTold,
                 step |-> IF feeToken # Native /\ creationFee > 0
                          THEN "allowance" ELSE "create"]
<1>0. /\ CreateTypeOK /\ Numbered /\ MadeAtItsTime /\ ApprovedByAttempts /\ UnitOfToken
      /\ ToldIsShown /\ FormsFit /\ StatusOfLatest
      /\ PaidAsShown /\ ListedTagsFit /\ OutcomeShown
  BY DEF CreateInv
<1>1. /\ attempts' = attempts \cup {a} /\ clicks' = clicks + 1 /\ clicks \in Nat
      /\ status' = [phase |-> "pending", registry |-> None]
      /\ status.phase \notin {"pending", "confirming"}
      /\ UNCHANGED <<chainVars, directory, feeVars, ready, newForm, lost>> /\ ready
  BY <1>0 DEF Deploy, CanDeploy, CreateTypeOK
<1>13. FeeDisplay \in Nat /\ FeeTold \in BOOLEAN
  <2>1. creationFee \in Nat /\ tokenUnit \in Nat /\ UnitOf[Native] \in Nat
    BY <1>0, UnitTypes DEF CreateTypeOK, Tokens
  <2>2. \A x, y \in Nat : x * y \in Nat
    OBVIOUS
  <2> QED
    BY <2>1, <2>2 DEF FeeDisplay, FeeTold
<1>14. FeeTold => FeeDisplay = creationFee * UnitOf[feeToken]
  BY <1>0, <1>1 DEF UnitOfToken, FeeTold, FeeDisplay
<1> HIDE DEF FeeDisplay, FeeTold
<1>2. /\ a \in Attempt /\ a.n = clicks + 1 /\ a.here = TRUE /\ a.form = newForm
      /\ a.step \in {"allowance", "create"} /\ (a.step = "allowance" => a.token \in Erc20s)
      /\ a.told = FeeTold /\ a.shown = FeeDisplay
      /\ a.fee = creationFee /\ a.token = feeToken
  BY <1>0, <1>1, <1>13 DEF CreateTypeOK, Attempt, Steps, Tokens
<1> HIDE DEF a
<1>15. ToldIsShown'
  BY <1>0, <1>1, <1>2, <1>14 DEF ToldIsShown
<1>16. UnitOfToken'
  BY <1>0, <1>1 DEF UnitOfToken, MetaUnderWay, feeVars, metaVars
<1>3. CreateTypeOK'
  BY <1>0, <1>1, <1>2 DEF CreateTypeOK, chainVars, feeVars, metaVars
<1>4. /\ \A b \in attempts : b.n \in Nat /\ b.n <= clicks
      /\ \A r \in registries : r.n \in Nat /\ r.n <= clicks
      /\ \A p \in approvals : p.n \in Nat /\ p.n <= clicks
      /\ \A l \in directory : l.n \in Nat /\ l.n <= clicks
  BY <1>0 DEF CreateTypeOK, Numbered, Attempt, Made, Approved
<1>5. Numbered'
  <2>1. \A n \in Nat : n <= clicks => n <= clicks + 1 /\ n # clicks + 1
    BY <1>1
  <2> QED
    BY <1>0, <1>1, <1>2, <1>4, <2>1 DEF Numbered, chainVars
<1>6. \A n \in Nat : n <= clicks => n # clicks + 1
  BY <1>1
<1>7. \A l \in directory : l.n # clicks + 1
  BY <1>4, <1>6
<1>8. MadeAtItsTime'
  BY <1>0, <1>1, <1>2, <1>4, <1>6, <1>7 DEF MadeAtItsTime, chainVars
<1>9. ApprovedByAttempts'
  BY <1>0, <1>1, <1>2, <1>4, <1>6 DEF ApprovedByAttempts, chainVars
<1>10. FormsFit'
  BY <1>0, <1>1, <1>2 DEF FormsFit, Fits
<1>11. StatusOfLatest'
  BY <1>0, <1>1, <1>2 DEF StatusOfLatest
<1>12. PaidAsShown' /\ ListedTagsFit' /\ OutcomeShown'
  BY <1>0, <1>1 DEF PaidAsShown, ListedTagsFit, OutcomeShown, chainVars
<1> QED
  BY <1>3, <1>5, <1>8, <1>9, <1>10, <1>11, <1>12, <1>15, <1>16 DEF CreateInv

LEMMA AllowanceStep ==
  ASSUME CreateInv, NEW a \in attempts,
         ReadAllowance(a) \/ DeployRefused(a) \/ Send(a)
  PROVE  CreateInv'
<1>0. CreateTypeOK /\ Numbered /\ ApprovedByAttempts
  BY DEF CreateInv
<1>1. UNCHANGED <<chainVars, directory, feeVars, userVars, lost>>
  BY DEF ReadAllowance, DeployRefused, Send
<1>2. /\ a.step \in {"allowance", "approve", "create"}
      /\ \/ Ends(a) /\ \E phase \in {"idle", "error"} : ShowStatus(a, phase, None)
         \/ \E s \in {"approve", "create", "confirming"} :
              /\ Goes(a, s) /\ (s = "approve" => a.step = "allowance")
              /\ status' = status \/ ShowStatus(a, "confirming", None)
  BY DEF ReadAllowance, DeployRefused, Send
<1>3. ApprovedByAttempts'
  <2>1. CASE Ends(a)
    BY <1>0, <1>1, <2>1 DEF ApprovedByAttempts, Ends, chainVars
  <2>2. ASSUME NEW s \in {"approve", "create", "confirming"}, Goes(a, s),
               s = "approve" => a.step = "allowance"
        PROVE  ApprovedByAttempts'
    <3>1. PICK b \in Attempt :
             /\ attempts' = (attempts \ {a}) \cup {b}
             /\ b.n = a.n /\ b.here = a.here /\ b.token = a.token /\ b.fee = a.fee
             /\ b.form = a.form /\ b.shown = a.shown /\ b.told = a.told /\ b.step = s
      BY <2>2, GoesOn DEF Steps
    <3> QED
      BY <1>0, <1>1, <2>2, <3>1 DEF ApprovedByAttempts, chainVars
  <2> QED
    BY <1>2, <2>1, <2>2
<1>4. /\ allowance' \in [Erc20s -> Nat] /\ approvals' = approvals
      /\ approvals' \subseteq Approved /\ \A p \in approvals' : p.n <= clicks
      /\ UNCHANGED <<config, registries, directory, feeVars, ready, newForm, clicks, lost>>
  BY <1>0, <1>1 DEF CreateTypeOK, Numbered, chainVars, userVars
<1> QED
  BY <1>2, <1>3, <1>4, BeforeMined

LEMMA ApproveStep ==
  ASSUME CreateInv, NEW a \in attempts, Approve(a)
  PROVE  CreateInv'
<1> DEFINE p == [n |-> a.n, token |-> a.token, fee |-> a.fee]
<1>0. CreateTypeOK /\ Numbered /\ ApprovedByAttempts
  BY DEF CreateInv
<1>1. /\ a.step = "approve" /\ allowance' = [allowance EXCEPT ![a.token] = a.fee]
      /\ approvals' = approvals \cup {p}
      /\ UNCHANGED <<config, registries, directory, feeVars, userVars, lost>>
      /\ \/ Goes(a, "create") /\ UNCHANGED status
         \/ Ends(a) /\ ShowStatus(a, "error", None)
  BY DEF Approve, Approval
<1>2. /\ a.n \in Nat /\ a.fee \in Nat /\ a.token \in Erc20s
      /\ p.n = a.n /\ p.fee = a.fee /\ p.token = a.token
  BY <1>0, <1>1, UnitTypes DEF CreateTypeOK, Attempt, ApprovedByAttempts
<1> HIDE DEF p
<1>5. allowance \in [Erc20s -> Nat] /\ allowance' \in [Erc20s -> Nat]
  BY <1>0, <1>1, <1>2 DEF CreateTypeOK
<1>6. \A t \in Erc20s :
        allowance'[t] > 0 => \E q \in approvals' : q.token = t /\ allowance'[t] <= q.fee
  <2> SUFFICES ASSUME NEW t \in Erc20s, allowance'[t] > 0
               PROVE  \E q \in approvals' : q.token = t /\ allowance'[t] <= q.fee
    OBVIOUS
  <2>1. CASE t = a.token
    <3> allowance'[t] = a.fee
      BY <1>1, <1>5, <2>1
    <3> p \in approvals' /\ p.token = t /\ allowance'[t] <= p.fee
      BY <1>1, <1>2, <2>1
    <3> QED
      OBVIOUS
  <2>2. CASE t # a.token
    <3> allowance'[t] = allowance[t]
      BY <1>1, <1>5, <2>2
    <3> QED
      BY <1>0, <1>1 DEF ApprovedByAttempts
  <2> QED
    BY <2>1, <2>2
<1>3. ApprovedByAttempts'
  <2>2. \A b \in attempts : b.n = a.n => b = a
    BY <1>0 DEF Numbered
  <2>3. CASE Ends(a)
    BY <1>0, <1>1, <1>2, <1>6, <2>2, <2>3 DEF ApprovedByAttempts, Ends
  <2>4. CASE Goes(a, "create")
    <3>1. PICK b \in Attempt :
             /\ attempts' = (attempts \ {a}) \cup {b}
             /\ b.n = a.n /\ b.here = a.here /\ b.token = a.token /\ b.fee = a.fee
             /\ b.form = a.form /\ b.shown = a.shown /\ b.told = a.told /\ b.step = "create"
      BY <2>4, GoesOn DEF Steps
    <3> QED
      BY <1>0, <1>1, <1>2, <1>6, <2>2, <3>1 DEF ApprovedByAttempts
  <2> QED
    BY <1>1, <2>3, <2>4
<1>4. /\ approvals \subseteq approvals'
      /\ approvals' \subseteq Approved /\ \A q \in approvals' : q.n <= clicks
      /\ UNCHANGED <<config, registries, directory, feeVars, ready, newForm, clicks, lost>>
  BY <1>0, <1>1, <1>2 DEF p, CreateTypeOK, Numbered, Approved, userVars
<1> QED
  BY <1>1, <1>3, <1>4, <1>5, BeforeMined

\* The transaction reverts.
LEMMA RevertedStep ==
  ASSUME CreateInv, NEW a \in attempts, Mined(a), ~Collects(MsgValue(a))
  PROVE  CreateInv'
<1>0. /\ CreateTypeOK /\ Numbered /\ MadeAtItsTime /\ ApprovedByAttempts /\ UnitOfToken
      /\ ToldIsShown /\ FormsFit /\ StatusOfLatest
      /\ PaidAsShown /\ ListedTagsFit /\ OutcomeShown
  BY DEF CreateInv
<1>1. /\ a.step = "confirming" /\ attempts' = attempts \ {a}
      /\ ShowStatus(a, "error", None)
      /\ UNCHANGED <<chainVars, directory, feeVars, userVars, lost>>
  BY DEF Mined, ShowReverted, Ends, chainVars
<1>2. /\ CreateTypeOK' /\ Numbered' /\ MadeAtItsTime' /\ UnitOfToken' /\ ToldIsShown'
  BY <1>0, <1>1 DEF CreateTypeOK, Numbered, MadeAtItsTime, UnitOfToken, ToldIsShown,
     MetaUnderWay, chainVars, feeVars, metaVars, userVars
<1>3. ApprovedByAttempts' /\ FormsFit' /\ PaidAsShown' /\ ListedTagsFit'
  BY <1>0, <1>1 DEF ApprovedByAttempts, FormsFit, Fits, PaidAsShown, ListedTagsFit,
     chainVars, userVars
<1>4. CASE a.here
  <2>1. status' = [phase |-> "error", registry |-> None] /\ a.n = clicks
    BY <1>0, <1>1, <1>4 DEF ShowStatus, StatusOfLatest
  <2>2. \A b \in attempts' : b.n # clicks
    BY <1>0, <1>1, <2>1 DEF Numbered
  <2>3. StatusOfLatest'
    BY <1>0, <1>1, <2>1, <2>2 DEF StatusOfLatest, userVars
  <2>4. \A r \in registries : r.n # clicks
    BY <1>0, <1>1, <2>1 DEF MadeAtItsTime
  <2>5. OutcomeShown'
    BY <1>1, <2>1, <2>4 DEF OutcomeShown, chainVars, userVars
  <2> QED
    BY <1>2, <1>3, <2>3, <2>5 DEF CreateInv
<1>5. CASE ~a.here
  <2>1. status' = status
    BY <1>1, <1>5 DEF ShowStatus
  <2>2. StatusOfLatest' /\ OutcomeShown'
    BY <1>0, <1>1, <2>1 DEF StatusOfLatest, OutcomeShown, chainVars, userVars
  <2> QED
    BY <1>2, <1>3, <2>2 DEF CreateInv
<1> QED
  BY <1>4, <1>5

\* Who pays more than the page had read pays with what another attempt had approved.
LEMMA Pays ==
  ASSUME CreateInv, NEW a \in attempts, Collects(MsgValue(a)), config.fee > 0
  PROVE  \/ config.token = a.token /\ config.fee <= a.fee
         \/ \E p \in approvals :
              p.n # a.n /\ p.token = config.token /\ config.fee <= p.fee
<1>0. /\ config.token \in Tokens /\ config.fee \in Nat /\ a.fee \in Nat
      /\ a.token \in Tokens /\ allowance \in [Erc20s -> Nat]
      /\ \A p \in approvals : p.fee \in Nat
  BY UnitTypes DEF CreateInv, CreateTypeOK, FeeConfig, Attempt, Approved, Tokens
<1>1. ApprovedByAttempts
  BY DEF CreateInv
<1>2. CASE config.token = Native
  <2>1. MsgValue(a) >= config.fee
    <3>1. config.fee # 0 /\ config.token \notin Erc20s
      BY <1>0, <1>2, UnitTypes
    <3> QED
      BY <1>2, <3>1 DEF Collects
  <2>2. CASE a.token = Native
    BY <1>0, <1>2, <2>1, <2>2 DEF MsgValue
  <2>3. CASE a.token # Native
    BY <1>0, <2>1, <2>3 DEF MsgValue
  <2> QED
    BY <2>2, <2>3
<1>3. CASE config.token \in Erc20s
  <2> DEFINE allowed == allowance[config.token]
  <2>1. allowed >= config.fee /\ allowed \in Nat
    <3>1. config.fee # 0 /\ config.token # Native
      BY <1>0, <1>3, UnitTypes
    <3> QED
      BY <1>0, <1>3, <3>1 DEF Collects
  <2>2. allowed > 0
    <3> HIDE DEF allowed
    <3> QED
      BY <1>0, <2>1
  <2>3. PICK p \in approvals : p.token = config.token /\ allowed <= p.fee
    BY <1>1, <1>3, <2>2 DEF ApprovedByAttempts
  <2>4. config.fee <= p.fee
    <3> HIDE DEF allowed
    <3> QED
      BY <1>0, <2>1, <2>3
  <2>5. p.n = a.n => p.fee = a.fee /\ p.token = a.token
    BY <1>1 DEF ApprovedByAttempts
  <2> QED
    BY <2>3, <2>4, <2>5
<1> QED
  BY <1>0, <1>2, <1>3 DEF Tokens

LEMMA AmountsGrow == \A x, y, z \in Nat : x <= y => x * z <= y * z
  OBVIOUS

\* The transaction is mined and makes a registry; the page may not see it.
LEMMA CreatedStep ==
  ASSUME CreateInv, NEW a \in attempts, Mined(a), Collects(MsgValue(a))
  PROVE  CreateInv'
<1> DEFINE r == [n |-> a.n, limit |-> a.form.limit, paid |-> config, token |-> a.token,
                 shown |-> a.shown, told |-> a.told, lowered |-> a.form.lowered]
<1>0. /\ CreateTypeOK /\ Numbered /\ MadeAtItsTime /\ ApprovedByAttempts /\ UnitOfToken
      /\ ToldIsShown /\ FormsFit /\ StatusOfLatest
      /\ PaidAsShown /\ ListedTagsFit /\ OutcomeShown
  BY DEF CreateInv
<1>1. /\ a.step = "confirming" /\ registries' = registries \cup {r}
      /\ UNCHANGED <<config, approvals, directory, feeVars, userVars>>
      /\ allowance' = IF config.token = Native THEN allowance
                      ELSE [allowance EXCEPT ![config.token] = @ - config.fee]
      /\ \/ Goes(a, "save") /\ ShowStatus(a, "success", a.n) /\ UNCHANGED lost
         \/ Ends(a) /\ ShowStatus(a, "error", None) /\ lost' = lost \cup {a.n}
  BY DEF Mined
<1>2. /\ a \in Attempt /\ a.form \in FormShape /\ config \in FeeConfig
      /\ config.token \in Tokens /\ config.fee \in Nat /\ allowance \in [Erc20s -> Nat]
      /\ a.token \in Tokens /\ a.fee \in Nat
  BY <1>0, UnitTypes DEF CreateTypeOK, Attempt, FeeConfig, Tokens
<1>3. /\ r \in Made
      /\ r.n = a.n /\ r.limit = a.form.limit /\ r.paid = config /\ r.token = a.token
      /\ r.shown = a.shown /\ r.told = a.told /\ r.lowered = a.form.lowered
  BY <1>2 DEF Attempt, FormShape, Made
<1> HIDE DEF r
<1>4. /\ allowance' \in [Erc20s -> Nat]
      /\ \A t \in Erc20s : allowance'[t] > 0 =>
           allowance[t] > 0 /\ allowance'[t] <= allowance[t]
  <2>1. CASE config.token = Native
    BY <1>1, <1>2, <2>1
  <2>2. CASE config.token # Native
    <3> DEFINE c == config.token
    <3>1. c \in Erc20s /\ allowance[c] \in Nat
      BY <1>2, <2>2 DEF Tokens
    <3>2. allowance[c] - config.fee \in Nat
      <4>1. config.fee > 0 => allowance[c] >= config.fee
        BY <1>2, <2>2, <3>1, CollectsTokens
      <4> HIDE DEF c
      <4> QED
        BY <1>2, <3>1, <4>1
    <3>3. allowance' = [allowance EXCEPT ![c] = allowance[c] - config.fee]
      BY <1>1, <2>2
    <3> HIDE DEF c
    <3>4. allowance' \in [Erc20s -> Nat]
      BY <1>2, <3>2, <3>3
    <3>5. ASSUME NEW t \in Erc20s, allowance'[t] > 0
          PROVE  allowance[t] > 0 /\ allowance'[t] <= allowance[t]
      <4>1. CASE t = c
        <5>1. allowance'[t] = allowance[t] - config.fee
          BY <1>2, <3>3, <4>1
        <5> QED
          BY <1>2, <3>1, <3>5, <4>1, <5>1
      <4>2. CASE t # c
        BY <1>2, <3>3, <3>5, <4>2
      <4> QED
        BY <4>1, <4>2
    <3> QED
      BY <3>4, <3>5
  <2> QED
    BY <2>1, <2>2
<1>5. PaidAsShown'
  <2>1. ASSUME a.told, config.token = a.token, config.fee <= a.fee
        PROVE  config.fee * UnitOf[config.token] <= a.shown
    <3>1. a.shown = a.fee * UnitOf[a.token] /\ UnitOf[a.token] \in Nat
      BY <1>0, <1>2, <2>1, UnitTypes DEF ToldIsShown
    <3> QED
      BY <1>2, <2>1, <3>1, AmountsGrow, Zenon
  <2>2. ASSUME a.told, config.fee > 0
        PROVE  \/ config.token = a.token
                  /\ config.fee * UnitOf[config.token] <= a.shown
               \/ \E p \in approvals :
                    p.n # a.n /\ p.token = config.token /\ config.fee <= p.fee
    BY <2>1, <2>2, Pays, Zenon
  <2> SUFFICES ASSUME NEW s \in registries', s.told, s.paid.fee > 0
               PROVE  \/ s.paid.token = s.token
                         /\ s.paid.fee * UnitOf[s.paid.token] <= s.shown
                      \/ \E p \in approvals :
                           p.n # s.n /\ p.token = s.paid.token /\ s.paid.fee <= p.fee
    BY <1>1, Zenon DEF PaidAsShown
  <2>3. CASE s = r
    BY <1>3, <2>2, <2>3, Zenon
  <2>4. CASE s \in registries
    BY <1>0, <2>4, Zenon DEF PaidAsShown
  <2> QED
    BY <1>1, <2>3, <2>4
<1>6. \A l \in directory : l.n # a.n
  BY <1>0 DEF MadeAtItsTime
<1>7. ListedTagsFit'
  BY <1>0, <1>1, <1>3, <1>6 DEF ListedTagsFit
<1>8. a.here => a.n = clicks /\ status.phase \in {"pending", "confirming"}
  BY <1>0, <1>1 DEF StatusOfLatest
<1>9. \A b \in attempts : b.n = a.n => b = a
  BY <1>0 DEF Numbered
<1>10. status.phase = "error" => a.n # clicks
  BY <1>0 DEF StatusOfLatest
<1>11. \A t \in Erc20s :
         allowance'[t] > 0 => \E p \in approvals' : p.token = t /\ allowance'[t] <= p.fee
  <2> SUFFICES ASSUME NEW t \in Erc20s, allowance'[t] > 0
               PROVE  \E p \in approvals' : p.token = t /\ allowance'[t] <= p.fee
    OBVIOUS
  <2>1. PICK p \in approvals : p.token = t /\ allowance[t] <= p.fee
    BY <1>0, <1>4 DEF ApprovedByAttempts
  <2>2. p.fee \in Nat /\ allowance[t] \in Nat /\ allowance'[t] \in Nat
    BY <1>0, <1>2, <1>4, UnitTypes DEF CreateTypeOK, Approved
  <2>3. allowance'[t] <= p.fee
    BY <1>4, <2>1, <2>2
  <2> QED
    BY <1>1, <2>1, <2>3
<1>12. CASE Goes(a, "save") /\ ShowStatus(a, "success", a.n) /\ UNCHANGED lost
  <2>1. PICK b \in Attempt :
           /\ attempts' = (attempts \ {a}) \cup {b}
           /\ b.n = a.n /\ b.here = a.here /\ b.token = a.token /\ b.fee = a.fee
           /\ b.form = a.form /\ b.shown = a.shown /\ b.told = a.told /\ b.step = "save"
    BY <1>12, GoesOn DEF Steps
  <2>2. CreateTypeOK'
    BY <1>0, <1>1, <1>3, <1>4, <2>1 DEF CreateTypeOK, feeVars, metaVars, userVars
  <2>3. Numbered'
    BY <1>0, <1>1, <1>3, <2>1 DEF Numbered, userVars
  <2>4. MadeAtItsTime'
    BY <1>0, <1>1, <1>3, <1>6, <1>9, <2>1 DEF MadeAtItsTime
  <2>5. ApprovedByAttempts'
    BY <1>0, <1>1, <1>11, <2>1 DEF ApprovedByAttempts
  <2>6. FormsFit' /\ ToldIsShown' /\ UnitOfToken'
    BY <1>0, <1>1, <2>1 DEF FormsFit, Fits, ToldIsShown, UnitOfToken, MetaUnderWay, feeVars,
       metaVars, userVars
  <2>7. CASE a.here
    <3>1. status' = [phase |-> "success", registry |-> a.n]
      BY <1>12, <2>7 DEF ShowStatus
    <3>2. \A d \in attempts' : d.here => d.step = "save"
      BY <1>0, <1>8, <1>9, <2>1, <2>7 DEF StatusOfLatest
    <3>3. StatusOfLatest'
      BY <3>1, <3>2 DEF StatusOfLatest
    <3>4. OutcomeShown'
      BY <1>1, <1>3, <1>8, <2>7, <3>1 DEF OutcomeShown, userVars
    <3> QED
      BY <1>5, <1>7, <2>2, <2>3, <2>4, <2>5, <2>6, <3>3, <3>4 DEF CreateInv
  <2>8. CASE ~a.here
    <3>1. status' = status
      BY <1>12, <2>8 DEF ShowStatus
    <3>2. StatusOfLatest'
      BY <1>0, <1>1, <1>10, <2>1, <3>1 DEF StatusOfLatest, userVars
    <3>3. OutcomeShown'
      BY <1>0, <1>1, <1>3, <1>10, <1>12, <3>1 DEF OutcomeShown, userVars
    <3> QED
      BY <1>5, <1>7, <2>2, <2>3, <2>4, <2>5, <2>6, <3>2, <3>3 DEF CreateInv
  <2> QED
    BY <2>7, <2>8
<1>13. CASE Ends(a) /\ ShowStatus(a, "error", None) /\ lost' = lost \cup {a.n}
  <2>1. attempts' = attempts \ {a}
    BY <1>13 DEF Ends
  <2>2. CreateTypeOK'
    BY <1>0, <1>1, <1>3, <1>4, <2>1 DEF CreateTypeOK, feeVars, metaVars, userVars
  <2>3. Numbered'
    BY <1>0, <1>1, <1>3, <2>1 DEF Numbered, userVars
  <2>4. MadeAtItsTime'
    BY <1>0, <1>1, <1>3, <1>6, <1>9, <2>1 DEF MadeAtItsTime
  <2>5. ApprovedByAttempts'
    BY <1>0, <1>1, <1>11, <2>1 DEF ApprovedByAttempts
  <2>6. FormsFit' /\ ToldIsShown' /\ UnitOfToken'
    BY <1>0, <1>1, <2>1 DEF FormsFit, Fits, ToldIsShown, UnitOfToken, MetaUnderWay, feeVars,
       metaVars, userVars
  <2>7. CASE a.here
    <3>1. status' = [phase |-> "error", registry |-> None]
      BY <1>13, <2>7 DEF ShowStatus
    <3>2. \A d \in attempts' : d.n # clicks
      BY <1>8, <1>9, <2>1, <2>7
    <3>3. \A d \in attempts' : ~(d.here /\ d.step # "save")
      BY <1>0, <2>1, <3>2 DEF StatusOfLatest
    <3>4. StatusOfLatest'
      BY <1>1, <3>1, <3>2, <3>3 DEF StatusOfLatest, userVars
    <3>5. \A s \in registries : s.n # a.n
      BY <1>0, <1>1 DEF MadeAtItsTime
    <3>6. OutcomeShown'
      BY <1>1, <1>3, <1>8, <1>13, <2>7, <3>1, <3>5 DEF OutcomeShown, userVars
    <3> QED
      BY <1>5, <1>7, <2>2, <2>3, <2>4, <2>5, <2>6, <3>4, <3>6 DEF CreateInv
  <2>8. CASE ~a.here
    <3>1. status' = status
      BY <1>13, <2>8 DEF ShowStatus
    <3>2. StatusOfLatest'
      BY <1>0, <1>1, <2>1, <3>1 DEF StatusOfLatest, userVars
    <3>3. OutcomeShown'
      BY <1>0, <1>1, <1>3, <1>10, <1>13, <3>1 DEF OutcomeShown, userVars
    <3> QED
      BY <1>5, <1>7, <2>2, <2>3, <2>4, <2>5, <2>6, <3>2, <3>3 DEF CreateInv
  <2> QED
    BY <2>7, <2>8
<1> QED
  BY <1>1, <1>12, <1>13

LEMMA SavedStep ==
  ASSUME CreateInv, NEW a \in attempts, Saved(a)
  PROVE  CreateInv'
<1> DEFINE l == [n |-> a.n, tags |-> a.form.tags]
<1>0. /\ CreateTypeOK /\ Numbered /\ MadeAtItsTime /\ ApprovedByAttempts /\ UnitOfToken
      /\ ToldIsShown /\ FormsFit /\ StatusOfLatest
      /\ PaidAsShown /\ ListedTagsFit /\ OutcomeShown
  BY DEF CreateInv
<1>1. /\ a.step = "save" /\ attempts' = attempts \ {a} /\ directory' = directory \cup {l}
      /\ UNCHANGED <<chainVars, feeVars, userVars, status, lost>>
  BY DEF Saved, TagsOf, Ends
<1>2. l \in [n : Nat, tags : SUBSET Tags] /\ l.n = a.n /\ l.tags = a.form.tags
  BY <1>0 DEF CreateTypeOK, Attempt, FormShape
<1> HIDE DEF l
<1>3. CreateTypeOK' /\ Numbered' /\ UnitOfToken' /\ ToldIsShown'
  BY <1>0, <1>1, <1>2 DEF CreateTypeOK, Numbered, UnitOfToken, ToldIsShown, MetaUnderWay,
     chainVars, feeVars, metaVars, userVars
<1>4. MadeAtItsTime'
  BY <1>0, <1>1, <1>2 DEF MadeAtItsTime, Numbered, chainVars
<1>5. ApprovedByAttempts' /\ FormsFit' /\ StatusOfLatest'
  BY <1>0, <1>1 DEF ApprovedByAttempts, FormsFit, Fits, StatusOfLatest, chainVars, userVars
<1>6. ListedTagsFit'
  BY <1>0, <1>1, <1>2 DEF ListedTagsFit, MadeAtItsTime, FormsFit, Fits, chainVars
<1>7. PaidAsShown' /\ OutcomeShown'
  BY <1>0, <1>1 DEF PaidAsShown, OutcomeShown, chainVars, userVars
<1> QED
  BY <1>3, <1>4, <1>5, <1>6, <1>7 DEF CreateInv

LEMMA RevisitStep ==
  ASSUME CreateInv, Revisit
  PROVE  CreateInv'
<1>0. /\ CreateTypeOK /\ Numbered /\ MadeAtItsTime /\ ApprovedByAttempts /\ UnitOfToken
      /\ ToldIsShown /\ FormsFit /\ StatusOfLatest
      /\ PaidAsShown /\ ListedTagsFit /\ OutcomeShown
  BY DEF CreateInv
<1>1. /\ newForm' = EmptyForm /\ status' = Idle
      /\ feeReads' \subseteq {NewRead} /\ feeToken' = Native /\ creationFee' = 0
      /\ metaReads' = [t \in Erc20s |-> 0] /\ tokenUnit' = UnitOf[Native]
      /\ metadataError' = FALSE /\ metaCrossed' = FALSE
      /\ attempts' = {[a EXCEPT !.here = FALSE] : a \in attempts}
      /\ UNCHANGED <<chainVars, directory, ready, clicks, lost>>
  BY DEF Revisit
<1>2. \A b \in attempts' : \E a \in attempts :
        /\ b \in Attempt /\ b.n = a.n /\ b.here = FALSE /\ b.token = a.token
        /\ b.fee = a.fee /\ b.form = a.form /\ b.shown = a.shown /\ b.told = a.told
        /\ b.step = a.step
        /\ b = [a EXCEPT !.here = FALSE]
  <2> SUFFICES ASSUME NEW b \in attempts'
               PROVE  \E a \in attempts :
                        /\ b \in Attempt /\ b.n = a.n /\ b.here = FALSE
                        /\ b.token = a.token /\ b.fee = a.fee /\ b.form = a.form
                        /\ b.shown = a.shown /\ b.told = a.told
                        /\ b.step = a.step /\ b = [a EXCEPT !.here = FALSE]
    OBVIOUS
  <2>1. PICK a \in attempts : b = [a EXCEPT !.here = FALSE]
    BY <1>1
  <2>2. a \in Attempt
    BY <1>0 DEF CreateTypeOK
  <2> QED
    BY <2>1, <2>2, AttemptFields
<1>3. CreateTypeOK'
  <2>1. (config \in FeeConfig /\ allowance \in [Erc20s -> Nat] /\ registries \subseteq Made
         /\ directory \subseteq [n : Nat, tags : SUBSET Tags] /\ approvals \subseteq Approved
         /\ clicks \in Nat)'
    BY <1>0, <1>1 DEF CreateTypeOK, chainVars
  <2>2. metaReads' \in [Erc20s -> Nat]
    BY <1>1
  <2>3. tokenUnit' \in Nat /\ feeToken' \in Tokens /\ creationFee' \in Nat
    BY <1>1, CreateAssumption, UnitTypes DEF Tokens
  <2>4. feeReads' \subseteq [token : Tokens \cup {None}, fee : Nat \cup {None}]
    BY <1>1 DEF NewRead
  <2>5. metadataError' \in BOOLEAN /\ metaCrossed' \in BOOLEAN
    BY <1>1
  <2>6. newForm' \in FormShape
    BY <1>1, CreateAssumption DEF EmptyForm, FormShape
  <2>7. attempts' \subseteq Attempt
    BY <1>2
  <2> QED
    BY <2>1, <2>2, <2>3, <2>4, <2>5, <2>6, <2>7 DEF CreateTypeOK
<1>10. UnitOfToken' /\ ToldIsShown'
  BY <1>0, <1>1, <1>2 DEF UnitOfToken, ToldIsShown
<1>4. Numbered'
  <2>1. ASSUME NEW b \in attempts', NEW c \in attempts', b.n = c.n
        PROVE  b = c
    <3>1. PICK a \in attempts : b.n = a.n /\ b = [a EXCEPT !.here = FALSE]
      BY <1>2
    <3>2. PICK d \in attempts : c.n = d.n /\ c = [d EXCEPT !.here = FALSE]
      BY <1>2
    <3>3. a = d
      BY <1>0, <2>1, <3>1, <3>2 DEF Numbered
    <3> QED
      BY <3>1, <3>2, <3>3
  <2> QED
    BY <1>0, <1>1, <1>2, <2>1 DEF Numbered, chainVars
<1>5. MadeAtItsTime'
  BY <1>0, <1>1, <1>2 DEF MadeAtItsTime, chainVars
<1>6. ApprovedByAttempts'
  BY <1>0, <1>1, <1>2 DEF ApprovedByAttempts, chainVars
<1>7. FormsFit'
  BY <1>0, <1>1, <1>2 DEF FormsFit, Fits, EmptyForm
<1>8. StatusOfLatest' /\ OutcomeShown'
  BY <1>1, <1>2 DEF StatusOfLatest, OutcomeShown, Idle
<1>9. PaidAsShown' /\ ListedTagsFit'
  BY <1>0, <1>1 DEF PaidAsShown, ListedTagsFit, chainVars
<1> QED
  BY <1>3, <1>4, <1>5, <1>6, <1>7, <1>8, <1>9, <1>10 DEF CreateInv

-----------------------------------------------------------------------------
THEOREM CreateInvariance == CreateSpec => []CreateInv
<1>1. ASSUME CreateInv, [CreateNext]_createVars
      PROVE  CreateInv'
  <2>1. CASE UNCHANGED createVars
    <3>1. UNCHANGED <<config, feeReads, feeToken, creationFee, ready, newForm, allowance,
                      registries, directory, attempts, approvals, clicks, lost, status,
                      metaVars>>
      BY <2>1 DEF createVars, chainVars, feeVars, userVars
    <3>2. CreateTypeOK' /\ Fits(newForm)' /\ UnitOfToken'
      BY <1>1, <3>1 DEF CreateInv, CreateTypeOK, FormsFit, Fits, UnitOfToken, MetaUnderWay,
         metaVars
    <3> QED
      BY <1>1, <3>1, <3>2, NothingDeployed
  <2>2. ASSUME NEW a \in attempts, Mined(a)
        PROVE  CreateInv'
    BY <1>1, <2>2, CreatedStep, RevertedStep
  <2>3. ASSUME NEW a \in attempts,
               ReadAllowance(a) \/ Approve(a) \/ DeployRefused(a) \/ Send(a) \/ Saved(a)
        PROVE  CreateInv'
    BY <1>1, <2>3, AllowanceStep, ApproveStep, SavedStep
  <2> QED
    BY <1>1, <2>1, <2>2, <2>3, FeeStep, FormStep, DeployStep, RevisitStep DEF CreateNext
<1> QED
  BY CreateInitInv, <1>1, PTL DEF CreateSpec

\* create/page.tsx, handleDeploy: the fee of the click is what is approved and sent, and
\* _collectFee takes no more than was sent or approved; so whatever becomes of the fee
\* between the read and the transaction, nobody pays more than the amount on screen or in
\* another token.  Unless another of their attempts had more approved, or the click came
\* while the page showed an error for the metadata, or decimals that the last of its reads
\* had not answered or that reads had crossed for.
THEOREM PaidAsShownHolds == OwnerSpec => []PaidAsShown
  BY CreateInvariance, PagesAreParts, PTL DEF CreateInv

\* create/page.tsx: the form of the click is deployed and its tags are saved, whatever
\* the user edits meanwhile; what is listed fits the limit of the registry.
THEOREM ListedTagsFitHolds == OwnerSpec => []ListedTagsFit
  BY CreateInvariance, PagesAreParts, PTL DEF CreateInv

\* create/page.tsx, txStatus: one deploy runs at a time on a page, so that a success or an
\* error on screen is the latest click's, over any number of attempts left behind.
THEOREM OutcomeShownHolds == OwnerSpec => []OutcomeShown
  BY CreateInvariance, PagesAreParts, PTL DEF CreateInv
=============================================================================
