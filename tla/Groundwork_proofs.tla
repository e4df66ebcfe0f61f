-------------------------- MODULE Groundwork_proofs --------------------------
(***************************************************************************)
(* The trees that a registration rests on, for lists of every length: the  *)
(* contract's in-place loop computes the hosts' root, the paths of the     *)
(* hosts prove what they should and nothing else, and a non-inclusion      *)
(* proof exists for every serial that is not revoked, and for no other.    *)
(***************************************************************************)
EXTENDS Groundwork, Inductions, FiniteSetTheorems

-----------------------------------------------------------------------------
(* Halving: what both trees have in common. *)

\* Levels of which each has half of the nodes of the one below, rounded up.
Halved(len, n) ==
  /\ len \in [0..n -> Nat]
  /\ len[0] = n
  /\ \A k \in 1..n : len[k] = (len[k - 1] + 1) \div 2

\* A level of one node is reached, at the latest at the level that the leaves count.
LEMMA HalvingEnds ==
  ASSUME NEW n \in Nat \ {0}, NEW len, Halved(len, n)
  PROVE  /\ \A k \in 0..n : len[k] > 0
         /\ \E k \in 0..n : len[k] = 1 /\ \A j \in 0..(k - 1) : len[j] > 1
<1> DEFINE T == {k \in Nat : k <= n => len[k] > 0 /\ (len[k] = 1 \/ len[k] <= n - k)}
<1>1. 0 \in T
  BY DEF Halved
<1>2. ASSUME NEW k \in Nat, k < n, k \in T
      PROVE  k + 1 \in T
  <2>1. k \in 0..n /\ k + 1 \in 0..n /\ k + 1 \in 1..n /\ (k + 1) - 1 = k
    BY <1>2
  <2>2. len[k + 1] = (len[k] + 1) \div 2 /\ len[k] \in Nat /\ len[k + 1] \in Nat
    BY <2>1 DEF Halved
  <2>3. len[k] > 0 /\ (len[k] = 1 \/ len[k] <= n - k)
    BY <1>2, <2>1
  <2> QED
    BY <2>1, <2>2, <2>3
<1>3. \A k \in 0..n : k \in T
  <2> HIDE DEF T
  <2> QED
    BY <1>1, <1>2, IntervalInduction
<1>4. \A k \in 0..n : len[k] > 0 /\ len[k] \in Nat
  BY <1>3 DEF Halved
<1> DEFINE U == {k \in 0..n : len[k] = 1}
<1>5. n \in U
  BY <1>3, <1>4
<1>6. PICK k \in U : \A j \in U : k <= j
  <2> U \subseteq Nat /\ U # {}
    BY <1>5
  <2> HIDE DEF U
  <2> QED
    BY LeastNumber
<1>7. \A j \in 0..(k - 1) : len[j] > 1
  <2> SUFFICES ASSUME NEW j \in 0..(k - 1)
               PROVE  len[j] > 1
    OBVIOUS
  <2>1. j \in 0..n /\ ~(k <= j)
    OBVIOUS
  <2>2. len[j] # 1
    BY <1>6, <2>1
  <2> QED
    BY <1>4, <2>1, <2>2
<1> QED
  BY <1>4, <1>6, <1>7

\* Half a place is a place in the level above.
LEMMA HalfPlace ==
  ASSUME NEW n \in Nat, NEW p \in Nat, p < n
  PROVE  /\ p \div 2 \in Nat
         /\ p \div 2 < (n + 1) \div 2
         /\ p % 2 = 0 => p = 2 * (p \div 2)
         /\ p % 2 # 0 => p = 2 * (p \div 2) + 1
  OBVIOUS

\* The place at each level exists, and is one of that level.
LEMMA PlacesExist ==
  ASSUME NEW n \in Nat, NEW p \in Nat
  PROVE  \E f \in [0..n -> Nat] :
           f = [k \in 0..n |-> IF k = 0 THEN p ELSE f[k - 1] \div 2]
<1> DEFINE half == [k \in 1..n |-> [v \in Nat |-> v \div 2]]
<1>1. half \in [1..n -> [Nat -> Nat]]
  OBVIOUS
<1>2. \E f \in [0..n -> Nat] : StepByStep(f, p, n, half)
  <2> HIDE DEF half
  <2> QED
    BY <1>1, Recursion
<1>3. PICK f \in [0..n -> Nat] : f[0] = p /\ \A k \in 1..n : f[k] = half[k][f[k - 1]]
  BY <1>2 DEF StepByStep
<1>4. ASSUME NEW k \in 0..n
      PROVE  f[k] = IF k = 0 THEN p ELSE f[k - 1] \div 2
  <2>1. CASE k = 0
    BY <1>3, <2>1
  <2>2. CASE k # 0
    <3>1. k \in 1..n /\ k - 1 \in 0..n
      BY <2>2
    <3>2. f[k] = half[k][f[k - 1]] /\ f[k - 1] \in Nat
      BY <1>3, <3>1
    <3> QED
      BY <2>2, <3>1, <3>2
  <2> QED
    BY <2>1, <2>2
<1>5. f = [k \in 0..n |-> IF k = 0 THEN p ELSE f[k - 1] \div 2]
  BY <1>4
<1> QED
  BY <1>5

-----------------------------------------------------------------------------
(* CaMerkle: the tree of the hosts. *)

\* f is the layers over the leaves, n of them above those.
LayersOf(f, leaves, n) ==
  f = [k \in 0..n |-> IF k = 0 THEN leaves ELSE NextLayer(f[k - 1])]

LEMMA LayersExist ==
  ASSUME NEW leaves, NEW n \in Nat
  PROVE  \E f : LayersOf(f, leaves, n)
<1> DEFINE T == {k \in Nat : \E f : LayersOf(f, leaves, k)}
<1>1. 0 \in T
  <2> DEFINE f == [k \in 0..0 |-> leaves]
  <2>1. LayersOf(f, leaves, 0)
    BY DEF LayersOf
  <2> QED
    BY <2>1
<1>2. ASSUME NEW k \in Nat, k < n, k \in T
      PROVE  k + 1 \in T
  <2>1. PICK f : LayersOf(f, leaves, k)
    BY <1>2
  <2> DEFINE g == [j \in 0..(k + 1) |-> IF j = k + 1 THEN NextLayer(f[k]) ELSE f[j]]
  <2>2. ASSUME NEW j \in 0..(k + 1)
        PROVE  g[j] = IF j = 0 THEN leaves ELSE NextLayer(g[j - 1])
    <3>1. CASE j = 0
      BY <2>1, <3>1 DEF LayersOf
    <3>2. CASE j # 0 /\ j # k + 1
      <4>1. j \in 0..k /\ j - 1 \in 0..(k + 1) /\ j - 1 # k + 1
        BY <3>2
      <4>2. g[j] = f[j] /\ g[j - 1] = f[j - 1]
        BY <4>1, <3>2
      <4>3. f[j] = NextLayer(f[j - 1])
        BY <2>1, <3>2, <4>1 DEF LayersOf
      <4> QED
        <5> HIDE DEF g
        <5> QED
          BY <3>2, <4>2, <4>3
    <3>3. CASE j = k + 1
      <4>1. j - 1 = k /\ j - 1 \in 0..(k + 1) /\ j - 1 # k + 1 /\ j # 0
        BY <3>3
      <4>2. g[j] = NextLayer(f[k]) /\ g[k] = f[k]
        BY <4>1, <3>3
      <4> QED
        <5> HIDE DEF g
        <5> QED
          BY <4>1, <4>2
    <3> QED
      BY <3>1, <3>2, <3>3
  <2>3. g = [j \in 0..(k + 1) |-> g[j]]
    OBVIOUS
  <2>4. LayersOf(g, leaves, k + 1)
    <3> HIDE DEF g
    <3> QED
      BY <2>2, <2>3 DEF LayersOf
  <2> QED
    <3> HIDE DEF g
    <3> QED
      BY <2>4
<1>3. \A k \in 0..n : k \in T
  <2> HIDE DEF T
  <2> QED
    BY <1>1, <1>2, IntervalInduction
<1> QED
  BY <1>3

\* A layer is a list: hash i of Len(s) of them.
IsLayer(s) == Len(s) \in Nat /\ s = [k \in 1..Len(s) |-> s[k]]

LEMMA NextLayerSound ==
  ASSUME NEW s, IsLayer(s)
  PROVE  /\ IsLayer(NextLayer(s))
         /\ Len(NextLayer(s)) = (Len(s) + 1) \div 2
         /\ \A k \in 1..((Len(s) + 1) \div 2) :
              NextLayer(s)[k] = HashPair(s[2 * k - 1],
                                         IF 2 * k <= Len(s) THEN s[2 * k] ELSE s[2 * k - 1])
<1> DEFINE m == (Len(s) + 1) \div 2
           node(k) == HashPair(s[2 * k - 1],
                               IF 2 * k <= Len(s) THEN s[2 * k] ELSE s[2 * k - 1])
<1>1. m \in Nat
  BY DEF IsLayer
<1>2. NextLayer(s) = [k \in 1..m |-> node(k)]
  BY Zenon DEF NextLayer
<1>3. Len([k \in 1..m |-> node(k)]) = m
  <2> HIDE DEF m, node
  <2> QED
    BY <1>1
<1> HIDE DEF m, node
<1>4. IsLayer(NextLayer(s)) /\ Len(NextLayer(s)) = m
      /\ \A k \in 1..m : NextLayer(s)[k] = node(k)
  BY <1>1, <1>2, <1>3 DEF IsLayer
<1> QED
  BY <1>4, Zenon DEF m, node

\* The layers of a list of leaves.
LEMMA LayersSound ==
  ASSUME NEW leaves, IsLayer(leaves), leaves # << >>
  PROVE  /\ Layers(leaves)[0] = leaves
         /\ \A k \in 0..Len(leaves) : IsLayer(Layers(leaves)[k]) /\ Len(Layers(leaves)[k]) > 0
         /\ \A k \in 1..Len(leaves) : Layers(leaves)[k] = NextLayer(Layers(leaves)[k - 1])
         /\ \A k \in 1..Len(leaves) :
              Len(Layers(leaves)[k]) = (Len(Layers(leaves)[k - 1]) + 1) \div 2
         /\ \E k \in 0..Len(leaves) :
              /\ Len(Layers(leaves)[k]) = 1
              /\ \A j \in 0..(k - 1) : Len(Layers(leaves)[j]) > 1
<1> DEFINE n == Len(leaves)
           level == Layers(leaves)
<1>1. n \in Nat \ {0}
  BY EmptySeq DEF IsLayer
<1>2. level = [k \in 0..n |-> IF k = 0 THEN leaves ELSE NextLayer(level[k - 1])]
  <2>1. \E f : LayersOf(f, leaves, n)
    BY <1>1, LayersExist
  <2>2. level = CHOOSE f : LayersOf(f, leaves, n)
    BY Zenon DEF Layers, LayersOf
  <2> HIDE DEF n, level
  <2>3. LayersOf(level, leaves, n)
    BY <2>1, <2>2, Zenon
  <2> QED
    BY <2>3, Zenon DEF LayersOf
<1> HIDE DEF level, n
<1>3. level[0] = leaves
  BY <1>1, <1>2
<1>4. ASSUME NEW k \in 1..n
      PROVE  level[k] = NextLayer(level[k - 1])
  <2> k \in 0..n /\ k # 0
    BY <1>1
  <2> QED
    BY <1>2
<1> DEFINE T == {k \in Nat : k <= n => IsLayer(level[k])}
<1>5. 0 \in T
  BY <1>3
<1>6. ASSUME NEW k \in Nat, k < n, k \in T
      PROVE  k + 1 \in T
  <2>1. k + 1 \in 1..n /\ (k + 1) - 1 = k /\ k <= n
    BY <1>1, <1>6
  <2>2. IsLayer(NextLayer(level[k]))
    BY <1>6, <2>1, NextLayerSound
  <2> QED
    BY <1>4, <2>1, <2>2
<1>7. \A k \in 0..n : k \in T
  <2> HIDE DEF T
  <2> QED
    BY <1>1, <1>5, <1>6, IntervalInduction
<1>8. \A k \in 0..n : IsLayer(level[k])
  BY <1>1, <1>7
<1>9. ASSUME NEW k \in 1..n
      PROVE  Len(level[k]) = (Len(level[k - 1]) + 1) \div 2
  <2> k - 1 \in 0..n
    BY <1>1
  <2> QED
    BY <1>4, <1>8, NextLayerSound
<1> DEFINE len == [k \in 0..n |-> Len(level[k])]
<1>10. Halved(len, n)
  <2>1. len \in [0..n -> Nat]
    BY <1>8 DEF IsLayer
  <2>2. len[0] = n
    BY <1>1, <1>3 DEF n
  <2>3. \A k \in 1..n : len[k] = (len[k - 1] + 1) \div 2
    <3> SUFFICES ASSUME NEW k \in 1..n
                 PROVE  len[k] = (len[k - 1] + 1) \div 2
      OBVIOUS
    <3> k \in 0..n /\ k - 1 \in 0..n
      BY <1>1
    <3> QED
      BY <1>9
  <2> HIDE DEF len
  <2> QED
    BY <2>1, <2>2, <2>3 DEF Halved
<1>11. /\ \A k \in 0..n : len[k] > 0
       /\ \E k \in 0..n : len[k] = 1 /\ \A j \in 0..(k - 1) : len[j] > 1
  <2> HIDE DEF len
  <2> QED
    BY <1>1, <1>10, HalvingEnds
<1>12. PICK k \in 0..n : len[k] = 1 /\ \A j \in 0..(k - 1) : len[j] > 1
  BY <1>11
<1>13. Len(level[k]) = 1 /\ \A j \in 0..(k - 1) : Len(level[j]) > 1
  <2> \A j \in 0..(k - 1) : j \in 0..n
    BY <1>1
  <2> QED
    BY <1>12
<1>14. \A j \in 0..n : Len(level[j]) > 0
  BY <1>11
<1> HIDE DEF len, T
<1> QED
  BY <1>3, <1>4, <1>8, <1>9, <1>13, <1>14 DEF level, n

\* The height is that of the one layer with the root, and there is no other such layer.
LEMMA HeightSound ==
  ASSUME NEW leaves, IsLayer(leaves), leaves # << >>
  PROVE  /\ Height(leaves) \in 0..Len(leaves)
         /\ Len(Layers(leaves)[Height(leaves)]) = 1
         /\ \A j \in 0..(Height(leaves) - 1) : Len(Layers(leaves)[j]) > 1
         /\ \A k \in 0..Len(leaves) :
              (\A j \in 0..(k - 1) : Len(Layers(leaves)[j]) > 1) =>
                /\ k <= Height(leaves)
                /\ Len(Layers(leaves)[k]) = 1 <=> k = Height(leaves)
<1> DEFINE n == Len(leaves)
           Top1(k) == /\ Len(Layers(leaves)[k]) = 1
                      /\ \A j \in 0..(k - 1) : Len(Layers(leaves)[j]) > 1
<1>1. n \in Nat /\ \E k \in 0..n : Top1(k)
  BY LayersSound DEF IsLayer
<1>2. Height(leaves) = CHOOSE k \in 0..n : Top1(k)
  BY Zenon DEF Height
<1>3. Height(leaves) \in 0..n /\ Top1(Height(leaves))
  <2> HIDE DEF n, Top1
  <2> QED
    BY <1>1, <1>2, Zenon
<1>4. ASSUME NEW k \in 0..n, \A j \in 0..(k - 1) : Len(Layers(leaves)[j]) > 1
      PROVE  k <= Height(leaves) /\ (Len(Layers(leaves)[k]) = 1 <=> k = Height(leaves))
  <2> DEFINE h == Height(leaves)
  <2> HIDE DEF h
  <2>1. h \in Nat /\ k \in Nat
    BY <1>1, <1>3 DEF h
  <2>2. Len(Layers(leaves)[h]) = 1
    BY <1>3 DEF h
  <2>3. ~(h < k)
    <3>1. h < k => h \in 0..(k - 1)
      BY <2>1
    <3>2. h < k => Len(Layers(leaves)[h]) > 1
      BY <1>4, <3>1
    <3> QED
      BY <2>2, <3>2
  <2>4. k < h => Len(Layers(leaves)[k]) > 1
    <3>1. k < h => k \in 0..(h - 1)
      BY <2>1
    <3>2. \A j \in 0..(h - 1) : Len(Layers(leaves)[j]) > 1
      BY <1>3 DEF h
    <3> QED
      BY <3>1, <3>2
  <2>5. k <= h
    BY <2>1, <2>3
  <2>6. Len(Layers(leaves)[k]) = 1 <=> k = h
    <3>1. Len(Layers(leaves)[k]) = 1 => ~(k < h)
      BY <2>4
    <3> QED
      BY <2>1, <2>2, <2>5, <3>1
  <2> QED
    BY <2>5, <2>6 DEF h
<1> QED
  BY <1>3, <1>4

\* f is the hashes on the way up from a leaf along a path of n nodes.
UpAlong(f, leaf, path, n) ==
  f = [k \in 0..n |-> IF k = 0 THEN leaf ELSE HashPair(f[k - 1], path[k])]

LEMMA UpAlongExists ==
  ASSUME NEW leaf, NEW path, NEW n \in Nat
  PROVE  \E f : UpAlong(f, leaf, path, n)
<1> DEFINE T == {k \in Nat : \E f : UpAlong(f, leaf, path, k)}
<1>1. 0 \in T
  <2> DEFINE f == [k \in 0..0 |-> leaf]
  <2>1. UpAlong(f, leaf, path, 0)
    BY DEF UpAlong
  <2> QED
    BY <2>1
<1>2. ASSUME NEW k \in Nat, k < n, k \in T
      PROVE  k + 1 \in T
  <2>1. PICK f : UpAlong(f, leaf, path, k)
    BY <1>2
  <2> DEFINE g == [j \in 0..(k + 1) |-> IF j = k + 1 THEN HashPair(f[k], path[k + 1])
                                                    ELSE f[j]]
  <2>2. ASSUME NEW j \in 0..(k + 1)
        PROVE  g[j] = IF j = 0 THEN leaf ELSE HashPair(g[j - 1], path[j])
    <3>1. CASE j = 0
      BY <2>1, <3>1 DEF UpAlong
    <3>2. CASE j # 0 /\ j # k + 1
      <4>1. j \in 0..k /\ j - 1 \in 0..(k + 1) /\ j - 1 # k + 1
        BY <3>2
      <4>2. g[j] = f[j] /\ g[j - 1] = f[j - 1]
        BY <4>1, <3>2
      <4>3. f[j] = HashPair(f[j - 1], path[j])
        BY <2>1, <3>2, <4>1 DEF UpAlong
      <4> QED
        <5> HIDE DEF g
        <5> QED
          BY <3>2, <4>2, <4>3
    <3>3. CASE j = k + 1
      <4>1. j - 1 = k /\ j - 1 \in 0..(k + 1) /\ j - 1 # k + 1 /\ j # 0
        BY <3>3
      <4>2. g[j] = HashPair(f[k], path[j]) /\ g[k] = f[k]
        BY <4>1, <3>3
      <4> QED
        <5> HIDE DEF g
        <5> QED
          BY <4>1, <4>2
    <3> QED
      BY <3>1, <3>2, <3>3
  <2>3. g = [j \in 0..(k + 1) |-> g[j]]
    OBVIOUS
  <2>4. UpAlong(g, leaf, path, k + 1)
    <3> HIDE DEF g
    <3> QED
      BY <2>2, <2>3 DEF UpAlong
  <2> QED
    <3> HIDE DEF g
    <3> QED
      BY <2>4
<1>3. \A k \in 0..n : k \in T
  <2> HIDE DEF T
  <2> QED
    BY <1>1, <1>2, IntervalInduction
<1> QED
  BY <1>3

\* What the circuit computes, step by step.
LEMMA MembershipRootSound ==
  ASSUME NEW leaf, NEW path, NEW n \in Nat, Len(path) = n
  PROVE  \E f : UpAlong(f, leaf, path, n) /\ MembershipRoot(leaf, path) = f[n]
<1>1. \E f : UpAlong(f, leaf, path, n)
  BY UpAlongExists
<1> DEFINE up == CHOOSE f : UpAlong(f, leaf, path, n)
<1>2. UpAlong(up, leaf, path, n)
  BY <1>1
<1>3. MembershipRoot(leaf, path) = up[n]
  BY Zenon DEF MembershipRoot, UpAlong
<1> QED
  <2> HIDE DEF up
  <2> QED
    BY <1>2, <1>3

\* A sorted-pair hash and one of its arguments determine the other.
LEMMA HashPairInjective ==
  ASSUME NEW a, NEW b, NEW s, HashPair(a, s) = HashPair(b, s)
  PROVE  a = b
  BY DEF HashPair

\* One path leads from different leaves to different roots.
LEMMA MembershipRootInjective ==
  ASSUME NEW a, NEW b, NEW path, Len(path) \in Nat,
         MembershipRoot(a, path) = MembershipRoot(b, path)
  PROVE  a = b
<1> DEFINE n == Len(path)
<1> HIDE DEF n
<1>1. n \in Nat /\ n = Len(path)
  BY DEF n
<1>2. PICK f : UpAlong(f, a, path, n) /\ MembershipRoot(a, path) = f[n]
  BY <1>1, MembershipRootSound
<1>3. PICK g : UpAlong(g, b, path, n) /\ MembershipRoot(b, path) = g[n]
  BY <1>1, MembershipRootSound
<1> DEFINE T == {k \in Nat : k <= n /\ f[k] = g[k] => a = b}
<1>4. 0 \in T
  BY <1>1, <1>2, <1>3 DEF UpAlong
<1>5. ASSUME NEW k \in Nat, k < n, k \in T
      PROVE  k + 1 \in T
  <2>1. k \in 0..n /\ k + 1 \in 0..n /\ k + 1 # 0 /\ (k + 1) - 1 = k
    BY <1>1, <1>5
  <2>2. /\ f[k + 1] = HashPair(f[k], path[k + 1])
        /\ g[k + 1] = HashPair(g[k], path[k + 1])
    BY <1>2, <1>3, <2>1 DEF UpAlong
  <2>3. f[k + 1] = g[k + 1] => f[k] = g[k]
    BY <2>2, HashPairInjective
  <2> QED
    BY <1>5, <2>1, <2>3
<1>6. \A k \in 0..n : k \in T
  <2> HIDE DEF T
  <2> QED
    BY <1>1, <1>4, <1>5, IntervalInduction
<1>7. f[n] = g[n]
  BY <1>2, <1>3
<1> QED
  BY <1>1, <1>6, <1>7

\* The place of an ancestor in its layer is one of that layer.
LEMMA IndicesSound ==
  ASSUME NEW leaves, IsLayer(leaves), leaves # << >>,
         NEW index \in Nat, index < Len(leaves)
  PROVE  /\ Indices(leaves, index)[0] = index
         /\ \A k \in 1..Height(leaves) :
              Indices(leaves, index)[k] = Indices(leaves, index)[k - 1] \div 2
         /\ \A k \in 0..Height(leaves) :
              /\ Indices(leaves, index)[k] \in Nat
              /\ Indices(leaves, index)[k] < Len(Layers(leaves)[k])
<1> DEFINE h == Height(leaves)
           idx == Indices(leaves, index)
           Halves(f) == f = [k \in 0..h |-> IF k = 0 THEN index ELSE f[k - 1] \div 2]
<1>1. h \in Nat /\ h <= Len(leaves) /\ Len(leaves) \in Nat
  BY HeightSound DEF IsLayer
<1>2. \E f : Halves(f)
  <2> HIDE DEF h
  <2>1. PICK f \in [0..h -> Nat] :
               f = [k \in 0..h |-> IF k = 0 THEN index ELSE f[k - 1] \div 2]
    BY <1>1, PlacesExist
  <2>2. Halves(f)
    BY <2>1, Zenon
  <2> QED
    BY <2>2, Zenon
<1>3. idx = CHOOSE f : Halves(f)
  BY Zenon DEF Indices
<1>4. Halves(idx)
  <2> HIDE DEF idx, Halves
  <2> QED
    BY <1>2, <1>3, Zenon
<1> HIDE DEF h, idx
<1>5. idx[0] = index
  BY <1>1, <1>4
<1>6. ASSUME NEW k \in 1..h
      PROVE  idx[k] = idx[k - 1] \div 2
  <2> k \in 0..h /\ k # 0
    BY <1>1
  <2> QED
    BY <1>4
<1> DEFINE T == {k \in Nat : k <= h => idx[k] \in Nat /\ idx[k] < Len(Layers(leaves)[k])}
<1>7. 0 \in T
  BY <1>5, LayersSound
<1>8. ASSUME NEW k \in Nat, k < h, k \in T
      PROVE  k + 1 \in T
  <2>1. k + 1 \in 1..h /\ k + 1 \in 1..Len(leaves) /\ k \in 0..Len(leaves) /\ (k + 1) - 1 = k
    BY <1>1, <1>8
  <2>2. idx[k + 1] = idx[k] \div 2
    BY <1>6, <2>1
  <2>3. /\ Len(Layers(leaves)[k + 1]) = (Len(Layers(leaves)[k]) + 1) \div 2
        /\ Len(Layers(leaves)[k]) \in Nat
    <3>1. /\ Len(Layers(leaves)[k + 1]) = (Len(Layers(leaves)[k]) + 1) \div 2
          /\ IsLayer(Layers(leaves)[k])
      <4>1. /\ \A j \in 0..Len(leaves) : IsLayer(Layers(leaves)[j])
            /\ \A j \in 1..Len(leaves) :
                 Len(Layers(leaves)[j]) = (Len(Layers(leaves)[j - 1]) + 1) \div 2
        BY LayersSound
      <4>2. Len(Layers(leaves)[k + 1]) = (Len(Layers(leaves)[(k + 1) - 1]) + 1) \div 2
        BY <2>1, <4>1
      <4> QED
        BY <2>1, <4>1, <4>2
    <3> QED
      BY <3>1 DEF IsLayer
  <2>4. idx[k] \in Nat /\ idx[k] < Len(Layers(leaves)[k])
    BY <1>1, <1>8
  <2>5. idx[k + 1] \in Nat /\ idx[k + 1] < Len(Layers(leaves)[k + 1])
    BY <2>2, <2>3, <2>4, HalfPlace
  <2> QED
    BY <2>5
<1>9. \A k \in 0..h : k \in T
  <2> HIDE DEF T
  <2> QED
    BY <1>1, <1>7, <1>8, IntervalInduction
<1>10. \A k \in 0..h : idx[k] \in Nat /\ idx[k] < Len(Layers(leaves)[k])
  BY <1>1, <1>9
<1> QED
  BY <1>5, <1>6, <1>10, Zenon DEF h, idx

\* The path of a leaf leads from it to the root.
LEMMA PathLeadsToRoot ==
  ASSUME NEW leaves, IsLayer(leaves), leaves # << >>,
         NEW index \in Nat, index < Len(leaves)
  PROVE  /\ MembershipRoot(leaves[index + 1], MerklePath(leaves, index)) = MerkleRoot(leaves)
         /\ Len(MerklePath(leaves, index)) \in Nat
<1> DEFINE h == Height(leaves)
           idx == Indices(leaves, index)
           level == Layers(leaves)
           beside(k) == IF idx[k] % 2 = 0 THEN idx[k] + 1 ELSE idx[k] - 1
           step(k) == IF beside(k - 1) < Len(level[k - 1])
                        THEN level[k - 1][beside(k - 1) + 1]
                        ELSE level[k - 1][idx[k - 1] + 1]
           path == MerklePath(leaves, index)
<1>1. h \in Nat /\ h <= Len(leaves) /\ Len(leaves) \in Nat /\ Len(level[h]) = 1
  BY HeightSound DEF IsLayer
<1>2. path = [k \in 1..h |-> step(k)]
  BY Zenon DEF MerklePath
<1>3. Len(path) = h /\ \A k \in 1..h : path[k] = step(k)
  <2> HIDE DEF h, step, path
  <2> QED
    BY <1>1, <1>2
<1>4. /\ idx[0] = index
      /\ \A k \in 1..h : idx[k] = idx[k - 1] \div 2
      /\ \A k \in 0..h : idx[k] \in Nat /\ idx[k] < Len(level[k])
  BY IndicesSound
<1>5. /\ level[0] = leaves
      /\ \A k \in 0..Len(leaves) : IsLayer(level[k]) /\ Len(level[k]) > 0
      /\ \A k \in 1..Len(leaves) : level[k] = NextLayer(level[k - 1])
  BY LayersSound
<1>6. MerkleRoot(leaves) = level[h][1]
  BY DEF MerkleRoot
<1> HIDE DEF h, idx, level, path
<1>7. PICK f : /\ UpAlong(f, leaves[index + 1], path, h)
               /\ MembershipRoot(leaves[index + 1], path) = f[h]
  <2>1. h \in Nat /\ Len(path) = h
    BY <1>1, <1>3
  <2>2. \E f : UpAlong(f, leaves[index + 1], path, h)
               /\ MembershipRoot(leaves[index + 1], path) = f[h]
    BY <2>1, MembershipRootSound
  <2> QED
    BY <2>2
<1> DEFINE T == {k \in Nat : k <= h => f[k] = level[k][idx[k] + 1]}
<1>8. 0 \in T
  BY <1>1, <1>4, <1>5, <1>7 DEF UpAlong
<1>9. ASSUME NEW k \in Nat, k < h, k \in T
      PROVE  k + 1 \in T
  <2>1. /\ k + 1 \in 1..h /\ k + 1 \in 0..h /\ k + 1 \in 1..Len(leaves) /\ k + 1 # 0
        /\ k \in 0..h /\ k \in 0..Len(leaves) /\ (k + 1) - 1 = k
    BY <1>1, <1>9
  <2> DEFINE p == idx[k]
             q == p \div 2
             s == level[k]
             m == Len(s)
  <2>2. p \in Nat /\ p < m /\ idx[k + 1] = q
    BY <1>4, <2>1
  <2>3. IsLayer(s) /\ level[k + 1] = NextLayer(s) /\ m \in Nat
    BY <1>5, <2>1 DEF IsLayer
  <2>4. f[k + 1] = HashPair(f[k], step(k + 1)) /\ f[k] = s[p + 1]
    <3>1. f[k + 1] = HashPair(f[k], path[k + 1])
      BY <1>7, <2>1 DEF UpAlong
    <3>2. path[k + 1] = step(k + 1)
      BY <1>3, <2>1
    <3>3. f[k] = s[p + 1]
      BY <1>9, <2>1
    <3> QED
      BY <3>1, <3>2, <3>3
  <2>5. step(k + 1) = IF beside(k) < m THEN s[beside(k) + 1] ELSE s[p + 1]
    BY <2>1
  <2> HIDE DEF step
  <2> HIDE DEF p, s, m
  <2>6. /\ q \in Nat /\ q + 1 \in 1..((m + 1) \div 2)
        /\ p % 2 = 0 => p = 2 * q
        /\ p % 2 # 0 => p = 2 * q + 1
    BY <2>2, <2>3, HalfPlace
  <2>7. NextLayer(s)[q + 1] = HashPair(s[2 * (q + 1) - 1],
           IF 2 * (q + 1) <= m THEN s[2 * (q + 1)] ELSE s[2 * (q + 1) - 1])
    BY <2>3, <2>6, NextLayerSound DEF m
  <2> HIDE DEF q
  <2>8. CASE p % 2 = 0
    <3>1. beside(k) = p + 1 /\ 2 * (q + 1) - 1 = p + 1 /\ 2 * (q + 1) = p + 2
      BY <2>2, <2>6, <2>8 DEF p
    <3>2. p + 1 < m <=> p + 2 <= m
      BY <2>2, <2>3
    <3>3. step(k + 1) = IF p + 2 <= m THEN s[p + 2] ELSE s[p + 1]
      <4> (p + 1) + 1 = p + 2
        BY <2>2
      <4> QED
        BY <2>5, <3>1, <3>2
    <3> QED
      BY <2>2, <2>3, <2>4, <2>7, <3>1, <3>3
  <2>9. CASE p % 2 # 0
    <3>1. beside(k) = p - 1 /\ 2 * (q + 1) - 1 = p /\ 2 * (q + 1) = p + 1
      BY <2>2, <2>6, <2>9 DEF p
    <3>2. p - 1 < m /\ p + 1 <= m /\ (p - 1) + 1 = p
      BY <2>2, <2>3
    <3>3. step(k + 1) = s[p]
      BY <2>5, <3>1, <3>2
    <3>4. NextLayer(s)[q + 1] = HashPair(s[p], s[p + 1])
      BY <2>7, <3>1, <3>2
    <3>5. f[k + 1] = HashPair(s[p + 1], s[p])
      BY <2>4, <3>3
    <3>6. f[k + 1] = level[k + 1][idx[k + 1] + 1]
      <4> HashPair(s[p + 1], s[p]) = HashPair(s[p], s[p + 1])
        BY DEF HashPair
      <4> QED
        BY <2>2, <2>3, <3>4, <3>5
    <3> QED
      BY <3>6
  <2> QED
    BY <2>8, <2>9
<1>10. \A k \in 0..h : k \in T
  <2> HIDE DEF T
  <2> QED
    BY <1>1, <1>8, <1>9, IntervalInduction
<1>11. f[h] = level[h][1]
  <2>1. h \in 0..h
    BY <1>1
  <2>2. idx[h] = 0
    <3> idx[h] \in Nat /\ idx[h] < Len(level[h]) /\ Len(level[h]) = 1
      BY <1>1, <1>4, <2>1 DEF h, idx, level
    <3> QED
      OBVIOUS
  <2> QED
    BY <1>1, <1>10, <2>1, <2>2
<1> QED
  BY <1>1, <1>3, <1>6, <1>7, <1>11 DEF path

-----------------------------------------------------------------------------
(* CaRecompute: the contract's loop. *)

\* The level being folded is layer k of the hosts' tree, and the nodes that are written
\* already are those of the layer above it.
AtLayer(k) ==
  LET level == Layers(caLeaves)
  IN  /\ \A j \in 0..(k - 1) : Len(level[j]) > 1
      /\ size = Len(level[k]) /\ size <= Len(caLeaves)
      /\ i \in Nat /\ i <= NewSize
      /\ size = 1 => i = 0
      /\ \A p \in 1..i : layer[p] = level[k + 1][p]
      /\ \A p \in (i + 1)..size : layer[p] = level[k][p]

LoopInv ==
  /\ caLeaves \in CaLists
  /\ pc \in {"start", "level", "done"}
  /\ pc = "start" => i = 0
  /\ pc = "level" =>
       /\ Len(caLeaves) > 1 /\ layer = [p \in 1..Len(caLeaves) |-> layer[p]]
       /\ \E k \in 0..Len(caLeaves) : AtLayer(k)
  /\ pc = "done" => root = MerkleRoot(caLeaves)

LEMMA CaListsAreLayers ==
  ASSUME NEW s \in CaLists
  PROVE  IsLayer(s)
<1>1. PICK m \in 0..Cardinality(Cas) : s \in [1..m -> Cas]
  BY DEF CaLists, BoundedSeq, SeqOf
<1>2. m \in Nat /\ Len(s) = m
  BY <1>1
<1> QED
  BY <1>1, <1>2 DEF IsLayer

LEMMA LoopInit == GroundInit => LoopInv
  BY DEF GroundInit, Init, LoopInv

LEMMA ShortListKeeps ==
  ASSUME LoopInv, ShortList
  PROVE  LoopInv'
<1>1. caLeaves \in CaLists /\ caLeaves' = caLeaves /\ pc' = "done"
  BY DEF LoopInv, ShortList
<1>2. root' = MerkleRoot(caLeaves)
  <2>1. CASE caLeaves = << >>
    BY <2>1 DEF ShortList, MerkleRoot
  <2>2. CASE caLeaves # << >>
    <3> DEFINE n == Len(caLeaves)
    <3>1. IsLayer(caLeaves)
      BY <1>1, CaListsAreLayers
    <3>2. Layers(caLeaves)[0] = caLeaves /\ n > 0 /\ n \in Nat
      <4>1. /\ Layers(caLeaves)[0] = caLeaves
            /\ \A k \in 0..n : IsLayer(Layers(caLeaves)[k]) /\ Len(Layers(caLeaves)[k]) > 0
        BY <2>2, <3>1, LayersSound
      <4>2. n \in Nat
        BY <3>1 DEF IsLayer
      <4> QED
        BY <4>1, <4>2
    <3>3. n = 1
      <4> n <= 1
        BY DEF ShortList
      <4> HIDE DEF n
      <4> QED
        BY <3>2
    <3>4. Height(caLeaves) = 0
      <4>1. \A k \in 0..n : (\A j \in 0..(k - 1) : Len(Layers(caLeaves)[j]) > 1) =>
                               (Len(Layers(caLeaves)[k]) = 1 <=> k = Height(caLeaves))
        BY <2>2, <3>1, HeightSound
      <4>2. \A j \in 0..(0 - 1) : Len(Layers(caLeaves)[j]) > 1
        OBVIOUS
      <4>3. 0 \in 0..n /\ Len(Layers(caLeaves)[0]) = 1
        BY <3>2, <3>3
      <4> QED
        BY <4>1, <4>2, <4>3
    <3> QED
      BY <2>2, <3>2, <3>4 DEF ShortList, MerkleRoot
  <2> QED
    BY <2>1, <2>2
<1> QED
  BY <1>1, <1>2 DEF LoopInv

LEMMA CopyLeavesKeeps ==
  ASSUME LoopInv, CopyLeaves
  PROVE  LoopInv'
<1> DEFINE n == Len(caLeaves)
           level == Layers(caLeaves)
<1>1. /\ caLeaves \in CaLists /\ caLeaves' = caLeaves /\ pc' = "level"
      /\ layer' = caLeaves /\ size' = n /\ i' = 0 /\ n > 1
  BY DEF LoopInv, CopyLeaves
<1>2. IsLayer(caLeaves)
  BY <1>1, CaListsAreLayers
<1>3. n \in Nat /\ caLeaves = [p \in 1..n |-> caLeaves[p]]
  BY <1>2 DEF IsLayer
<1>4. level[0] = caLeaves
  <2> caLeaves # << >>
    BY <1>1
  <2> QED
    BY <1>2, LayersSound
<1>5. AtLayer(0)'
  <2>1. \A j \in 0..(0 - 1) : Len(level[j]) > 1
    OBVIOUS
  <2>2. size' = Len(level[0]) /\ size' <= n
    BY <1>1, <1>3, <1>4
  <2>3. i' \in Nat /\ i' <= (size' + 1) \div 2 /\ (size' = 1 => i' = 0)
    BY <1>1, <1>3
  <2>4. \A p \in 1..i' : layer'[p] = level[0 + 1][p]
    BY <1>1
  <2>5. \A p \in (i' + 1)..size' : layer'[p] = level[0][p]
    BY <1>1, <1>4
  <2> HIDE DEF n, level
  <2> QED
    BY <1>1, <2>1, <2>2, <2>3, <2>4, <2>5 DEF AtLayer, NewSize, level, n
<1>6. \E k \in 0..n : AtLayer(k)'
  BY <1>3, <1>5
<1> QED
  BY <1>1, <1>3, <1>6 DEF LoopInv

\* What the loop knows of the two layers it works on.
LEMMA LoopLayers ==
  ASSUME LoopInv, pc = "level",
         NEW k \in Nat, k <= Len(caLeaves), AtLayer(k), size > 1
  PROVE  /\ Len(caLeaves) \in Nat /\ size \in Nat
         /\ k + 1 \in 0..Len(caLeaves)
         /\ Len(Layers(caLeaves)[k + 1]) = NewSize
         /\ \A p \in 1..NewSize :
              Layers(caLeaves)[k + 1][p] =
                HashPair(Layers(caLeaves)[k][2 * p - 1],
                         IF 2 * p <= size THEN Layers(caLeaves)[k][2 * p]
                                          ELSE Layers(caLeaves)[k][2 * p - 1])
<1> DEFINE n == Len(caLeaves)
           level == Layers(caLeaves)
<1>1. IsLayer(caLeaves) /\ n > 1
  BY CaListsAreLayers DEF LoopInv
<1>2. n \in Nat /\ caLeaves # << >>
  <2> n \in Nat
    BY <1>1 DEF IsLayer
  <2> QED
    BY <1>1
<1>3. size = Len(level[k]) /\ \A j \in 0..(k - 1) : Len(level[j]) > 1
  BY DEF AtLayer
<1>4. /\ \A j \in 0..n : IsLayer(level[j])
      /\ \A j \in 1..n : level[j] = NextLayer(level[j - 1])
  BY <1>1, <1>2, LayersSound
<1>5. IsLayer(level[k]) /\ size \in Nat
  <2> IsLayer(level[k])
    BY <1>4
  <2> QED
    BY <1>3 DEF IsLayer
<1>6. k < n
  <2> DEFINE width(j) == Len(level[j])
             h == Height(caLeaves)
  <2>1. /\ h \in 0..n /\ width(h) = 1
        /\ \A j \in 0..n : (\A l \in 0..(j - 1) : width(l) > 1) => j <= h
    BY <1>1, <1>2, HeightSound
  <2>2. width(k) = size /\ \A j \in 0..(k - 1) : width(j) > 1
    BY <1>3
  <2>3. n \in Nat /\ k \in 0..n
    BY <1>2
  <2> HIDE DEF n, level, width, h
  <2>4. k <= h
    BY <2>1, <2>2, <2>3, Zenon
  <2>5. k # h
    BY <2>1, <2>2
  <2> QED
    BY <2>1, <2>3, <2>4, <2>5
<1>7. k + 1 \in 1..n /\ (k + 1) - 1 = k /\ k + 1 \in 0..n
  <2> HIDE DEF n
  <2> QED
    BY <1>2, <1>6
<1>8. level[k + 1] = NextLayer(level[k])
  <2> level[k + 1] = NextLayer(level[(k + 1) - 1])
    BY <1>4, <1>7
  <2> QED
    BY <1>7
<1>9. /\ Len(level[k + 1]) = (size + 1) \div 2
      /\ \A p \in 1..((size + 1) \div 2) :
           level[k + 1][p] = HashPair(level[k][2 * p - 1],
             IF 2 * p <= size THEN level[k][2 * p] ELSE level[k][2 * p - 1])
  <2> HIDE DEF level, n
  <2> QED
    BY <1>3, <1>5, <1>8, NextLayerSound
<1> QED
  BY <1>2, <1>5, <1>7, <1>9, Zenon DEF NewSize

\* The node that is written is the one of the layer above, and no node that is still to be
\* read is lost.
LEMMA HashNodeKeeps ==
  ASSUME LoopInv, HashNode
  PROVE  LoopInv'
<1> DEFINE n == Len(caLeaves)
           level == Layers(caLeaves)
<1>1. /\ pc = "level" /\ size > 1 /\ i < NewSize /\ i' = i + 1
      /\ UNCHANGED <<caLeaves, size, pc, root>>
  BY DEF HashNode
<1>2. PICK k \in Nat : k <= n /\ AtLayer(k)
  BY <1>1, CaListsAreLayers DEF LoopInv, IsLayer
<1>3. /\ n \in Nat /\ size \in Nat /\ k + 1 \in 0..n
      /\ \A p \in 1..NewSize :
           level[k + 1][p] = HashPair(level[k][2 * p - 1],
             IF 2 * p <= size THEN level[k][2 * p] ELSE level[k][2 * p - 1])
  BY <1>1, <1>2, LoopLayers
<1>4. /\ i \in Nat /\ size <= n
      /\ \A p \in 1..i : layer[p] = level[k + 1][p]
      /\ \A p \in (i + 1)..size : layer[p] = level[k][p]
  BY <1>2 DEF AtLayer
<1>5. layer = [p \in 1..n |-> layer[p]]
  BY <1>1 DEF LoopInv
<1> DEFINE left == layer[2 * i + 1]
           right == IF 2 * i + 1 < size THEN layer[2 * i + 2] ELSE left
<1>6. layer' = [layer EXCEPT ![i + 1] = HashPair(left, right)]
  BY DEF HashNode
<1>7. NewSize = (size + 1) \div 2
  BY DEF NewSize
<1> HIDE DEF n, level
<1>8. /\ i + 1 \in 1..NewSize /\ i + 1 \in 1..n /\ i + 1 <= size
      /\ 2 * i + 1 \in (i + 1)..size
      /\ 2 * i + 1 < size => 2 * i + 2 \in (i + 1)..size
      /\ 2 * (i + 1) - 1 = 2 * i + 1 /\ 2 * (i + 1) = 2 * i + 2
      /\ 2 * i + 1 < size <=> 2 * i + 2 <= size
  BY <1>1, <1>3, <1>4, <1>7
<1>9. HashPair(left, right) = level[k + 1][i + 1]
  <2>1. left = level[k][2 * i + 1]
    BY <1>4, <1>8
  <2>2. right = IF 2 * i + 2 <= size THEN level[k][2 * i + 2] ELSE level[k][2 * i + 1]
    BY <1>4, <1>8
  <2>3. level[k + 1][i + 1] = HashPair(level[k][2 * (i + 1) - 1],
          IF 2 * (i + 1) <= size THEN level[k][2 * (i + 1)] ELSE level[k][2 * (i + 1) - 1])
    BY <1>3, <1>8
  <2> HIDE DEF left, right
  <2> QED
    BY <1>8, <2>1, <2>2, <2>3
<1> HIDE DEF left, right
<1>10. /\ layer' = [p \in 1..n |-> layer'[p]]
       /\ layer'[i + 1] = level[k + 1][i + 1]
       /\ \A p \in 1..n : p # i + 1 => layer'[p] = layer[p]
  BY <1>5, <1>6, <1>8, <1>9
<1>11. AtLayer(k)'
  <2>1. \A p \in 1..i' : layer'[p] = level[k + 1][p]
    <3> SUFFICES ASSUME NEW p \in 1..i'
                 PROVE  layer'[p] = level[k + 1][p]
      OBVIOUS
    <3>1. p \in 1..n /\ (p # i + 1 => p \in 1..i)
      BY <1>1, <1>3, <1>4, <1>8
    <3> QED
      BY <1>4, <1>10, <3>1
  <2>2. \A p \in (i' + 1)..size' : layer'[p] = level[k][p]
    <3> SUFFICES ASSUME NEW p \in (i' + 1)..size'
                 PROVE  layer'[p] = level[k][p]
      OBVIOUS
    <3>1. p \in 1..n /\ p # i + 1 /\ p \in (i + 1)..size
      BY <1>1, <1>3, <1>4
    <3> QED
      BY <1>4, <1>10, <3>1
  <2>3. i' \in Nat /\ i' <= (size' + 1) \div 2 /\ size' # 1
    BY <1>1, <1>3, <1>4, <1>7
  <2>4. /\ \A j \in 0..(k - 1) : Len(level[j]) > 1
        /\ size' = Len(level[k]) /\ size' <= n
    BY <1>1, <1>2 DEF AtLayer, level, n
  <2> QED
    BY <1>1, <2>1, <2>2, <2>3, <2>4 DEF AtLayer, NewSize, level, n
<1>12. \E l \in 0..n : AtLayer(l)'
  <2> k \in 0..n
    BY <1>2, <1>3
  <2> QED
    BY <1>11, Zenon
<1> QED
  BY <1>1, <1>10, <1>12 DEF LoopInv, n

LEMMA NextLevelKeeps ==
  ASSUME LoopInv, NextLevel
  PROVE  LoopInv'
<1> DEFINE n == Len(caLeaves)
           level == Layers(caLeaves)
<1>1. /\ pc = "level" /\ size > 1 /\ i = NewSize /\ size' = NewSize /\ i' = 0
      /\ UNCHANGED <<caLeaves, layer, pc, root>>
  BY DEF NextLevel
<1>2. PICK k \in Nat : k <= n /\ AtLayer(k)
  BY <1>1, CaListsAreLayers DEF LoopInv, IsLayer
<1>3. /\ n \in Nat /\ size \in Nat /\ k + 1 \in 0..n
      /\ Len(level[k + 1]) = NewSize
  BY <1>1, <1>2, LoopLayers
<1>4. /\ \A j \in 0..(k - 1) : Len(level[j]) > 1
      /\ size = Len(level[k]) /\ size <= n
      /\ \A p \in 1..i : layer[p] = level[k + 1][p]
  BY <1>2 DEF AtLayer
<1>5. NewSize = (size + 1) \div 2
  BY DEF NewSize
<1> HIDE DEF n, level
<1>6. AtLayer(k + 1)'
  <2>1. \A j \in 0..((k + 1) - 1) : Len(level[j]) > 1
    <3> SUFFICES ASSUME NEW j \in 0..((k + 1) - 1)
                 PROVE  Len(level[j]) > 1
      OBVIOUS
    <3>1. j = k \/ j \in 0..(k - 1)
      OBVIOUS
    <3> QED
      BY <1>1, <1>4, <3>1
  <2>2. size' = Len(level[k + 1]) /\ size' <= n
    <3>1. size' = Len(level[k + 1]) /\ size' = (size + 1) \div 2
      BY <1>1, <1>3, <1>5, Zenon
    <3>2. size \in Nat /\ size <= n /\ size > 1 /\ n \in Nat
      BY <1>1, <1>3, <1>4, Zenon
    <3>3. (size + 1) \div 2 <= n
      BY <3>2
    <3> QED
      BY <3>1, <3>3, Zenon
  <2>3. i' \in Nat /\ i' <= (size' + 1) \div 2 /\ i' = 0
    <3>1. size' \in Nat /\ i' = 0
      BY <1>1, <1>3, <1>5
    <3>2. \A x \in Nat : 0 <= (x + 1) \div 2
      OBVIOUS
    <3>3. 0 <= (size' + 1) \div 2 /\ 0 \in Nat
      BY <3>1, <3>2, Zenon
    <3> QED
      BY <3>1, <3>3, Zenon
  <2>4. \A p \in 1..i' : layer'[p] = level[(k + 1) + 1][p]
    BY <2>3
  <2>5. \A p \in (i' + 1)..size' : layer'[p] = level[k + 1][p]
    BY <1>1, <1>4
  <2> QED
    BY <1>1, <2>1, <2>2, <2>3, <2>4, <2>5 DEF AtLayer, NewSize, level, n
<1>7. \E l \in 0..n : AtLayer(l)'
  BY <1>3, <1>6
<1> QED
  BY <1>1, <1>7 DEF LoopInv, n

LEMMA PublishRootKeeps ==
  ASSUME LoopInv, PublishRoot
  PROVE  LoopInv'
<1> DEFINE n == Len(caLeaves)
           level == Layers(caLeaves)
<1>1. /\ pc = "level" /\ size = 1 /\ root' = layer[1] /\ pc' = "done"
      /\ caLeaves' = caLeaves
  BY DEF PublishRoot
<1>2. PICK k \in Nat : k <= n /\ AtLayer(k)
  BY <1>1, CaListsAreLayers DEF LoopInv, IsLayer
<1>3. /\ \A j \in 0..(k - 1) : Len(level[j]) > 1
      /\ Len(level[k]) = 1
      /\ layer[1] = level[k][1]
  BY <1>1, <1>2 DEF AtLayer
<1>4. IsLayer(caLeaves) /\ n > 1 /\ caLeaves \in CaLists
  BY <1>1, CaListsAreLayers DEF LoopInv
<1>5. caLeaves # << >>
  BY <1>4
<1>6. k = Height(caLeaves)
  <2>1. \A j \in 0..n : (\A l \in 0..(j - 1) : Len(level[l]) > 1) =>
                           (Len(level[j]) = 1 <=> j = Height(caLeaves))
    BY <1>4, <1>5, HeightSound
  <2>2. k \in 0..n
    BY <1>2, <1>4 DEF IsLayer
  <2> HIDE DEF n, level
  <2> QED
    BY <1>3, <2>1, <2>2, Zenon
<1>7. MerkleRoot(caLeaves) = level[k][1]
  BY <1>5, <1>6 DEF MerkleRoot
<1>8. root' = MerkleRoot(caLeaves)
  BY <1>1, <1>3, <1>7
<1> QED
  BY <1>1, <1>4, <1>8 DEF LoopInv

LEMMA LoopStep ==
  ASSUME LoopInv, [CaTreeStep \/ CrlTreeStep \/ FactoryStep]_groundVars
  PROVE  LoopInv'
<1>1. ASSUME CaTreeStep
      PROVE  LoopInv'
  BY <1>1, ShortListKeeps, CopyLeavesKeeps, HashNodeKeeps, NextLevelKeeps, PublishRootKeeps
     DEF CaTreeStep, Next
<1>2. ASSUME UNCHANGED vars
      PROVE  LoopInv'
  BY <1>2 DEF vars, LoopInv, AtLayer, NewSize
<1> QED
  BY <1>1, <1>2 DEF CrlTreeStep, FactoryStep, groundVars

THEOREM LoopInvariance == GroundSpec => []LoopInv
<1>1. GroundInit => LoopInv
  BY LoopInit
<1>2. LoopInv /\ [CaTreeStep \/ CrlTreeStep \/ FactoryStep]_groundVars => LoopInv'
  BY LoopStep
<1> QED
  BY <1>1, <1>2, PTL DEF GroundSpec

\* How many steps the loop may still take.
StepsLeft ==
  IF pc = "done" THEN 0 ELSE IF pc = "start" THEN 3 * Len(caLeaves) + 1 ELSE 3 * size - i

\* In the middle of the loop there is a node to write, a level to begin or a root to publish.
BeforeEnd ==
  /\ pc = "start" => i = 0
  /\ pc = "level" =>
       /\ size \in Nat /\ i \in Nat /\ size <= Len(caLeaves)
       /\ (size = 1 /\ i = 0) \/ (size > 1 /\ i <= NewSize)

LEMMA LoopInvBeforeEnd == LoopInv => BeforeEnd /\ Len(caLeaves) \in Nat
<1> SUFFICES ASSUME LoopInv
             PROVE  BeforeEnd /\ Len(caLeaves) \in Nat
  OBVIOUS
<1>1. IsLayer(caLeaves) /\ Len(caLeaves) \in Nat
  BY CaListsAreLayers DEF LoopInv, IsLayer
<1>2. ASSUME pc = "level"
      PROVE  /\ size \in Nat /\ i \in Nat /\ size <= Len(caLeaves)
             /\ (size = 1 /\ i = 0) \/ (size > 1 /\ i <= NewSize)
  <2> DEFINE level == Layers(caLeaves)
  <2>1. PICK k \in 0..Len(caLeaves) : AtLayer(k)
    BY <1>2 DEF LoopInv
  <2>2. Len(caLeaves) > 1 /\ caLeaves # << >>
    <3> Len(caLeaves) > 1
      BY <1>2 DEF LoopInv
    <3> QED
      OBVIOUS
  <2>3. IsLayer(level[k]) /\ Len(level[k]) > 0
    BY <1>1, <2>1, <2>2, LayersSound
  <2>4. size = Len(level[k]) /\ size <= Len(caLeaves) /\ i \in Nat /\ i <= NewSize
        /\ (size = 1 => i = 0)
    BY <2>1 DEF AtLayer
  <2>5. size \in Nat /\ size > 0
    BY <2>3, <2>4 DEF IsLayer
  <2>6. size = 1 \/ size > 1
    BY <2>5
  <2> QED
    BY <2>4, <2>5, <2>6, Zenon
<1>3. pc = "start" => i = 0
  BY DEF LoopInv
<1> QED
  BY <1>1, <1>2, <1>3 DEF BeforeEnd

LEMMA StepsLeftFall ==
  ASSUME BeforeEnd, Len(caLeaves) \in Nat, CaTreeStep
  PROVE  StepsLeft' < StepsLeft
<1>1. CASE ShortList
  <2>1. StepsLeft = 3 * Len(caLeaves) + 1 /\ StepsLeft' = 0
    BY <1>1 DEF ShortList, StepsLeft
  <2> QED
    BY <2>1
<1>2. CASE CopyLeaves
  <2>1. /\ StepsLeft = 3 * Len(caLeaves) + 1 /\ StepsLeft' = 3 * size' - i'
        /\ size' = Len(caLeaves) /\ i' \in Nat
    BY <1>2 DEF CopyLeaves, StepsLeft, BeforeEnd
  <2> QED
    BY <2>1
<1>3. CASE HashNode
  <2>1. /\ StepsLeft = 3 * size - i /\ StepsLeft' = 3 * size - (i + 1)
        /\ size \in Nat /\ i \in Nat
    BY <1>3 DEF HashNode, StepsLeft, BeforeEnd
  <2> QED
    BY <2>1
<1>4. CASE NextLevel
  <2>1. /\ StepsLeft = 3 * size - ((size + 1) \div 2) /\ StepsLeft' = 3 * ((size + 1) \div 2) - 0
        /\ size \in Nat /\ size > 1
    BY <1>4 DEF NextLevel, StepsLeft, BeforeEnd, NewSize
  <2>2. \A m \in Nat : m > 1 => 3 * ((m + 1) \div 2) - 0 < 3 * m - ((m + 1) \div 2)
    OBVIOUS
  <2> QED
    BY <2>1, <2>2
<1>5. CASE PublishRoot
  <2>1. StepsLeft = 3 * size - i /\ StepsLeft' = 0 /\ size = 1 /\ i = 0
    BY <1>5 DEF PublishRoot, StepsLeft, BeforeEnd
  <2> QED
    BY <2>1
<1> QED
  BY <1>1, <1>2, <1>3, <1>4, <1>5 DEF CaTreeStep, Next

\* IdentityRegistry.sol, _recomputeCaMerkleRoot: for n CAs the nested loops make at most
\* 3n + 1 steps, whatever the list, since each step leaves fewer to take; and before the
\* end there is always one to take.  With the loop run on, it ends.
THEOREM LoopIsBounded ==
  GroundSpec => /\ [](StepsLeft \in 0..(3 * Len(caLeaves) + 1) /\ BeforeEnd)
                /\ [][CaTreeStep => StepsLeft' < StepsLeft]_groundVars
<1>1. LoopInv => StepsLeft \in 0..(3 * Len(caLeaves) + 1) /\ BeforeEnd
  <2> SUFFICES ASSUME LoopInv
               PROVE  StepsLeft \in 0..(3 * Len(caLeaves) + 1) /\ BeforeEnd
    OBVIOUS
  <2>1. BeforeEnd /\ Len(caLeaves) \in Nat /\ pc \in {"start", "level", "done"}
    BY LoopInvBeforeEnd DEF LoopInv
  <2>2. \A m \in Nat : (m + 1) \div 2 <= m
    OBVIOUS
  <2>3. CASE pc = "level"
    <3>1. StepsLeft = 3 * size - i
      BY <2>3 DEF StepsLeft
    <3>2. size \in Nat /\ i \in Nat /\ size <= Len(caLeaves) /\ i <= size
      <4>1. size \in Nat /\ i \in Nat /\ size <= Len(caLeaves)
            /\ ((i <= 1 /\ size = 1) \/ i <= (size + 1) \div 2)
        BY <2>1, <2>3 DEF BeforeEnd, NewSize
      <4>2. (size + 1) \div 2 <= size
        BY <2>2, <4>1
      <4> HIDE DEF NewSize
      <4> QED
        BY <4>1, <4>2
    <3> QED
      BY <2>1, <3>1, <3>2
  <2>4. CASE pc # "level"
    BY <2>1, <2>4 DEF StepsLeft
  <2> QED
    BY <2>1, <2>3, <2>4
<1>2. LoopInv /\ [CaTreeStep \/ CrlTreeStep \/ FactoryStep]_groundVars
        => [CaTreeStep => StepsLeft' < StepsLeft]_groundVars
  BY LoopInvBeforeEnd, StepsLeftFall
<1> QED
  BY <1>1, <1>2, LoopInvariance, PTL DEF GroundSpec

\* IdentityRegistry.sol, _recomputeCaMerkleRoot: every level is written over the one below
\* it, and what comes out is the root that the hosts compute; merkle.rs and main.rs: the
\* path of a listed CA leads from it to that root, and from no other CA.  For every list.
THEOREM PathsProveMembershipHolds == GroundSpec => []PathsProveMembership
<1>1. LoopInv => PathsProveMembership
  <2> SUFFICES ASSUME LoopInv, pc = "done"
               PROVE  /\ root = MerkleRoot(caLeaves)
                      /\ \A ca \in Cas, index \in 0..(Len(caLeaves) - 1) :
                           MembershipRoot(ca, MerklePath(caLeaves, index)) = root
                             <=> ca = caLeaves[index + 1]
    BY Zenon DEF PathsProveMembership
  <2>1. root = MerkleRoot(caLeaves) /\ IsLayer(caLeaves)
    BY CaListsAreLayers DEF LoopInv
  <2>2. ASSUME NEW ca \in Cas, NEW index \in 0..(Len(caLeaves) - 1)
        PROVE  MembershipRoot(ca, MerklePath(caLeaves, index)) = root
                 <=> ca = caLeaves[index + 1]
    <3>1. index \in Nat /\ index < Len(caLeaves) /\ caLeaves # << >>
      <4> Len(caLeaves) \in Nat
        BY <2>1 DEF IsLayer
      <4> QED
        OBVIOUS
    <3> DEFINE path == MerklePath(caLeaves, index)
    <3>2. MembershipRoot(caLeaves[index + 1], path) = root /\ Len(path) \in Nat
      BY <2>1, <3>1, PathLeadsToRoot
    <3>3. MembershipRoot(ca, path) = root => ca = caLeaves[index + 1]
      <4> HIDE DEF path
      <4> QED
        BY <3>2, MembershipRootInjective
    <3> QED
      BY <3>2, <3>3
  <2> QED
    BY <2>1, <2>2
<1> QED
  BY <1>1, LoopInvariance, PTL

-----------------------------------------------------------------------------
(* Sorting: a number stands at the place that the count of smaller ones gives it. *)

Rank(h, S) == Cardinality({g \in S : g < h})
Sorted(S) == [k \in 1..Cardinality(S) |-> CHOOSE h \in S : Rank(h, S) = k - 1]

LEMMA RankMonotone ==
  ASSUME NEW S, S \subseteq Nat, IsFiniteSet(S)
  PROVE  /\ Cardinality(S) \in Nat
         /\ \A h \in S : Rank(h, S) \in Nat /\ Rank(h, S) < Cardinality(S)
         /\ \A g, h \in S : g < h => Rank(g, S) < Rank(h, S)
<1> DEFINE below(h) == {g \in S : g < h}
<1>1. Cardinality(S) \in Nat
  BY FS_CardinalityType
<1>2. ASSUME NEW h \in S
      PROVE  /\ IsFiniteSet(below(h)) /\ Rank(h, S) \in Nat /\ Rank(h, S) < Cardinality(S)
  <2>1. below(h) \subseteq S /\ h \in S /\ h \notin below(h)
    OBVIOUS
  <2>2. Rank(h, S) = Cardinality(below(h))
    BY Zenon DEF Rank
  <2> HIDE DEF below
  <2>3. /\ IsFiniteSet(below(h)) /\ Cardinality(below(h)) <= Cardinality(S)
        /\ Cardinality(below(h)) = Cardinality(S) => S = below(h)
    BY <2>1, FS_Subset
  <2>4. Cardinality(below(h)) \in Nat /\ Cardinality(below(h)) # Cardinality(S)
    BY <2>1, <2>3, FS_CardinalityType
  <2> QED
    BY <1>1, <2>2, <2>3, <2>4
<1>3. ASSUME NEW g \in S, NEW h \in S, g < h
      PROVE  Rank(g, S) < Rank(h, S)
  <2>1. below(g) \subseteq below(h) /\ g \in below(h) /\ g \notin below(g)
    <3>1. \A x \in S : x \in Nat
      OBVIOUS
    <3>2. \A x \in S : x < g => x < h
      BY <1>3, <3>1
    <3>3. ~(g < g)
      BY <3>1
    <3> QED
      BY <1>3, <3>2, <3>3, Zenon
  <2>2. Rank(g, S) = Cardinality(below(g)) /\ Rank(h, S) = Cardinality(below(h))
    BY Zenon DEF Rank
  <2>3. IsFiniteSet(below(h)) /\ Rank(g, S) \in Nat /\ Rank(h, S) \in Nat
    BY <1>2
  <2> HIDE DEF below
  <2>4. /\ Cardinality(below(g)) <= Cardinality(below(h))
        /\ Cardinality(below(g)) = Cardinality(below(h)) => below(h) = below(g)
    BY <2>1, <2>3, FS_Subset
  <2> QED
    BY <2>1, <2>2, <2>3, <2>4
<1> QED
  BY <1>1, <1>2, <1>3

\* Every place is taken.
LEMMA RankOnto ==
  ASSUME NEW S, S \subseteq Nat, IsFiniteSet(S)
  PROVE  \A k \in Nat : k < Cardinality(S) => \E h \in S : Rank(h, S) = k
<1> DEFINE n == Cardinality(S)
           below(h) == {g \in S : g < h}
           T == {k \in Nat : k < n => \E h \in S : Rank(h, S) = k}
<1>1. n \in Nat
  BY RankMonotone
<1>2. 0 \in T
  <2> SUFFICES ASSUME 0 < n PROVE \E h \in S : Rank(h, S) = 0
    OBVIOUS
  <2>1. S # {}
    BY FS_EmptySet
  <2>2. PICK h \in S : \A g \in S : h <= g
    BY <2>1, LeastNumber
  <2>3. below(h) = {}
    <3>1. \A g \in S : g \in Nat /\ h \in Nat
      OBVIOUS
    <3>2. \A g \in S : ~(g < h)
      BY <2>2, <3>1
    <3> QED
      BY <3>2, Zenon
  <2>4. Rank(h, S) = 0
    BY <2>3, FS_EmptySet DEF Rank
  <2> QED
    BY <2>4
<1>3. ASSUME NEW k \in Nat, k \in T
      PROVE  k + 1 \in T
  <2> SUFFICES ASSUME k + 1 < n PROVE \E h \in S : Rank(h, S) = k + 1
    OBVIOUS
  <2>1. k < n
    BY <1>1
  <2>2. PICK h \in S : Rank(h, S) = k
    BY <1>3, <2>1
  <2> DEFINE upTo == below(h) \cup {h}
             R == {g \in S : h < g}
  <2>3. IsFiniteSet(below(h)) /\ h \notin below(h) /\ Cardinality(below(h)) = k
    <3>1. below(h) \subseteq S
      OBVIOUS
    <3>2. IsFiniteSet(below(h))
      <4> HIDE DEF below
      <4> QED
        BY <3>1, FS_Subset
    <3> QED
      BY <2>2, <3>2 DEF Rank
  <2>4. Cardinality(upTo) = k + 1
    <3> HIDE DEF below
    <3> QED
      BY <2>3, FS_AddElement
  <2>5. R # {}
    <3> SUFFICES ASSUME R = {} PROVE FALSE
      OBVIOUS
    <3>1. S = upTo
      <4>1. \A g \in S : g \in Nat /\ h \in Nat
        OBVIOUS
      <4>2. \A g \in S : ~(h < g)
        BY Zenon
      <4>3. \A g \in S : g < h \/ g = h
        BY <4>1, <4>2
      <4> QED
        BY <4>3, Zenon
    <3> HIDE DEF upTo
    <3> QED
      BY <1>1, <2>4, <3>1
  <2>6. PICK m \in R : \A g \in R : m <= g
    <3> R \subseteq Nat
      OBVIOUS
    <3> HIDE DEF R
    <3> QED
      BY <2>5, LeastNumber
  <2>7. below(m) = upTo
    <3>1. ASSUME NEW g \in S PROVE g < m <=> (g < h \/ g = h)
      <4>1. m \in Nat /\ h \in Nat /\ g \in Nat /\ h < m /\ (h < g => m <= g)
        BY <2>6
      <4> QED
        BY <4>1
    <3> QED
      BY <3>1
  <2>8. m \in S /\ Rank(m, S) = k + 1
    <3>1. m \in S
      OBVIOUS
    <3> HIDE DEF upTo
    <3> QED
      BY <2>4, <2>7, <3>1 DEF Rank
  <2> QED
    BY <2>8
<1>4. Nat \subseteq T
  <2> HIDE DEF T
  <2> QED
    BY <1>2, <1>3, SetInduction
<1> QED
  BY <1>4

LEMMA SortedSound ==
  ASSUME NEW S, S \subseteq Nat, IsFiniteSet(S)
  PROVE  /\ Cardinality(S) \in Nat
         /\ Sorted(S) \in [1..Cardinality(S) -> S]
         /\ \A k, l \in 1..Cardinality(S) : k < l => Sorted(S)[k] < Sorted(S)[l]
         /\ \A h \in S : \E k \in 1..Cardinality(S) : Sorted(S)[k] = h
<1> DEFINE n == Cardinality(S)
           s == Sorted(S)
<1>1. /\ n \in Nat
      /\ \A h \in S : Rank(h, S) \in Nat /\ Rank(h, S) < n
      /\ \A g, h \in S : g < h => Rank(g, S) < Rank(h, S)
  BY RankMonotone
<1>2. \A k \in Nat : k < n => \E h \in S : Rank(h, S) = k
  BY RankOnto
<1>3. s = [k \in 1..n |-> CHOOSE h \in S : Rank(h, S) = k - 1]
  BY DEF Sorted
<1> HIDE DEF n, s
<1>4. ASSUME NEW k \in 1..n
      PROVE  s[k] \in S /\ Rank(s[k], S) = k - 1
  <2>1. k - 1 \in Nat /\ k - 1 < n
    BY <1>1
  <2>2. \E h \in S : Rank(h, S) = k - 1
    BY <1>2, <2>1
  <2>3. s[k] = CHOOSE h \in S : Rank(h, S) = k - 1
    BY <1>3
  <2> QED
    BY <2>2, <2>3
<1>5. s \in [1..n -> S]
  BY <1>3, <1>4
<1>6. ASSUME NEW k \in 1..n, NEW l \in 1..n, k < l
      PROVE  s[k] < s[l]
  <2>1. s[k] \in Nat /\ s[l] \in Nat /\ s[k] \in S /\ s[l] \in S
    BY <1>4
  <2>2. Rank(s[k], S) < Rank(s[l], S)
    BY <1>1, <1>4, <1>6
  <2>3. ~(s[l] < s[k]) /\ s[l] # s[k]
    <3>1. s[l] < s[k] => Rank(s[l], S) < Rank(s[k], S)
      BY <1>1, <2>1
    <3>2. Rank(s[k], S) \in Nat /\ Rank(s[l], S) \in Nat
      BY <1>1, <2>1
    <3> QED
      BY <2>2, <3>1, <3>2
  <2> QED
    BY <2>1, <2>3
<1>7. ASSUME NEW h \in S
      PROVE  \E k \in 1..n : s[k] = h
  <2> DEFINE k == Rank(h, S) + 1
  <2>1. k \in 1..n /\ k - 1 = Rank(h, S)
    BY <1>1
  <2> HIDE DEF k
  <2>2. s[k] \in S /\ Rank(s[k], S) = Rank(h, S)
    BY <1>4, <2>1
  <2>3. s[k] = h
    <3>1. s[k] \in Nat /\ h \in Nat
      BY <2>2
    <3>2. s[k] < h => Rank(s[k], S) < Rank(h, S)
      BY <1>1, <2>2
    <3>3. h < s[k] => Rank(h, S) < Rank(s[k], S)
      BY <1>1, <2>2
    <3>4. Rank(h, S) \in Nat /\ Rank(s[k], S) \in Nat
      BY <1>1, <2>2
    <3> QED
      BY <2>2, <3>1, <3>2, <3>3, <3>4
  <2> QED
    BY <2>1, <2>3
<1> QED
  BY <1>1, <1>5, <1>6, <1>7 DEF n, s

-----------------------------------------------------------------------------
(* CrlTree: the tree of revoked serials.  Its hashes keep the order of their arguments,   *)
(* and its leaves are the hashes of a sorted list.                                        *)

CrlLayersOf(f, bottom, n) ==
  f = [k \in 0..n |-> IF k = 0 THEN bottom ELSE Crl!NextLayer(f[k - 1])]

LEMMA CrlLayersExist ==
  ASSUME NEW bottom, NEW n \in Nat
  PROVE  \E f : CrlLayersOf(f, bottom, n)
<1> DEFINE T == {k \in Nat : \E f : CrlLayersOf(f, bottom, k)}
<1>1. 0 \in T
  <2> DEFINE f == [k \in 0..0 |-> bottom]
  <2>1. CrlLayersOf(f, bottom, 0)
    BY DEF CrlLayersOf
  <2> QED
    BY <2>1
<1>2. ASSUME NEW k \in Nat, k < n, k \in T
      PROVE  k + 1 \in T
  <2>1. PICK f : CrlLayersOf(f, bottom, k)
    BY <1>2
  <2> DEFINE g == [j \in 0..(k + 1) |-> IF j = k + 1 THEN Crl!NextLayer(f[k]) ELSE f[j]]
  <2>2. ASSUME NEW j \in 0..(k + 1)
        PROVE  g[j] = IF j = 0 THEN bottom ELSE Crl!NextLayer(g[j - 1])
    <3>1. CASE j = 0
      BY <2>1, <3>1 DEF CrlLayersOf
    <3>2. CASE j # 0 /\ j # k + 1
      <4>1. j \in 0..k /\ j - 1 \in 0..(k + 1) /\ j - 1 # k + 1
        BY <3>2
      <4>2. g[j] = f[j] /\ g[j - 1] = f[j - 1]
        BY <4>1, <3>2
      <4>3. f[j] = Crl!NextLayer(f[j - 1])
        BY <2>1, <3>2, <4>1 DEF CrlLayersOf
      <4> QED
        <5> HIDE DEF g
        <5> QED
          BY <3>2, <4>2, <4>3
    <3>3. CASE j = k + 1
      <4>1. j - 1 = k /\ j - 1 \in 0..(k + 1) /\ j - 1 # k + 1 /\ j # 0
        BY <3>3
      <4>2. g[j] = Crl!NextLayer(f[k]) /\ g[k] = f[k]
        BY <4>1, <3>3
      <4> QED
        <5> HIDE DEF g
        <5> QED
          BY <4>1, <4>2
    <3> QED
      BY <3>1, <3>2, <3>3
  <2>3. g = [j \in 0..(k + 1) |-> g[j]]
    OBVIOUS
  <2>4. CrlLayersOf(g, bottom, k + 1)
    <3> HIDE DEF g
    <3> QED
      BY <2>2, <2>3 DEF CrlLayersOf
  <2> QED
    <3> HIDE DEF g
    <3> QED
      BY <2>4
<1>3. \A k \in 0..n : k \in T
  <2> HIDE DEF T
  <2> QED
    BY <1>1, <1>2, IntervalInduction
<1> QED
  BY <1>3

LEMMA CrlNextLayerSound ==
  ASSUME NEW s, IsLayer(s)
  PROVE  /\ IsLayer(Crl!NextLayer(s))
         /\ Len(Crl!NextLayer(s)) = (Len(s) + 1) \div 2
         /\ \A k \in 1..((Len(s) + 1) \div 2) :
              Crl!NextLayer(s)[k] = Crl!HashChildren(s[2 * k - 1],
                                         IF 2 * k <= Len(s) THEN s[2 * k] ELSE s[2 * k - 1])
<1> DEFINE m == (Len(s) + 1) \div 2
           node(k) == Crl!HashChildren(s[2 * k - 1],
                               IF 2 * k <= Len(s) THEN s[2 * k] ELSE s[2 * k - 1])
<1>1. m \in Nat
  BY DEF IsLayer
<1>2. Crl!NextLayer(s) = [k \in 1..m |-> node(k)]
  BY Zenon DEF Crl!NextLayer
<1>3. Len([k \in 1..m |-> node(k)]) = m
  <2> HIDE DEF m, node
  <2> QED
    BY <1>1
<1> HIDE DEF m, node
<1>4. IsLayer(Crl!NextLayer(s)) /\ Len(Crl!NextLayer(s)) = m
      /\ \A k \in 1..m : Crl!NextLayer(s)[k] = node(k)
  BY <1>1, <1>2, <1>3 DEF IsLayer
<1> QED
  BY <1>4, Zenon DEF m, node

\* The nodes above the leaves.
FirstLayer(leaves) == [j \in DOMAIN leaves |-> <<leaves[j]>>]

LEMMA CrlLayersSound ==
  ASSUME NEW leaves, IsLayer(leaves), leaves # << >>
  PROVE  /\ Crl!Layers(leaves)[0] = FirstLayer(leaves)
         /\ Len(Crl!Layers(leaves)[0]) = Len(leaves)
         /\ \A k \in 0..Len(leaves) :
              IsLayer(Crl!Layers(leaves)[k]) /\ Len(Crl!Layers(leaves)[k]) > 0
         /\ \A k \in 1..Len(leaves) :
              Crl!Layers(leaves)[k] = Crl!NextLayer(Crl!Layers(leaves)[k - 1])
         /\ \A k \in 1..Len(leaves) :
              Len(Crl!Layers(leaves)[k]) = (Len(Crl!Layers(leaves)[k - 1]) + 1) \div 2
         /\ \E k \in 0..Len(leaves) :
              /\ Len(Crl!Layers(leaves)[k]) = 1
              /\ \A j \in 0..(k - 1) : Len(Crl!Layers(leaves)[j]) > 1
<1> DEFINE n == Len(leaves)
           level == Crl!Layers(leaves)
<1>1. n \in Nat \ {0}
  BY EmptySeq DEF IsLayer
<1>2. level = [k \in 0..n |-> IF k = 0 THEN FirstLayer(leaves) ELSE Crl!NextLayer(level[k - 1])]
  <2>1. \E f : CrlLayersOf(f, FirstLayer(leaves), n)
    BY <1>1, CrlLayersExist
  <2>2. level = CHOOSE f : CrlLayersOf(f, FirstLayer(leaves), n)
    BY Zenon DEF Crl!Layers, CrlLayersOf, FirstLayer
  <2> HIDE DEF n, level
  <2>3. CrlLayersOf(level, FirstLayer(leaves), n)
    BY <2>1, <2>2, Zenon
  <2> QED
    BY <2>3, Zenon DEF CrlLayersOf
<1> HIDE DEF level, n
<1>3. level[0] = FirstLayer(leaves)
  BY <1>1, <1>2
<1>4. ASSUME NEW k \in 1..n
      PROVE  level[k] = Crl!NextLayer(level[k - 1])
  <2> k \in 0..n /\ k # 0
    BY <1>1
  <2> QED
    BY <1>2
<1> DEFINE T == {k \in Nat : k <= n => IsLayer(level[k])}
<1> DEFINE first == FirstLayer(leaves)
<1>15. IsLayer(first) /\ Len(first) = n
  <2>1. n = Len(leaves) /\ n \in Nat
    BY <1>1 DEF n
  <2>2. DOMAIN leaves = 1..n
    BY <2>1 DEF IsLayer
  <2>3. first = [j \in 1..n |-> <<leaves[j]>>]
    BY <2>2 DEF FirstLayer
  <2>4. Len(first) = n
    BY <2>1, <2>3
  <2> QED
    BY <2>1, <2>3, <2>4 DEF IsLayer
<1> HIDE DEF first
<1>5. 0 \in T
  BY <1>3, <1>15 DEF first
<1>6. ASSUME NEW k \in Nat, k < n, k \in T
      PROVE  k + 1 \in T
  <2>1. k + 1 \in 1..n /\ (k + 1) - 1 = k /\ k <= n
    BY <1>1, <1>6
  <2>2. IsLayer(Crl!NextLayer(level[k]))
    BY <1>6, <2>1, CrlNextLayerSound
  <2> QED
    BY <1>4, <2>1, <2>2
<1>7. \A k \in 0..n : k \in T
  <2> HIDE DEF T
  <2> QED
    BY <1>1, <1>5, <1>6, IntervalInduction
<1>8. \A k \in 0..n : IsLayer(level[k])
  BY <1>1, <1>7
<1>9. ASSUME NEW k \in 1..n
      PROVE  Len(level[k]) = (Len(level[k - 1]) + 1) \div 2
  <2> k - 1 \in 0..n
    BY <1>1
  <2> QED
    BY <1>4, <1>8, CrlNextLayerSound
<1> DEFINE len == [k \in 0..n |-> Len(level[k])]
<1>10. Halved(len, n)
  <2>1. len \in [0..n -> Nat]
    BY <1>8 DEF IsLayer
  <2>2. len[0] = n
    <3>1. len[0] = Len(level[0])
      BY <1>1
    <3> QED
      BY <1>3, <1>15, <3>1, Zenon DEF first
  <2>3. \A k \in 1..n : len[k] = (len[k - 1] + 1) \div 2
    <3> SUFFICES ASSUME NEW k \in 1..n
                 PROVE  len[k] = (len[k - 1] + 1) \div 2
      OBVIOUS
    <3> k \in 0..n /\ k - 1 \in 0..n
      BY <1>1
    <3> QED
      BY <1>9
  <2> HIDE DEF len
  <2> QED
    BY <2>1, <2>2, <2>3 DEF Halved
<1>11. /\ \A k \in 0..n : len[k] > 0
       /\ \E k \in 0..n : len[k] = 1 /\ \A j \in 0..(k - 1) : len[j] > 1
  <2> HIDE DEF len
  <2> QED
    BY <1>1, <1>10, HalvingEnds
<1>12. PICK k \in 0..n : len[k] = 1 /\ \A j \in 0..(k - 1) : len[j] > 1
  BY <1>11
<1>13. Len(level[k]) = 1 /\ \A j \in 0..(k - 1) : Len(level[j]) > 1
  <2> \A j \in 0..(k - 1) : j \in 0..n
    BY <1>1
  <2> QED
    BY <1>12
<1>14. \A j \in 0..n : Len(level[j]) > 0
  BY <1>11
<1> HIDE DEF len, T
<1>16. Len(level[0]) = n
  BY <1>3, <1>15, Zenon DEF first
<1> QED
  BY <1>3, <1>4, <1>8, <1>9, <1>13, <1>14, <1>16 DEF level, n

LEMMA CrlHeightSound ==
  ASSUME NEW leaves, IsLayer(leaves), leaves # << >>
  PROVE  /\ Crl!Height(leaves) \in 0..Len(leaves)
         /\ Len(Crl!Layers(leaves)[Crl!Height(leaves)]) = 1
         /\ \A j \in 0..(Crl!Height(leaves) - 1) : Len(Crl!Layers(leaves)[j]) > 1
<1> DEFINE n == Len(leaves)
           Top1(k) == /\ Len(Crl!Layers(leaves)[k]) = 1
                      /\ \A j \in 0..(k - 1) : Len(Crl!Layers(leaves)[j]) > 1
<1>1. n \in Nat /\ \E k \in 0..n : Top1(k)
  BY CrlLayersSound DEF IsLayer
<1>2. Crl!Height(leaves) = CHOOSE k \in 0..n : Top1(k)
  BY Zenon DEF Crl!Height
<1>3. Crl!Height(leaves) \in 0..n /\ Top1(Crl!Height(leaves))
  <2> HIDE DEF n, Top1
  <2> QED
    BY <1>1, <1>2, Zenon
<1> QED
  BY <1>3

LEMMA CrlIndicesSound ==
  ASSUME NEW leaves, IsLayer(leaves), leaves # << >>,
         NEW index \in Nat, index < Len(leaves)
  PROVE  /\ Crl!Indices(leaves, index)[0] = index
         /\ \A k \in 1..Crl!Height(leaves) :
              Crl!Indices(leaves, index)[k] = Crl!Indices(leaves, index)[k - 1] \div 2
         /\ \A k \in 0..Crl!Height(leaves) :
              /\ Crl!Indices(leaves, index)[k] \in Nat
              /\ Crl!Indices(leaves, index)[k] < Len(Crl!Layers(leaves)[k])
<1> DEFINE h == Crl!Height(leaves)
           idx == Crl!Indices(leaves, index)
           Halves(f) == f = [k \in 0..h |-> IF k = 0 THEN index ELSE f[k - 1] \div 2]
<1>1. h \in Nat /\ h <= Len(leaves) /\ Len(leaves) \in Nat
  BY CrlHeightSound DEF IsLayer
<1>2. \E f : Halves(f)
  <2> HIDE DEF h
  <2>1. PICK f \in [0..h -> Nat] :
               f = [k \in 0..h |-> IF k = 0 THEN index ELSE f[k - 1] \div 2]
    BY <1>1, PlacesExist
  <2>2. Halves(f)
    BY <2>1, Zenon
  <2> QED
    BY <2>2, Zenon
<1>3. idx = CHOOSE f : Halves(f)
  BY Zenon DEF Crl!Indices
<1>4. Halves(idx)
  <2> HIDE DEF idx, Halves
  <2> QED
    BY <1>2, <1>3, Zenon
<1> HIDE DEF h, idx
<1>5. idx[0] = index
  BY <1>1, <1>4
<1>6. ASSUME NEW k \in 1..h
      PROVE  idx[k] = idx[k - 1] \div 2
  <2> k \in 0..h /\ k # 0
    BY <1>1
  <2> QED
    BY <1>4
<1> DEFINE T == {k \in Nat : k <= h => idx[k] \in Nat /\ idx[k] < Len(Crl!Layers(leaves)[k])}
<1>7. 0 \in T
  BY <1>5, CrlLayersSound
<1>8. ASSUME NEW k \in Nat, k < h, k \in T
      PROVE  k + 1 \in T
  <2>1. k + 1 \in 1..h /\ k + 1 \in 1..Len(leaves) /\ k \in 0..Len(leaves) /\ (k + 1) - 1 = k
    BY <1>1, <1>8
  <2>2. idx[k + 1] = idx[k] \div 2
    BY <1>6, <2>1
  <2>3. /\ Len(Crl!Layers(leaves)[k + 1]) = (Len(Crl!Layers(leaves)[k]) + 1) \div 2
        /\ Len(Crl!Layers(leaves)[k]) \in Nat
    <3>1. /\ Len(Crl!Layers(leaves)[k + 1]) = (Len(Crl!Layers(leaves)[k]) + 1) \div 2
          /\ IsLayer(Crl!Layers(leaves)[k])
      <4>1. /\ \A j \in 0..Len(leaves) : IsLayer(Crl!Layers(leaves)[j])
            /\ \A j \in 1..Len(leaves) :
                 Len(Crl!Layers(leaves)[j]) = (Len(Crl!Layers(leaves)[j - 1]) + 1) \div 2
        BY CrlLayersSound
      <4>2. Len(Crl!Layers(leaves)[k + 1]) = (Len(Crl!Layers(leaves)[(k + 1) - 1]) + 1) \div 2
        BY <2>1, <4>1
      <4> QED
        BY <2>1, <4>1, <4>2
    <3> QED
      BY <3>1 DEF IsLayer
  <2>4. idx[k] \in Nat /\ idx[k] < Len(Crl!Layers(leaves)[k])
    BY <1>1, <1>8
  <2>5. idx[k + 1] \in Nat /\ idx[k + 1] < Len(Crl!Layers(leaves)[k + 1])
    BY <2>2, <2>3, <2>4, HalfPlace
  <2> QED
    BY <2>5
<1>9. \A k \in 0..h : k \in T
  <2> HIDE DEF T
  <2> QED
    BY <1>1, <1>7, <1>8, IntervalInduction
<1>10. \A k \in 0..h : idx[k] \in Nat /\ idx[k] < Len(Crl!Layers(leaves)[k])
  BY <1>1, <1>9
<1> QED
  BY <1>5, <1>6, <1>10, Zenon DEF h, idx

\* One step of the fold.
OneUp(current, step) ==
  IF step.isLeft THEN Crl!HashChildren(current, step.hash)
                 ELSE Crl!HashChildren(step.hash, current)

CrlUpAlong(f, leaf, path, n) ==
  f = [k \in 0..n |-> IF k = 0 THEN <<leaf>> ELSE OneUp(f[k - 1], path[k])]

\* The fold ends where any function that goes up step by step ends.
LEMMA FoldPathEnds ==
  ASSUME NEW leaf, NEW path, NEW n \in Nat, Len(path) = n,
         NEW w, w[0] = <<leaf>>, \A k \in 1..n : w[k] = OneUp(w[k - 1], path[k])
  PROVE  Crl!FoldPath(leaf, path) = w[n]
<1> DEFINE g == [k \in 0..n |-> w[k]]
           up == CHOOSE f : CrlUpAlong(f, leaf, path, n)
<1>1. ASSUME NEW k \in 0..n
      PROVE  w[k] = IF k = 0 THEN <<leaf>> ELSE OneUp(g[k - 1], path[k])
  <2>1. CASE k = 0
    BY <2>1
  <2>2. CASE k # 0
    <3>1. k \in 1..n /\ k - 1 \in 0..n
      BY <2>2
    <3>2. g[k - 1] = w[k - 1]
      BY <3>1
    <3> HIDE DEF g
    <3> QED
      BY <2>2, <3>1, <3>2
  <2> QED
    BY <2>1, <2>2
<1>2. CrlUpAlong(g, leaf, path, n)
  <2>1. \A k \in 0..n : g[k] = IF k = 0 THEN <<leaf>> ELSE OneUp(g[k - 1], path[k])
    <3>1. \A k \in 0..n : g[k] = w[k]
      OBVIOUS
    <3> HIDE DEF g
    <3> QED
      BY <1>1, <3>1
  <2>2. g = [k \in 0..n |-> g[k]]
    OBVIOUS
  <2> HIDE DEF g
  <2> QED
    BY <2>1, <2>2 DEF CrlUpAlong
<1>3. CrlUpAlong(up, leaf, path, n)
  <2> HIDE DEF g
  <2> QED
    BY <1>2, Zenon
<1>4. Crl!FoldPath(leaf, path) = up[n]
  BY Zenon DEF Crl!FoldPath, CrlUpAlong, OneUp
<1> HIDE DEF up, g
<1> DEFINE T == {k \in Nat : k <= n => up[k] = w[k]}
<1>5. 0 \in T
  BY <1>3 DEF CrlUpAlong
<1>6. ASSUME NEW k \in Nat, k < n, k \in T
      PROVE  k + 1 \in T
  <2>1. k + 1 \in 0..n /\ k + 1 \in 1..n /\ k + 1 # 0 /\ (k + 1) - 1 = k /\ k <= n
    BY <1>6
  <2>2. up[k + 1] = OneUp(up[k], path[k + 1])
    BY <1>3, <2>1 DEF CrlUpAlong
  <2>3. w[k + 1] = OneUp(w[(k + 1) - 1], path[k + 1])
    BY <2>1
  <2> QED
    BY <1>6, <2>1, <2>2, <2>3
<1>7. \A k \in 0..n : k \in T
  <2> HIDE DEF T
  <2> QED
    BY <1>5, <1>6, IntervalInduction
<1> QED
  BY <1>4, <1>7

LEMMA SingleIsNoPair ==
  ASSUME NEW x, NEW a, NEW b
  PROVE  <<x>> # <<a, b>>
<1>1. Len(<<x>>) = 1 /\ Len(<<a, b>>) = 2
  OBVIOUS
<1> QED
  BY <1>1

\* w goes up from a leaf, step by step.
Ascends(w, leaf, path, n) ==
  w[0] = <<leaf>> /\ \A k \in 1..n : w[k] = OneUp(w[k - 1], path[k])

\* The path of a leaf leads from it to the root.
LEMMA CrlPathLeadsToRoot ==
  ASSUME NEW leaves, IsLayer(leaves), leaves # << >>,
         NEW index \in Nat, index < Len(leaves)
  PROVE  /\ Crl!FoldPath(leaves[index + 1], Crl!Path(leaves, index)) = Crl!Root(leaves)
         /\ \E n \in Nat : \E w : /\ Ascends(w, leaves[index + 1], Crl!Path(leaves, index), n)
                                  /\ w[n] = Crl!Root(leaves)
<1> DEFINE h == Crl!Height(leaves)
           idx == Crl!Indices(leaves, index)
           level == Crl!Layers(leaves)
           isLeft(k) == idx[k] % 2 = 0
           beside(k) == IF isLeft(k) THEN idx[k] + 1 ELSE idx[k] - 1
           stored(k) == IF beside(k) < Len(level[k]) THEN beside(k) ELSE Len(level[k]) - 1
           step(k) == [hash |-> level[k - 1][stored(k - 1) + 1], isLeft |-> isLeft(k - 1)]
           path == Crl!Path(leaves, index)
           w == [k \in 0..h |-> level[k][idx[k] + 1]]
<1>1. h \in Nat /\ h <= Len(leaves) /\ Len(leaves) \in Nat /\ Len(level[h]) = 1
  BY CrlHeightSound DEF IsLayer
<1>2. path = [k \in 1..h |-> step(k)]
  BY Zenon DEF Crl!Path
<1>3. Len(path) = h /\ \A k \in 1..h : path[k] = step(k)
  <2> HIDE DEF h, step, path
  <2> QED
    BY <1>1, <1>2
<1>4. /\ idx[0] = index
      /\ \A k \in 1..h : idx[k] = idx[k - 1] \div 2
      /\ \A k \in 0..h : idx[k] \in Nat /\ idx[k] < Len(level[k])
  BY CrlIndicesSound
<1>5. /\ level[0] = FirstLayer(leaves)
      /\ \A k \in 0..Len(leaves) : IsLayer(level[k]) /\ Len(level[k]) > 0
      /\ \A k \in 1..Len(leaves) : level[k] = Crl!NextLayer(level[k - 1])
  BY CrlLayersSound
<1>6. Crl!Root(leaves) = level[h][1]
  BY DEF Crl!Root
<1> HIDE DEF h, idx, level, path
<1>7. w[0] = <<leaves[index + 1]>>
  <2>1. index + 1 \in DOMAIN leaves
    <3> index + 1 \in 1..Len(leaves)
      BY <1>1
    <3> QED
      BY DEF IsLayer
  <2>2. w[0] = FirstLayer(leaves)[index + 1]
    BY <1>1, <1>4, <1>5
  <2> QED
    BY <2>1, <2>2 DEF FirstLayer
<1>8. ASSUME NEW k \in Nat, k < h
      PROVE  level[k + 1][idx[k + 1] + 1] = OneUp(level[k][idx[k] + 1], path[k + 1])
  <2>1. /\ k + 1 \in 1..h /\ k + 1 \in 0..h /\ k + 1 \in 1..Len(leaves) /\ k + 1 # 0
        /\ k \in 0..h /\ k \in 0..Len(leaves) /\ (k + 1) - 1 = k
    BY <1>1, <1>8
  <2> DEFINE p == idx[k]
             q == p \div 2
             s == level[k]
             m == Len(s)
  <2>2. p \in Nat /\ p < m /\ idx[k + 1] = q
    BY <1>4, <2>1
  <2>3. IsLayer(s) /\ level[k + 1] = Crl!NextLayer(s) /\ m \in Nat
    BY <1>5, <2>1 DEF IsLayer
  <2>4. path[k + 1] = [hash |-> s[stored(k) + 1], isLeft |-> isLeft(k)]
    BY <1>3, <2>1
  <2>5. OneUp(s[p + 1], path[k + 1]) =
          IF isLeft(k) THEN Crl!HashChildren(s[p + 1], s[stored(k) + 1])
                       ELSE Crl!HashChildren(s[stored(k) + 1], s[p + 1])
    <3> HIDE DEF stored, p, s, isLeft
    <3>1. path[k + 1].hash = s[stored(k) + 1] /\ path[k + 1].isLeft = isLeft(k)
      BY <2>4
    <3> QED
      BY <3>1, Zenon DEF OneUp
  <2>6. stored(k) = IF beside(k) < m THEN beside(k) ELSE m - 1
    BY Zenon
  <2> HIDE DEF stored
  <2>7. isLeft(k) <=> p % 2 = 0
    BY Zenon
  <2>8. beside(k) = IF isLeft(k) THEN p + 1 ELSE p - 1
    BY Zenon
  <2> HIDE DEF p, s, m, beside, isLeft
  <2>9. /\ q \in Nat /\ q + 1 \in 1..((m + 1) \div 2)
        /\ p % 2 = 0 => p = 2 * q
        /\ p % 2 # 0 => p = 2 * q + 1
    BY <2>2, <2>3, HalfPlace
  <2>10. Crl!NextLayer(s)[q + 1] = Crl!HashChildren(s[2 * (q + 1) - 1],
           IF 2 * (q + 1) <= m THEN s[2 * (q + 1)] ELSE s[2 * (q + 1) - 1])
    BY <2>3, <2>9, CrlNextLayerSound DEF m
  <2> HIDE DEF q
  <2>11. level[k + 1][idx[k + 1] + 1] = Crl!NextLayer(s)[q + 1]
    BY <2>2, <2>3
  <2>12. CASE p % 2 = 0
    <3>1. isLeft(k) /\ beside(k) = p + 1 /\ 2 * (q + 1) - 1 = p + 1 /\ 2 * (q + 1) = p + 2
      BY <2>2, <2>7, <2>8, <2>9, <2>12
    <3>2. stored(k) + 1 = IF p + 2 <= m THEN p + 2 ELSE p + 1
      BY <2>2, <2>3, <2>6, <3>1
    <3>3. Crl!NextLayer(s)[q + 1] =
            Crl!HashChildren(s[p + 1], IF p + 2 <= m THEN s[p + 2] ELSE s[p + 1])
      BY <2>10, <3>1
    <3>4. OneUp(s[p + 1], path[k + 1]) = Crl!HashChildren(s[p + 1], s[stored(k) + 1])
      BY <2>5, <3>1
    <3> QED
      BY <2>11, <3>2, <3>3, <3>4 DEF p, s
  <2>13. CASE p % 2 # 0
    <3>1. ~isLeft(k) /\ beside(k) = p - 1 /\ 2 * (q + 1) - 1 = p /\ 2 * (q + 1) = p + 1
      BY <2>2, <2>7, <2>8, <2>9, <2>13
    <3>2. stored(k) + 1 = p /\ p + 1 <= m
      BY <2>2, <2>3, <2>6, <3>1
    <3>3. Crl!NextLayer(s)[q + 1] = Crl!HashChildren(s[p], s[p + 1])
      BY <2>10, <3>1, <3>2
    <3>4. OneUp(s[p + 1], path[k + 1]) = Crl!HashChildren(s[stored(k) + 1], s[p + 1])
      BY <2>5, <3>1
    <3> QED
      BY <2>11, <3>2, <3>3, <3>4 DEF p, s
  <2> QED
    BY <2>12, <2>13
<1>9. ASSUME NEW k \in 1..h
      PROVE  w[k] = OneUp(w[k - 1], path[k])
  <2>1. k - 1 \in Nat /\ k - 1 < h /\ (k - 1) + 1 = k /\ k \in 0..h /\ k - 1 \in 0..h
    BY <1>1
  <2>2. w[k] = level[k][idx[k] + 1] /\ w[k - 1] = level[k - 1][idx[k - 1] + 1]
    BY <2>1
  <2>3. level[(k - 1) + 1][idx[(k - 1) + 1] + 1]
          = OneUp(level[k - 1][idx[k - 1] + 1], path[(k - 1) + 1])
    BY <1>8, <2>1, Zenon
  <2> HIDE DEF w
  <2> QED
    BY <2>1, <2>2, <2>3
<1>10. w[h] = level[h][1]
  <2>1. h \in 0..h
    BY <1>1
  <2>2. idx[h] = 0
    <3> idx[h] \in Nat /\ idx[h] < Len(level[h]) /\ Len(level[h]) = 1
      BY <1>1, <1>4, <2>1 DEF h, idx, level
    <3> QED
      OBVIOUS
  <2> QED
    BY <2>1, <2>2
<1>11. Crl!FoldPath(leaves[index + 1], path) = w[h]
  <2> HIDE DEF w
  <2> QED
    BY <1>1, <1>3, <1>7, <1>9, FoldPathEnds
<1>12. Ascends(w, leaves[index + 1], path, h) /\ w[h] = Crl!Root(leaves)
  <2> HIDE DEF w
  <2> QED
    BY <1>6, <1>7, <1>9, <1>10 DEF Ascends
<1>13. \E n \in Nat : \E v : /\ Ascends(v, leaves[index + 1], path, n)
                            /\ v[n] = Crl!Root(leaves)
  <2> HIDE DEF w
  <2> QED
    BY <1>1, <1>12, Zenon
<1> QED
  BY <1>6, <1>10, <1>11, <1>13, Zenon DEF path

\* A node above the leaves is a pair of nodes of the layer below it.
LEMMA CrlNodeIsPair ==
  ASSUME NEW leaves, IsLayer(leaves), leaves # << >>,
         NEW k \in 1..Len(leaves), NEW x \in 1..Len(Crl!Layers(leaves)[k])
  PROVE  \E a, b \in 1..Len(Crl!Layers(leaves)[k - 1]) :
           Crl!Layers(leaves)[k][x]
             = <<Crl!Layers(leaves)[k - 1][a], Crl!Layers(leaves)[k - 1][b]>>
<1> DEFINE level == Crl!Layers(leaves)
           s == level[k - 1]
           m == Len(s)
<1>1. /\ IsLayer(s) /\ m > 0
      /\ level[k] = Crl!NextLayer(s) /\ Len(level[k]) = (m + 1) \div 2
  <2>1. k - 1 \in 0..Len(leaves)
    BY DEF IsLayer
  <2>2. /\ \A j \in 0..Len(leaves) : IsLayer(level[j]) /\ Len(level[j]) > 0
        /\ \A j \in 1..Len(leaves) : level[j] = Crl!NextLayer(level[j - 1])
        /\ \A j \in 1..Len(leaves) : Len(level[j]) = (Len(level[j - 1]) + 1) \div 2
    BY CrlLayersSound
  <2> HIDE DEF level
  <2> QED
    BY <2>1, <2>2
<1>2. m \in Nat
  BY <1>1 DEF IsLayer
<1>3. x \in 1..((m + 1) \div 2)
  BY <1>1
<1>4. level[k][x] = Crl!HashChildren(s[2 * x - 1], IF 2 * x <= m THEN s[2 * x] ELSE s[2 * x - 1])
  BY <1>1, <1>3, CrlNextLayerSound
<1> HIDE DEF m, s, level
<1>5. 2 * x - 1 \in 1..m
  BY <1>2, <1>3
<1>6. 2 * x <= m => 2 * x \in 1..m
  BY <1>2, <1>3
<1>7. \E a, b \in 1..m : level[k][x] = <<s[a], s[b]>>
  <2>1. CASE 2 * x <= m
    BY <1>4, <1>5, <1>6, <2>1 DEF Crl!HashChildren
  <2>2. CASE ~(2 * x <= m)
    BY <1>4, <1>5, <2>2 DEF Crl!HashChildren
  <2> QED
    BY <2>1, <2>2
<1> QED
  BY <1>7 DEF m, s, level

\* What goes up to the root has started at a leaf: followed down from the root, every step
\* is a node of the layer it has reached, and a leaf's node is no pair.
LEMMA CrlRootOfLeaf ==
  ASSUME NEW leaves, IsLayer(leaves), leaves # << >>,
         NEW leaf, NEW path, NEW n \in Nat, NEW w, Ascends(w, leaf, path, n),
         w[n] = Crl!Root(leaves)
  PROVE  \E x \in 1..Len(leaves) : leaves[x] = leaf
<1> DEFINE h == Crl!Height(leaves)
           level == Crl!Layers(leaves)
           In(t, k) == \E x \in 1..Len(level[k]) : t = level[k][x]
           m == IF n <= h THEN n ELSE h
           T == {j \in Nat : j <= m => In(w[n - j], h - j)}
<1>1. h \in Nat /\ h <= Len(leaves) /\ Len(leaves) \in Nat /\ Len(level[h]) = 1
  BY CrlHeightSound DEF IsLayer
<1>2. w[n] = level[h][1]
  BY DEF Crl!Root
<1>3. level[0] = FirstLayer(leaves) /\ Len(level[0]) = Len(leaves)
  BY CrlLayersSound
<1>4. ASSUME NEW k \in 1..h, NEW t, In(t, k)
      PROVE  \E a, b : t = <<a, b>> /\ In(a, k - 1) /\ In(b, k - 1)
  <2>1. k \in 1..Len(leaves)
    BY <1>1
  <2>2. PICK x \in 1..Len(level[k]) : t = level[k][x]
    BY <1>4
  <2>3. \E a, b \in 1..Len(level[k - 1]) : level[k][x] = <<level[k - 1][a], level[k - 1][b]>>
    BY <2>1, CrlNodeIsPair
  <2> HIDE DEF level
  <2> QED
    BY <2>2, <2>3
<1>5. ASSUME NEW k \in 1..n
      PROVE  \E a, b : w[k] = <<a, b>> /\ (w[k - 1] = a \/ w[k - 1] = b)
  <2>1. w[k] = OneUp(w[k - 1], path[k])
    BY DEF Ascends
  <2> QED
    BY <2>1 DEF OneUp, Crl!HashChildren
<1> HIDE DEF h, level
<1>6. m \in Nat /\ m <= n /\ m <= h /\ (m = n \/ m = h)
  BY <1>1
<1> HIDE DEF m
<1>7. 0 \in T
  <2>1. In(w[n], h)
    BY <1>1, <1>2
  <2>2. n - 0 = n /\ h - 0 = h
    BY <1>1
  <2> HIDE DEF In
  <2> QED
    BY <2>1, <2>2
<1>8. ASSUME NEW j \in Nat, j < m, j \in T
      PROVE  j + 1 \in T
  <2>1. /\ n - j \in 1..n /\ h - j \in 1..h /\ j <= m
        /\ (n - j) - 1 = n - (j + 1) /\ (h - j) - 1 = h - (j + 1)
    BY <1>1, <1>6, <1>8
  <2>2. In(w[n - j], h - j)
    BY <1>8, <2>1
  <2> HIDE DEF In
  <2>3. PICK a, b : w[n - j] = <<a, b>> /\ In(a, (h - j) - 1) /\ In(b, (h - j) - 1)
    BY <1>4, <2>1, <2>2, Zenon
  <2>4. PICK c, d : w[n - j] = <<c, d>> /\ (w[(n - j) - 1] = c \/ w[(n - j) - 1] = d)
    BY <1>5, <2>1, Zenon
  <2>5. a = c /\ b = d
    BY <2>3, <2>4
  <2>6. In(w[(n - j) - 1], (h - j) - 1)
    BY <2>3, <2>4, <2>5, Zenon
  <2>7. In(w[n - (j + 1)], h - (j + 1))
    BY <2>1, <2>6
  <2> QED
    BY <2>7
<1>9. \A j \in 0..m : j \in T
  <2> HIDE DEF T
  <2> QED
    BY <1>6, <1>7, <1>8, IntervalInduction
<1>10. In(w[n - m], h - m)
  <2> HIDE DEF In
  <2> QED
    BY <1>6, <1>9
<1>11. ASSUME NEW t, In(t, 0)
       PROVE  \E x \in 1..Len(leaves) : t = <<leaves[x]>>
  <2>1. PICK x \in 1..Len(leaves) : t = FirstLayer(leaves)[x]
    BY <1>3, <1>11
  <2>2. x \in DOMAIN leaves
    BY <2>1 DEF IsLayer
  <2> QED
    BY <2>1, <2>2 DEF FirstLayer
<1> HIDE DEF In
<1>12. CASE n = m /\ h = m
  <2>1. In(w[0], 0)
    <3> n - m = 0 /\ h - m = 0
      BY <1>1, <1>6, <1>12
    <3> QED
      BY <1>10
  <2>2. PICK x \in 1..Len(leaves) : w[0] = <<leaves[x]>>
    BY <1>11, <2>1, Zenon
  <2>3. w[0] = <<leaf>>
    BY DEF Ascends
  <2>4. leaf = leaves[x]
    BY <2>2, <2>3
  <2> QED
    BY <2>4
<1>13. CASE n = m /\ h # m
  <2>1. h - m \in 1..h /\ n - m = 0
    BY <1>1, <1>6, <1>13
  <2>4. PICK a, b : w[n - m] = <<a, b>> /\ In(a, (h - m) - 1) /\ In(b, (h - m) - 1)
    BY <1>4, <1>10, <2>1, Zenon
  <2>2. w[0] = <<a, b>>
    BY <2>1, <2>4
  <2>3. w[0] = <<leaf>>
    BY DEF Ascends
  <2> QED
    BY <2>2, <2>3, SingleIsNoPair
<1>14. CASE n # m
  <2>1. n - m \in 1..n /\ h - m = 0
    BY <1>1, <1>6, <1>14
  <2>2. PICK x \in 1..Len(leaves) : w[n - m] = <<leaves[x]>>
    BY <1>10, <1>11, <2>1, Zenon
  <2>3. PICK a, b : w[n - m] = <<a, b>>
    BY <1>5, <2>1, Zenon
  <2> QED
    BY <2>2, <2>3, SingleIsNoPair
<1> QED
  BY <1>12, <1>13, <1>14

\* So two trees with one root have the same leaves.
LEMMA SameRootSameLeaves ==
  ASSUME NEW a, IsLayer(a), a # << >>, NEW b, IsLayer(b), b # << >>,
         Crl!Root(a) = Crl!Root(b), NEW x \in 1..Len(a)
  PROVE  \E y \in 1..Len(b) : b[y] = a[x]
<1>1. x - 1 \in Nat /\ x - 1 < Len(a) /\ (x - 1) + 1 = x
  BY DEF IsLayer
<1>2. PICK n \in Nat : \E w : /\ Ascends(w, a[(x - 1) + 1], Crl!Path(a, x - 1), n)
                             /\ w[n] = Crl!Root(a)
  BY <1>1, CrlPathLeadsToRoot, Zenon
<1>4. PICK w : Ascends(w, a[(x - 1) + 1], Crl!Path(a, x - 1), n) /\ w[n] = Crl!Root(a)
  BY <1>2
<1>3. Ascends(w, a[x], Crl!Path(a, x - 1), n) /\ w[n] = Crl!Root(b)
  BY <1>1, <1>4
<1> QED
  BY <1>3, CrlRootOfLeaf

-----------------------------------------------------------------------------
(* CrlTree: proofs that a serial is not revoked. *)

RevokedList(list) == Range(list) \subseteq Crl!SerialHashes

\* The library means the same inside the instance.
LEMMA SameCardinality == \A S : Crl!Cardinality(S) = Cardinality(S)
  BY Zenon DEF Crl!Cardinality, Cardinality

LEMMA SameHashes ==
  ASSUME NEW list
  PROVE  Crl!Hashes(list) = {0, Top + 1} \cup Range(list)
  BY DEF Crl!Hashes, Crl!MinSentinel, Crl!MaxSentinel, Crl!Range, Range

\* The leaves are the sentinels and the revoked hashes, in strictly ascending order.
LEMMA CrlLeavesSound ==
  ASSUME NEW list, RevokedList(list)
  PROVE  LET leaves == Crl!Leaves(list)
         IN  /\ IsLayer(leaves) /\ Len(leaves) \in Nat
             /\ leaves \in [1..Len(leaves) -> Crl!Hashes(list)]
             /\ \A k, l \in 1..Len(leaves) : k < l => leaves[k] < leaves[l]
             /\ \A h \in Crl!Hashes(list) : \E k \in 1..Len(leaves) : leaves[k] = h
             /\ Crl!Hashes(list) \subseteq Nat
<1> DEFINE S == Crl!Hashes(list)
           leaves == Crl!Leaves(list)
<1>1. Top \in Nat
  BY GroundworkAssumption DEF Crl!CrlTreeAssumption
<1>2. S \subseteq 0..(Top + 1)
  BY <1>1, SameHashes DEF Crl!SerialHashes, RevokedList
<1>3. S \subseteq Nat /\ IsFiniteSet(S)
  <2>1. IsFiniteSet(0..(Top + 1)) /\ 0..(Top + 1) \subseteq Nat
    BY <1>1, FS_Interval
  <2> HIDE DEF S
  <2> QED
    BY <1>2, <2>1, FS_Subset
<1>4. leaves = Sorted(S)
  BY Zenon DEF Crl!Leaves, Sorted, Rank, Crl!Cardinality, Cardinality
<1> HIDE DEF S, leaves
<1>5. /\ Cardinality(S) \in Nat
      /\ leaves \in [1..Cardinality(S) -> S]
      /\ \A k, l \in 1..Cardinality(S) : k < l => leaves[k] < leaves[l]
      /\ \A h \in S : \E k \in 1..Cardinality(S) : leaves[k] = h
  BY <1>3, <1>4, SortedSound
<1>6. Len(leaves) = Cardinality(S)
  BY <1>5
<1>7. IsLayer(leaves)
  BY <1>5, <1>6 DEF IsLayer
<1> QED
  BY <1>3, <1>5, <1>6, <1>7 DEF S, leaves

\* For a serial that is not revoked the host finds its two neighbours, and the circuit
\* accepts the proof.
LEMMA HostProofWorks ==
  ASSUME NEW list, RevokedList(list),
         NEW s \in Crl!SerialHashes, s \notin Range(list)
  PROVE  Crl!CircuitAccepts(s, Crl!ProveNonInclusion(Crl!Leaves(list), s),
                            Crl!Root(Crl!Leaves(list)))
<1> DEFINE S == Crl!Hashes(list)
           leaves == Crl!Leaves(list)
           n == Len(leaves)
<1>1. /\ IsLayer(leaves) /\ n \in Nat
      /\ leaves \in [1..n -> S]
      /\ \A k, l \in 1..n : k < l => leaves[k] < leaves[l]
      /\ \A h \in S : \E k \in 1..n : leaves[k] = h
      /\ S \subseteq Nat
  BY CrlLeavesSound
<1>2. /\ Top \in Nat /\ s \in Nat /\ 0 < s /\ s < Top + 1
      /\ 0 \in S /\ Top + 1 \in S /\ s \notin S
  <2>1. Top \in Nat
    BY GroundworkAssumption DEF Crl!CrlTreeAssumption
  <2> QED
    BY <2>1, SameHashes DEF Crl!SerialHashes
<1> HIDE DEF S, leaves, n
<1> DEFINE U == {k \in 1..n : s < leaves[k]}
<1>3. PICK j \in U : \A k \in U : j <= k
  <2>1. U # {}
    BY <1>1, <1>2
  <2>2. U \subseteq Nat
    BY <1>1
  <2> HIDE DEF U
  <2> QED
    BY <2>1, <2>2, LeastNumber
<1>4. j \in 1..n /\ j \in Nat /\ s < leaves[j]
  BY <1>1
<1>5. ASSUME NEW k \in 1..n
      PROVE  leaves[k] < s <=> k < j
  <2>1. leaves[k] \in Nat /\ leaves[j] \in Nat /\ leaves[k] # s /\ k \in Nat
    <3>1. leaves[k] \in S /\ leaves[j] \in S /\ k \in Nat
      BY <1>1, <1>4
    <3> QED
      BY <1>1, <1>2, <3>1
  <2>2. k < j => ~(s < leaves[k])
    <3>1. s < leaves[k] => k \in U
      OBVIOUS
    <3> HIDE DEF U
    <3>2. s < leaves[k] => j <= k
      BY <1>3, <3>1
    <3> QED
      BY <1>4, <2>1, <3>2
  <2>3. j < k => leaves[j] < leaves[k]
    BY <1>1, <1>4
  <2>4. k = j => leaves[k] = leaves[j]
    OBVIOUS
  <2> HIDE DEF U
  <2> QED
    BY <1>2, <1>4, <2>1, <2>2, <2>3, <2>4
<1> HIDE DEF U
<1>6. 1 < j
  <2>1. PICK k \in 1..n : leaves[k] = 0
    BY <1>1, <1>2
  <2>2. k < j
    BY <1>2, <1>5, <2>1
  <2> QED
    BY <1>1, <1>4, <2>2
<1> DEFINE pos == Cardinality({k \in DOMAIN leaves : leaves[k] < s})
<1>7. pos = j - 1
  <2>1. DOMAIN leaves = 1..n
    BY <1>1
  <2>2. {k \in 1..n : leaves[k] < s} = 1..(j - 1)
    <3>1. \A k \in 1..n : leaves[k] < s <=> k \in 1..(j - 1)
      BY <1>1, <1>4, <1>5
    <3>2. 1..(j - 1) \subseteq 1..n
      BY <1>1, <1>4
    <3> QED
      BY <3>1, <3>2
  <2>3. Cardinality(1..(j - 1)) = j - 1
    BY <1>4, <1>6, FS_Interval
  <2> QED
    BY <2>1, <2>2, <2>3
<1>16. Crl!Cardinality({k \in DOMAIN leaves : leaves[k] < s}) = pos
  BY SameCardinality
<1> DEFINE p == Crl!ProveNonInclusion(leaves, s)
<1>8. /\ p.left = Crl!LeafAt(leaves, pos - 1) /\ p.leftPath = Crl!Path(leaves, pos - 1)
      /\ p.right = Crl!LeafAt(leaves, pos) /\ p.rightPath = Crl!Path(leaves, pos)
      /\ p.leftIndex = pos - 1 /\ p.rightIndex = pos
  <2> HIDE DEF pos
  <2> QED
    BY <1>16 DEF Crl!ProveNonInclusion
<1> HIDE DEF p, pos
<1>9. /\ pos \in Nat /\ pos - 1 \in Nat /\ pos < n /\ pos - 1 < n
      /\ (pos - 1) + 1 = pos /\ pos + 1 = j /\ pos = (pos - 1) + 1
  BY <1>1, <1>4, <1>6, <1>7
<1>10. Crl!LeafAt(leaves, pos - 1) = leaves[pos] /\ Crl!LeafAt(leaves, pos) = leaves[pos + 1]
  <2>1. Crl!LeafAt(leaves, pos - 1) = leaves[(pos - 1) + 1]
    BY <1>9 DEF Crl!LeafAt, n
  <2>2. Crl!LeafAt(leaves, pos) = leaves[pos + 1]
    BY <1>9 DEF Crl!LeafAt, n
  <2> QED
    BY <1>9, <2>1, <2>2
<1>11. leaves[pos] < s /\ s < leaves[pos + 1]
  BY <1>1, <1>4, <1>5, <1>6, <1>7, <1>9
<1>12. leaves # << >>
  BY <1>1, <1>9 DEF n
<1>13. /\ Crl!FoldPath(leaves[(pos - 1) + 1], Crl!Path(leaves, pos - 1)) = Crl!Root(leaves)
       /\ Crl!FoldPath(leaves[pos + 1], Crl!Path(leaves, pos)) = Crl!Root(leaves)
  BY <1>1, <1>9, <1>12, CrlPathLeadsToRoot DEF n
<1>14. /\ Crl!FoldPath(p.left, p.leftPath) = Crl!Root(leaves)
       /\ Crl!FoldPath(p.right, p.rightPath) = Crl!Root(leaves)
  BY <1>8, <1>9, <1>10, <1>13
<1>15. Crl!CircuitAccepts(s, p, Crl!Root(leaves))
  BY <1>8, <1>9, <1>10, <1>11, <1>14, Zenon DEF Crl!CircuitAccepts
<1> QED
  BY <1>15 DEF p, leaves

\* The root stands for the set of revoked serials.
LEMMA RootIsTheSet ==
  ASSUME NEW a, RevokedList(a), NEW b, RevokedList(b)
  PROVE  Crl!Root(Crl!Leaves(a)) = Crl!Root(Crl!Leaves(b)) <=> Range(a) = Range(b)
<1>1. ASSUME Range(a) = Range(b)
      PROVE  Crl!Leaves(a) = Crl!Leaves(b)
  <2>1. Crl!Hashes(a) = Crl!Hashes(b)
    BY <1>1, SameHashes
  <2>2. Crl!Leaves(a) = Sorted(Crl!Hashes(a)) /\ Crl!Leaves(b) = Sorted(Crl!Hashes(b))
    BY Zenon DEF Crl!Leaves, Sorted, Rank, Crl!Cardinality, Cardinality
  <2> QED
    BY <2>1, <2>2, Zenon
<1>2. ASSUME NEW list, RevokedList(list)
      PROVE  /\ IsLayer(Crl!Leaves(list)) /\ Crl!Leaves(list) # << >>
             /\ \A x \in 1..Len(Crl!Leaves(list)) : Crl!Leaves(list)[x] \in Crl!Hashes(list)
             /\ \A h \in Crl!Hashes(list) :
                  \E x \in 1..Len(Crl!Leaves(list)) : Crl!Leaves(list)[x] = h
  <2> DEFINE leaves == Crl!Leaves(list)
  <2>1. /\ IsLayer(leaves) /\ Len(leaves) \in Nat
        /\ leaves \in [1..Len(leaves) -> Crl!Hashes(list)]
        /\ \A h \in Crl!Hashes(list) : \E k \in 1..Len(leaves) : leaves[k] = h
    BY <1>2, CrlLeavesSound
  <2>2. 0 \in Crl!Hashes(list)
    BY SameHashes
  <2> HIDE DEF leaves
  <2>3. leaves # << >>
    BY <2>1, <2>2
  <2> QED
    BY <2>1, <2>3 DEF leaves
<1>3. ASSUME NEW c, RevokedList(c), NEW d, RevokedList(d),
             Crl!Root(Crl!Leaves(c)) = Crl!Root(Crl!Leaves(d))
      PROVE  Crl!Hashes(c) \subseteq Crl!Hashes(d)
  <2> SUFFICES ASSUME NEW h \in Crl!Hashes(c)
               PROVE  h \in Crl!Hashes(d)
    OBVIOUS
  <2>1. PICK x \in 1..Len(Crl!Leaves(c)) : Crl!Leaves(c)[x] = h
    BY <1>2, <1>3, Zenon
  <2>2. PICK y \in 1..Len(Crl!Leaves(d)) : Crl!Leaves(d)[y] = Crl!Leaves(c)[x]
    <3>1. /\ IsLayer(Crl!Leaves(c)) /\ Crl!Leaves(c) # << >>
          /\ IsLayer(Crl!Leaves(d)) /\ Crl!Leaves(d) # << >>
      BY <1>2, <1>3, Zenon
    <3>2. Crl!Root(Crl!Leaves(c)) = Crl!Root(Crl!Leaves(d))
      BY <1>3
    <3> HIDE DEF RevokedList
    <3> QED
      BY <3>1, <3>2, SameRootSameLeaves
  <2> QED
    BY <1>2, <1>3, <2>1, <2>2, Zenon
<1>4. ASSUME Crl!Hashes(a) = Crl!Hashes(b)
      PROVE  Range(a) = Range(b)
  <2>1. Top \in Nat
    BY GroundworkAssumption DEF Crl!CrlTreeAssumption
  <2>2. 0 \notin Crl!SerialHashes /\ Top + 1 \notin Crl!SerialHashes
    BY <2>1 DEF Crl!SerialHashes
  <2> QED
    BY <1>4, <2>2, SameHashes DEF RevokedList
<1>5. Crl!Root(Crl!Leaves(a)) = Crl!Root(Crl!Leaves(b)) => Crl!Hashes(a) = Crl!Hashes(b)
  <2> SUFFICES ASSUME Crl!Root(Crl!Leaves(a)) = Crl!Root(Crl!Leaves(b))
               PROVE  Crl!Hashes(a) = Crl!Hashes(b)
    OBVIOUS
  <2>1. Crl!Hashes(a) \subseteq Crl!Hashes(b)
    BY <1>3, Zenon
  <2>2. Crl!Hashes(b) \subseteq Crl!Hashes(a)
    BY <1>3, Zenon
  <2> QED
    BY <2>1, <2>2
<1> QED
  BY <1>1, <1>4, <1>5, Zenon

-----------------------------------------------------------------------------
(***************************************************************************)
(* What the host and the circuit have done so far: a refusal is of a       *)
(* revoked serial, the proof is the one of the serial's gap, and both      *)
(* lists hold serials.                                                     *)
(***************************************************************************)
CrlInv ==
  /\ RevokedList(serials)
  /\ published # << >> => RevokedList(published[1])
  /\ serial \in Crl!SerialHashes
  /\ verdict = "refused" => serial \in Range(serials)
  /\ verdict # "rejected"
  /\ verdict = "accepted" => serial \notin Range(serials)
  /\ proof # Crl!NoProof =>
       /\ serial \notin Range(serials)
       /\ proof = Crl!ProveNonInclusion(Crl!Leaves(serials), serial)

\* A serial is no sentinel, so it is a leaf exactly when it is revoked.
LEMMA LeavesAreRevoked ==
  ASSUME NEW list, RevokedList(list), NEW s \in Crl!SerialHashes
  PROVE  s \in Crl!Range(Crl!Leaves(list)) <=> s \in Range(list)
<1> DEFINE leaves == Crl!Leaves(list)
           S == Crl!Hashes(list)
<1>1. /\ leaves \in [1..Len(leaves) -> S]
      /\ \A h \in S : \E k \in 1..Len(leaves) : leaves[k] = h
  BY CrlLeavesSound
<1>2. s \in S <=> s \in Range(list)
  BY SameHashes, GroundworkAssumption DEF Crl!CrlTreeAssumption, Crl!SerialHashes
<1> HIDE DEF leaves, S
<1>3. s \in Crl!Range(leaves) <=> s \in S
  BY <1>1 DEF Crl!Range
<1> QED
  BY <1>2, <1>3 DEF leaves

LEMMA BoundedListRevoked ==
  ASSUME NEW list \in Crl!BoundedSeq(Crl!SerialHashes, MaxRevoked)
  PROVE  RevokedList(list)
  BY DEF Crl!BoundedSeq, Crl!SeqOf, RevokedList, Range

LEMMA CrlInvInit == GroundInit => CrlInv
<1> SUFFICES ASSUME GroundInit
             PROVE  CrlInv
  OBVIOUS
<1>1. /\ serials \in Crl!BoundedSeq(Crl!SerialHashes, MaxRevoked) /\ published = << >>
      /\ serial \in Crl!SerialHashes /\ proof = Crl!NoProof /\ verdict = "open"
  BY DEF GroundInit, Crl!Init
<1>2. RevokedList(serials)
  BY <1>1, BoundedListRevoked
<1> QED
  BY <1>1, <1>2 DEF CrlInv

LEMMA CrlInvStep ==
  CrlInv /\ [CaTreeStep \/ CrlTreeStep \/ FactoryStep]_groundVars => CrlInv'
<1> SUFFICES ASSUME CrlInv, [CaTreeStep \/ CrlTreeStep \/ FactoryStep]_groundVars
             PROVE  CrlInv'
  OBVIOUS
<1>1. ASSUME UNCHANGED crlVars
      PROVE  CrlInv'
  BY <1>1 DEF CrlInv, RevokedList, crlVars
<1>2. CASE CaTreeStep \/ FactoryStep \/ UNCHANGED groundVars
  <2>1. UNCHANGED crlVars
    BY <1>2 DEF CaTreeStep, FactoryStep, groundVars
  <2> QED
    BY <1>1, <2>1
<1>3. CASE Crl!HostProves
  <2>1. /\ published' = published /\ serials' = serials /\ serial' = serial
        /\ verdict' = verdict /\ verdict = "open"
        /\ proof' = Crl!ProveNonInclusion(Crl!Leaves(serials), serial)
    BY <1>3 DEF Crl!HostProves
  <2>2. serial \notin Range(serials)
    BY <1>3, LeavesAreRevoked DEF Crl!HostProves, CrlInv
  <2> QED
    BY <2>1, <2>2 DEF CrlInv, RevokedList
<1>4. CASE Crl!HostRefuses
  <2>1. serial \in Range(serials)
    BY <1>4, LeavesAreRevoked DEF Crl!HostRefuses, CrlInv
  <2> QED
    BY <1>4, <2>1 DEF Crl!HostRefuses, CrlInv, RevokedList
<1>5. CASE Crl!CircuitChecks
  <2>1. /\ published' = published /\ serials' = serials /\ serial' = serial
        /\ proof' = proof /\ proof # Crl!NoProof
        /\ verdict' \in {"accepted", "rejected"}
        /\ verdict' = "accepted" <=>
             Crl!CircuitAccepts(serial, proof, Crl!Root(Crl!Leaves(serials)))
    BY <1>5 DEF Crl!CircuitChecks
  <2>2. /\ serial \notin Range(serials)
        /\ proof = Crl!ProveNonInclusion(Crl!Leaves(serials), serial)
    BY <2>1 DEF CrlInv
  <2>3. Crl!CircuitAccepts(serial, proof, Crl!Root(Crl!Leaves(serials)))
    BY <2>2, HostProofWorks DEF CrlInv
  <2> QED
    BY <2>1, <2>2, <2>3 DEF CrlInv, RevokedList
<1>6. CASE Crl!UpdateCrlMerkleRoot
  <2>1. /\ serials' = serials /\ serial' = serial /\ proof' = proof /\ verdict' = verdict
        /\ \E list \in Crl!BoundedSeq(Crl!SerialHashes, MaxRevoked) :
             published' \in {<<list>>, << >>}
    BY <1>6 DEF Crl!UpdateCrlMerkleRoot
  <2>2. published' # << >> => RevokedList(published'[1])
    BY <2>1, BoundedListRevoked
  <2> QED
    BY <2>1, <2>2 DEF CrlInv, RevokedList
<1>7. CASE Crl!RegistryChecks
  <2>1. /\ published' = published /\ serials' = serials /\ serial' = serial
        /\ proof' = proof /\ verdict' \in {"taken", "outdated"}
    BY <1>7 DEF Crl!RegistryChecks
  <2> QED
    BY <2>1 DEF CrlInv, RevokedList
<1> QED
  BY <1>2, <1>3, <1>4, <1>5, <1>6, <1>7 DEF CrlTreeStep, Crl!Next

THEOREM CrlInvariance == GroundSpec => []CrlInv
  BY CrlInvInit, CrlInvStep, PTL DEF GroundSpec

\* CrlTree: whoever holds a certificate that is not revoked gets a proof from the host,
\* whatever the list of revoked serials, and the circuit accepts it.
THEOREM HostProofAcceptedHolds == GroundSpec => []HostProofAccepted
<1>1. CrlInv => HostProofAccepted
  BY DEF CrlInv, HostProofAccepted, Crl!HostProofAccepted, Range, Crl!Range
<1> QED
  BY <1>1, CrlInvariance, PTL

\* CrlTree: a host's proof is taken only for a serial that the registry's list does not
\* revoke, and it is not turned down if the two lists agree, for lists of any length and in
\* any order: the root of the padded tree determines the set of its leaves.
THEOREM TakenIsUnrevokedHolds == GroundSpec => TakenIsUnrevoked
<1>1. ASSUME CrlInv, [CaTreeStep \/ CrlTreeStep \/ FactoryStep]_groundVars
      PROVE  Crl!TakesUnrevoked
  <2> SUFFICES ASSUME verdict = "accepted", verdict' # verdict, published # << >>
               PROVE  /\ verdict' = "taken" => serial \notin Range(published[1])
                      /\ verdict' = "outdated" => Range(published[1]) # Range(serials)
    BY DEF Crl!TakesUnrevoked, Crl!Range, Range
  <2>1. Crl!RegistryChecks
    <3>1. CrlTreeStep
      BY <1>1 DEF CaTreeStep, FactoryStep, groundVars, crlVars
    <3> QED
      BY <3>1 DEF CrlTreeStep, Crl!Next, Crl!HostProves, Crl!HostRefuses, Crl!CircuitChecks,
                  Crl!UpdateCrlMerkleRoot
  <2>2. verdict' = IF Crl!Root(Crl!Leaves(serials)) = Crl!Root(Crl!Leaves(published[1]))
                     THEN "taken" ELSE "outdated"
    BY <2>1 DEF Crl!RegistryChecks, Crl!CrlRootMatches
  <2>3. Crl!Root(Crl!Leaves(serials)) = Crl!Root(Crl!Leaves(published[1]))
          <=> Range(serials) = Range(published[1])
    BY <1>1, RootIsTheSet DEF CrlInv
  <2>4. serial \notin Range(serials)
    BY <1>1 DEF CrlInv
  <2> QED
    BY <2>2, <2>3, <2>4
<1>2. CrlInv /\ [CaTreeStep \/ CrlTreeStep \/ FactoryStep]_groundVars
        => [Crl!TakesUnrevoked]_crlVars
  BY <1>1
<1> QED
  BY <1>2, CrlInvariance, PTL DEF GroundSpec, TakenIsUnrevoked
=============================================================================
