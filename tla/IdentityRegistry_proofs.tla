---------------------- MODULE IdentityRegistry_proofs -----------------------
(***************************************************************************)
(* Proofs about the grace window, for every set of CAs, every length of list*)
(* and batch and every grace period; and about the whole registry, for every*)
(* number of wallets, keys and certificates and every policy; both for an  *)
(* unbounded clock.                                                        *)
(***************************************************************************)
EXTENDS IdentityRegistry, FiniteSetTheorems, SequenceTheorems, Inductions

-----------------------------------------------------------------------------
(***************************************************************************)
(* The trust in the CAs.  The theorems about the window do not look at how a*)
(* list becomes a root: it is enough that every operation on the list ends in*)
(* one Rotate.                                                             *)
(***************************************************************************)

trustVars == <<now, caVars>>

ClockOK == /\ now \in Nat
           /\ caMerkleRootUpdatedAt \in Nat
           /\ caRootGracePeriod \in Nat

\* The previous root was displaced when the current one was stored.
PreviousRecorded ==
  previousCaMerkleRoot # ZeroHash =>
    [root |-> previousCaMerkleRoot, at |-> caMerkleRootUpdatedAt] \in displaced

TrustInv == ClockOK /\ PreviousRecorded

\* Every owner operation either rotates, and then leaves the period alone, or
\* leaves every root alone and sets the period to a legal one.
LEMMA AdminStepRotates ==
  ASSUME CaAdminStep
  PROVE  /\ now' = now
         /\ \/ /\ \E r : Rotate(r)
               /\ caRootGracePeriod' = caRootGracePeriod
            \/ /\ UNCHANGED <<caMerkleRoot, previousCaMerkleRoot,
                              caMerkleRootUpdatedAt, displaced>>
               /\ caRootGracePeriod' \in GracePeriods
<1>1. ASSUME NEW r, UpdateCaMerkleRoot(r)
      PROVE  Rotate(r) /\ now' = now /\ caRootGracePeriod' = caRootGracePeriod
  BY <1>1 DEF UpdateCaMerkleRoot
<1>2. ASSUME NEW hs, AddCAs(hs)
      PROVE  /\ Rotate(MerkleRoot(caLeaves'))
             /\ now' = now /\ caRootGracePeriod' = caRootGracePeriod
  BY <1>2 DEF AddCAs
<1>3. ASSUME NEW is, RemoveCAs(is)
      PROVE  /\ Rotate(MerkleRoot(caLeaves'))
             /\ now' = now /\ caRootGracePeriod' = caRootGracePeriod
  BY <1>3 DEF RemoveCAs
<1>4. ASSUME NEW p \in GracePeriods, SetCaRootGracePeriod(p)
      PROVE  /\ now' = now
             /\ caRootGracePeriod' \in GracePeriods
             /\ UNCHANGED <<caMerkleRoot, previousCaMerkleRoot,
                            caMerkleRootUpdatedAt, displaced>>
  BY <1>4 DEF SetCaRootGracePeriod
<1> QED
  BY <1>1, <1>2, <1>3, <1>4 DEF CaAdminStep, AddCA, RemoveCA

LEMMA TrustInit == CaInit => TrustInv
  BY DEF CaInit, TrustInv, ClockOK, PreviousRecorded

\* The step of the CA part, shared with the registry that contains it.
LEMMA TrustStep ==
  ASSUME TrustInv, CaAdminStep \/ Tick \/ UNCHANGED trustVars
  PROVE  TrustInv'
<1>1. CASE CaAdminStep
  <2>1. ClockOK'
    BY <1>1, AdminStepRotates, TimeAssumption DEF TrustInv, ClockOK, Rotate
  <2>2. PreviousRecorded'
    BY <1>1, AdminStepRotates DEF TrustInv, PreviousRecorded, Rotate
  <2> QED
    BY <2>1, <2>2 DEF TrustInv
<1>2. CASE Tick
  BY <1>2 DEF Tick, caVars, TrustInv, ClockOK, PreviousRecorded
<1>3. CASE UNCHANGED trustVars
  BY <1>3 DEF trustVars, caVars, TrustInv, ClockOK, PreviousRecorded
<1> QED
  BY <1>1, <1>2, <1>3

LEMMA TrustInvImplies == TrustInv => TrustWindow
  BY DEF TrustInv, PreviousRecorded, TrustWindow, RootAccepted, InGrace

THEOREM TrustInvariance == CaSpec => []TrustInv
<1>1. TrustInv /\ [CaNext]_trustVars => TrustInv'
  BY TrustStep DEF CaNext
<1> QED
  BY TrustInit, <1>1, PTL DEF CaSpec, trustVars

\* A root that is accepted and not current was displaced no longer ago than
\* the grace period (_validateProof against _rotateCaMerkleRoot and
\* setCaRootGracePeriod), for every value of the constants.
THEOREM TrustWindowHolds == CaSpec => []TrustWindow
  BY TrustInvariance, TrustInvImplies, PTL

\* After any rotation the old root is the previous one and its window opens.
LEMMA RotateKeepsRoot ==
  ASSUME ClockOK, NEW r, Rotate(r), now' = now,
         caRootGracePeriod' = caRootGracePeriod,
         NEW s \in {caMerkleRoot} \ {ZeroHash}
  PROVE  RootAccepted(s)'
  BY DEF ClockOK, Rotate, RootAccepted, InGrace

\* No owner operation, batch or not, and no passing of time makes the root
\* that was current unacceptable (_rotateCaMerkleRoot, _validateProof).
THEOREM InFlightRootSurvivesHolds == CaSpec => InFlightRootSurvives
<1>1. ASSUME TrustInv, [CaNext]_trustVars, NEW r \in {caMerkleRoot} \ {ZeroHash}
      PROVE  RootAccepted(r)'
  <2>1. CASE CaAdminStep
    BY <1>1, <2>1, AdminStepRotates, RotateKeepsRoot DEF TrustInv, RootAccepted
  <2>2. CASE Tick
    BY <1>1, <2>2 DEF Tick, caVars, RootAccepted
  <2>3. CASE UNCHANGED trustVars
    BY <1>1, <2>3 DEF trustVars, caVars, RootAccepted
  <2> QED
    BY <1>1, <2>1, <2>2, <2>3 DEF CaNext
<1>2. TrustInv /\ [CaNext]_trustVars =>
        [\A r \in {caMerkleRoot} \ {ZeroHash} : RootAccepted(r)']_trustVars
  BY <1>1
<1> QED
  BY TrustInvariance, <1>2, PTL DEF CaSpec, trustVars, InFlightRootSurvives

\* Whatever operation changes the list leaves the root of the new list
\* (addCA, addCAs, removeCA and removeCAs all end in _recomputeCaMerkleRoot).
THEOREM RootFollowsListHolds == CaSpec => RootFollowsList
<1>1. ASSUME NEW r, Rotate(r)
      PROVE  caMerkleRoot' = r
  BY <1>1 DEF Rotate
<1>2. ASSUME CaNext, caLeaves' # caLeaves
      PROVE  caMerkleRoot' = MerkleRoot(caLeaves')
  <2>1. ASSUME NEW hs, AddCAs(hs)
        PROVE  caMerkleRoot' = MerkleRoot(caLeaves')
    BY <1>1, <2>1 DEF AddCAs
  <2>2. ASSUME NEW is, RemoveCAs(is)
        PROVE  caMerkleRoot' = MerkleRoot(caLeaves')
    BY <1>1, <2>2 DEF RemoveCAs
  <2>3. ASSUME Tick \/ (\E r \in ManualRoots : UpdateCaMerkleRoot(r))
                    \/ (\E p \in GracePeriods : SetCaRootGracePeriod(p))
        PROVE  caLeaves' = caLeaves
    BY <2>3 DEF Tick, caVars, UpdateCaMerkleRoot, SetCaRootGracePeriod
  <2> QED
    BY <1>2, <2>1, <2>2, <2>3 DEF CaNext, CaAdminStep, AddCA, RemoveCA
<1> QED
  BY <1>2, PTL DEF CaSpec, RootFollowsList

-----------------------------------------------------------------------------
(* The list of CAs and the mapping beside it. *)

\* A list of n different CAs and exactly the hashes that are on it.
Matched(list, n) ==
  /\ list.leaves \in Seq(Cas)
  /\ Len(list.leaves) = n
  /\ IsInjective(list.leaves)
  /\ list.exists = Range(list.leaves)

\* f[k] is the list after k rounds of the loop of removeCAs.
Removals(list, indices, n, f) ==
  f = [k \in 0..n |-> IF k = 0 THEN list ELSE RemoveOne(f[k - 1], indices[k])]

\* A function that is defined by what the loop does in each round exists.
LEMMA RemovalsExist ==
  ASSUME NEW list, NEW indices, NEW n \in Nat
  PROVE  \E f : Removals(list, indices, n, f)
<1> USE DEF Removals
<1> DEFINE Loop(m, f) == Removals(list, indices, m, f)
           T == {m \in Nat : \E f : Loop(m, f)}
<1>1. 0 \in T
  <2> DEFINE f == [k \in 0..0 |-> list]
  <2>1. Loop(0, f)
    OBVIOUS
  <2> QED
    BY <2>1
<1>2. ASSUME NEW m \in Nat, m \in T
      PROVE  m + 1 \in T
  <2>1. PICK f : Loop(m, f)
    BY <1>2
  <2> DEFINE g == [k \in 0..(m + 1) |->
                     IF k = 0 THEN list ELSE RemoveOne(f[k - 1], indices[k])]
  <2>2. DOMAIN f = 0..m /\ \A k \in 0..m : f[k] = IF k = 0 THEN list
                                                  ELSE RemoveOne(f[k - 1], indices[k])
    BY <2>1, Zenon
  <2>3. \A k \in 0..m : g[k] = f[k]
    BY <2>2
  <2>4. \A k \in 0..(m + 1) : g[k] = IF k = 0 THEN list
                                      ELSE RemoveOne(g[k - 1], indices[k])
    <3> SUFFICES ASSUME NEW k \in 0..(m + 1)
                 PROVE  g[k] = IF k = 0 THEN list ELSE RemoveOne(g[k - 1], indices[k])
      OBVIOUS
    <3>1. k # 0 => k - 1 \in 0..m
      OBVIOUS
    <3>2. k # 0 => g[k - 1] = f[k - 1]
      BY <2>3, <3>1
    <3> QED
      BY <3>2, Zenon
  <2>5. Loop(m + 1, g)
    <3>1. g = [k \in 0..(m + 1) |-> g[k]]
      OBVIOUS
    <3> HIDE DEF g
    <3> QED
      BY <2>4, <3>1
  <2> QED
    <3> HIDE DEF g, Loop, Removals
    <3> QED
      BY <2>5
<1>3. Nat \subseteq T
  <2> HIDE DEF T
  <2> QED
    BY <1>1, <1>2, SetInduction
<1> HIDE DEF Removals
<1> QED
  BY <1>3

\* Swap-and-pop takes one CA off the list and the same one off the mapping.
LEMMA RemoveOneMatched ==
  ASSUME NEW list, NEW n \in Nat, Matched(list, n), NEW index \in Nat, index < n
  PROVE  /\ Matched(RemoveOne(list, index), n - 1)
         /\ RemoveOne(list, index).exists = list.exists \ {list.leaves[index + 1]}
         /\ \A a \in 1..index : RemoveOne(list, index).leaves[a] = list.leaves[a]
<1> DEFINE l == list.leaves
           m == [l EXCEPT ![index + 1] = l[n]]
           r == SubSeq(m, 1, n - 1)
<1>1. /\ l \in Seq(Cas) /\ Len(l) = n /\ list.exists = Range(l)
      /\ \A a, b \in 1..n : l[a] = l[b] => a = b
      /\ \A a \in 1..n : l[a] \in Cas
      /\ index + 1 \in 1..n /\ n \in 1..n
  BY DEF Matched, IsInjective
<1> HIDE DEF l
<1>2. /\ m \in Seq(Cas) /\ Len(m) = n
      /\ \A a \in 1..n : m[a] = IF a = index + 1 THEN l[n] ELSE l[a]
      /\ \A a \in 1..n : m[a] \in Cas
  BY <1>1
<1>3. /\ r \in Seq(Cas) /\ Len(r) = n - 1
      /\ \A a \in 1..(n - 1) : r[a] = m[a]
  <2> HIDE DEF m
  <2>1. n - 1 \in Int /\ 1 \in Int /\ \A a \in 1..(n - 1) : a \in 1..n
    BY <1>1
  <2>2. /\ r \in Seq(Cas) /\ Len(r) = IF 1 <= n - 1 THEN n - 1 - 1 + 1 ELSE 0
        /\ \A a \in 1..(n - 1 - 1 + 1) : r[a] = m[1 + a - 1]
    BY <1>2, <2>1, SubSeqProperties
  <2>3. \A a \in 1..(n - 1) : a \in 1..(n - 1 - 1 + 1) /\ 1 + a - 1 = a
    BY <1>1
  <2>4. (IF 1 <= n - 1 THEN n - 1 - 1 + 1 ELSE 0) = n - 1
    BY <1>1
  <2> HIDE DEF r
  <2>5. Len(r) = n - 1
    BY <1>1, <2>2
  <2>6. ASSUME NEW a \in 1..(n - 1)
        PROVE  r[a] = m[a]
    BY <2>2, <2>3, Zenon
  <2> QED
    BY <2>2, <2>5, <2>6
<1>4. \A a \in 1..(n - 1) : r[a] = IF a = index + 1 THEN l[n] ELSE l[a]
  <2> SUFFICES ASSUME NEW a \in 1..(n - 1)
               PROVE  r[a] = IF a = index + 1 THEN l[n] ELSE l[a]
    OBVIOUS
  <2> a \in 1..n
    OBVIOUS
  <2> HIDE DEF m, r
  <2> QED
    BY <1>2, <1>3
<1> HIDE DEF m, r
<1>5. IsInjective(r)
  <2>1. DOMAIN r = 1..(n - 1)
    BY <1>3
  <2>2. ASSUME NEW a \in 1..(n - 1), NEW b \in 1..(n - 1), r[a] = r[b]
        PROVE  a = b
    <3>1. a \in 1..n /\ b \in 1..n /\ a # n /\ b # n
      OBVIOUS
    <3> QED
      BY <1>1, <1>4, <2>2, <3>1
  <2> QED
    BY <2>1, <2>2 DEF IsInjective
<1>6. Range(l) \ {l[index + 1]} = Range(r)
  <2>1. DOMAIN r = 1..(n - 1) /\ DOMAIN l = 1..n
    BY <1>1, <1>3
  <2>2. ASSUME NEW a \in 1..n, l[a] # l[index + 1]
        PROVE  \E b \in 1..(n - 1) : r[b] = l[a]
    <3>1. CASE a = n
      <4>1. index + 1 \in 1..(n - 1)
        BY <1>1, <2>2, <3>1
      <4> QED
        BY <1>4, <3>1, <4>1
    <3>2. CASE a # n
      <4>1. a \in 1..(n - 1) /\ a # index + 1
        BY <2>2, <3>2
      <4> QED
        BY <1>4, <4>1
    <3> QED
      BY <3>1, <3>2
  <2>3. ASSUME NEW b \in 1..(n - 1)
        PROVE  /\ \E a \in 1..n : l[a] = r[b]
               /\ r[b] # l[index + 1]
    <3>1. b \in 1..n /\ b # n
      OBVIOUS
    <3> QED
      BY <1>1, <1>4, <3>1
  <2>4. Range(l) = {l[a] : a \in 1..n} /\ Range(r) = {r[b] : b \in 1..(n - 1)}
    BY <2>1 DEF Range
  <2>5. ASSUME NEW x \in Range(l) \ {l[index + 1]}
        PROVE  x \in Range(r)
    <3> PICK a \in 1..n : x = l[a]
      BY <2>4
    <3> QED
      BY <2>2, <2>4, <2>5
  <2>6. ASSUME NEW x \in Range(r)
        PROVE  x \in Range(l) \ {l[index + 1]}
    <3> PICK b \in 1..(n - 1) : x = r[b]
      BY <2>4
    <3> QED
      BY <2>3, <2>4
  <2> QED
    BY <2>5, <2>6
<1>7. /\ RemoveOne(list, index).leaves = r
      /\ RemoveOne(list, index).exists = list.exists \ {l[index + 1]}
  BY <1>1 DEF RemoveOne, SwapAndPop, l, m, r
<1>8. Matched(RemoveOne(list, index), n - 1)
  BY <1>1, <1>3, <1>5, <1>6, <1>7 DEF Matched
<1>9. \A a \in 1..index : r[a] = l[a]
  <2> SUFFICES ASSUME NEW a \in 1..index
               PROVE  r[a] = l[a]
    OBVIOUS
  <2>1. a \in 1..(n - 1) /\ a # index + 1
    BY <1>1
  <2> QED
    BY <1>4, <2>1
<1> QED
  BY <1>7, <1>8, <1>9 DEF l

\* The loop of removeCAs, any number of rounds: each index is checked against
\* the length that the rounds before it have left and is below the one before,
\* so that it still has the CA that it named.
LEMMA RemoveAllMatched ==
  ASSUME NEW list, NEW n \in Nat, Matched(list, n), NEW indices \in Seq(Nat),
         \A k \in 1..Len(indices) : indices[k] <= n - k,
         \A k \in 2..Len(indices) : indices[k] < indices[k - 1]
  PROVE  /\ \E m \in Nat : Matched(RemoveAll(list, indices), m)
         /\ RemoveAll(list, indices).exists =
              list.exists \ {list.leaves[indices[k] + 1] : k \in 1..Len(indices)}
<1> DEFINE d == Len(indices)
           gone(k) == {list.leaves[indices[j] + 1] : j \in 1..k}
<1>1. d \in Nat
  OBVIOUS
<1>2. \E f : f = [k \in 0..d |->
                   IF k = 0 THEN list ELSE RemoveOne(f[k - 1], indices[k])]
  <2> HIDE DEF d
  <2> PICK g : Removals(list, indices, d, g)
    BY <1>1, RemovalsExist
  <2> g = [k \in 0..d |-> IF k = 0 THEN list ELSE RemoveOne(g[k - 1], indices[k])]
    BY DEF Removals
  <2> QED
    BY Zenon
<1> DEFINE f == CHOOSE f : f = [k \in 0..d |->
                  IF k = 0 THEN list ELSE RemoveOne(f[k - 1], indices[k])]
           InPlace(k) ==
             k < d => \A a \in 1..(indices[k + 1] + 1) : f[k].leaves[a] = list.leaves[a]
           T == {k \in Nat : /\ n - k \in Nat /\ Matched(f[k], n - k)
                             /\ f[k].exists = list.exists \ gone(k) /\ InPlace(k)}
<1>3. RemoveAll(list, indices) = f[d]
  BY DEF RemoveAll
<1>4. f = [k \in 0..d |-> IF k = 0 THEN list ELSE RemoveOne(f[k - 1], indices[k])]
  <2> HIDE DEF d
  <2> QED
    BY <1>2, Zenon
<1> HIDE DEF f
<1>9. f[0] = list /\ \A k \in 1..d : f[k] = RemoveOne(f[k - 1], indices[k])
  <2> HIDE DEF d
  <2>1. \A k \in 0..d : f[k] = IF k = 0 THEN list ELSE RemoveOne(f[k - 1], indices[k])
    BY <1>4, Zenon
  <2>2. 0 \in 0..d /\ \A k \in 1..d : k \in 0..d /\ k # 0
    BY <1>1
  <2> QED
    BY <2>1, <2>2, Zenon
<1>5. 0 \in T
  <2>1. n - 0 = n /\ 0 \in Nat
    OBVIOUS
  <2>2. InPlace(0)
    <3> HIDE DEF d
    <3> QED
      BY <1>9, Zenon
  <2>3. gone(0) = {}
    OBVIOUS
  <2> HIDE DEF InPlace, gone
  <2>4. f[0].exists = list.exists \ gone(0)
    BY <1>9, <2>3
  <2> QED
    BY <1>9, <2>1, <2>2, <2>4, Zenon
<1>6. ASSUME NEW k \in Nat, k < d, k \in T
      PROVE  k + 1 \in T
  <2>1. /\ k + 1 \in 1..d /\ (k + 1) - 1 = k /\ n - k \in Nat /\ Matched(f[k], n - k)
        /\ f[k].exists = list.exists \ gone(k)
        /\ \A a \in 1..(indices[k + 1] + 1) : f[k].leaves[a] = list.leaves[a]
    <3> HIDE DEF gone, d
    <3> QED
      BY <1>1, <1>6
  <2>2. indices[k + 1] \in Nat /\ indices[k + 1] <= n - (k + 1)
    BY <2>1
  <2>3. indices[k + 1] < n - k /\ (n - k) - 1 = n - (k + 1) /\ n - (k + 1) \in Nat
    BY <2>1, <2>2
  <2> DEFINE i == indices[k + 1]
             g == RemoveOne(f[k], i)
  <2>4. /\ Matched(g, (n - k) - 1)
        /\ g.exists = f[k].exists \ {f[k].leaves[i + 1]}
        /\ \A a \in 1..i : g.leaves[a] = f[k].leaves[a]
    <3>1. n - k \in Nat /\ Matched(f[k], n - k) /\ i \in Nat /\ i < n - k
      BY <2>1, <2>2, <2>3
    <3> HIDE DEF gone, i, InPlace, T, d
    <3> QED
      BY <3>1, RemoveOneMatched
  <2>5. f[k + 1] = g
    BY <1>9, <2>1, Zenon
  <2>6. k + 1 \in Nat
    OBVIOUS
  <2>7. gone(k + 1) = gone(k) \cup {list.leaves[i + 1]}
    <3>1. \A j \in 1..(k + 1) : j \in 1..k \/ j = k + 1
      OBVIOUS
    <3>2. \A j \in 1..k : j \in 1..(k + 1)
      OBVIOUS
    <3>3. k + 1 \in 1..(k + 1)
      OBVIOUS
    <3> QED
      BY <3>1, <3>2, <3>3
  <2>8. g.exists = list.exists \ gone(k + 1)
    <3>1. i + 1 \in 1..(i + 1)
      BY <2>2
    <3>2. f[k].leaves[i + 1] = list.leaves[i + 1]
      BY <2>1, <3>1, Zenon
    <3> HIDE DEF gone, g
    <3> QED
      BY <2>1, <2>4, <2>7, <3>2
  <2>9. InPlace(k + 1)
    <3> SUFFICES ASSUME k + 1 < d, NEW a \in 1..(indices[(k + 1) + 1] + 1)
                 PROVE  f[k + 1].leaves[a] = list.leaves[a]
      OBVIOUS
    <3> DEFINE j == (k + 1) + 1
    <3>1. j \in 2..d /\ j - 1 = k + 1 /\ j \in 1..d
      BY <1>1
    <3>2. indices[j] \in Nat /\ indices[j] < i
      BY <3>1
    <3> HIDE DEF j
    <3>3. a \in 1..(indices[j] + 1)
      BY DEF j
    <3> DEFINE x == indices[j]
    <3> HIDE DEF i, x
    <3>4. a \in 1..i /\ a \in 1..(i + 1)
      BY <2>2, <3>2, <3>3 DEF i, x
    <3> HIDE DEF g, gone
    <3> QED
      BY <2>1, <2>4, <2>5, <3>4, Zenon DEF i
  <2> HIDE DEF g, gone, InPlace
  <2>10. n - (k + 1) \in Nat /\ Matched(f[k + 1], n - (k + 1))
    BY <2>3, <2>4, <2>5, Zenon
  <2> QED
    BY <2>5, <2>6, <2>8, <2>9, <2>10, Zenon
<1>7. \A k \in 0..d : k \in T
  <2> HIDE DEF T, d
  <2> QED
    BY <1>1, <1>5, <1>6, IntervalInduction
<1>8. d \in 0..d
  BY <1>1
<1>10. d \in T
  <2> HIDE DEF T, d
  <2> QED
    BY <1>7, <1>8, Zenon
<1>11. \E m \in Nat : Matched(f[d], m)
  <2> HIDE DEF gone, InPlace, d
  <2> QED
    BY <1>10
<1>12. f[d].exists = list.exists \ gone(d)
  <2> HIDE DEF gone, InPlace, d
  <2> QED
    BY <1>10
<1> QED
  BY <1>3, <1>11, <1>12, Zenon

\* The list and the mapping of the contract, beside each other.
ListInv == \E n \in Nat : Matched([leaves |-> caLeaves, exists |-> caExists], n)

LEMMA ListInvMeans ==
  ListInv <=> /\ caLeaves \in Seq(Cas)
              /\ IsInjective(caLeaves)
              /\ caExists = Range(caLeaves)
  BY DEF ListInv, Matched

\* A batch of different hashes, none of them listed, keeps the list without
\* repetitions.
LEMMA AddedMatched ==
  ASSUME caLeaves \in Seq(Cas), IsInjective(caLeaves), caExists = Range(caLeaves),
         NEW hs \in Seq(Cas), IsInjective(hs), Range(hs) \cap caExists = {}
  PROVE  /\ caLeaves \o hs \in Seq(Cas)
         /\ IsInjective(caLeaves \o hs)
         /\ caExists \cup Range(hs) = Range(caLeaves \o hs)
<1> DEFINE l == caLeaves
           n == Len(l)
           m == Len(hs)
           t == l \o hs
<1>1. /\ n \in Nat /\ m \in Nat /\ t \in Seq(Cas) /\ Len(t) = n + m
      /\ \A a \in 1..(n + m) : t[a] = IF a <= n THEN l[a] ELSE hs[a - n]
      /\ DOMAIN l = 1..n /\ DOMAIN hs = 1..m /\ DOMAIN t = 1..(n + m)
  OBVIOUS
<1>2. /\ \A a, b \in 1..n : l[a] = l[b] => a = b
      /\ \A a, b \in 1..m : hs[a] = hs[b] => a = b
      /\ Range(l) = {l[a] : a \in 1..n} /\ Range(hs) = {hs[a] : a \in 1..m}
      /\ Range(t) = {t[a] : a \in 1..(n + m)}
  BY <1>1 DEF IsInjective, Range
<1>3. ASSUME NEW a \in 1..n, NEW b \in 1..m
      PROVE  l[a] # hs[b]
  <2> l[a] \in Range(l) /\ hs[b] \in Range(hs)
    BY <1>2
  <2> QED
    OBVIOUS
<1> HIDE DEF t, l, n, m
<1>4. ASSUME NEW a \in 1..(n + m), NEW b \in 1..(n + m), t[a] = t[b]
      PROVE  a = b
  <2>1. /\ a <= n => a \in 1..n /\ t[a] = l[a]
        /\ b <= n => b \in 1..n /\ t[b] = l[b]
        /\ ~(a <= n) => a - n \in 1..m /\ t[a] = hs[a - n]
        /\ ~(b <= n) => b - n \in 1..m /\ t[b] = hs[b - n]
    BY <1>1
  <2>2. CASE a <= n /\ b <= n
    BY <1>2, <1>4, <2>1, <2>2, Zenon
  <2>3. CASE ~(a <= n) /\ ~(b <= n)
    <3>1. a - n = b - n
      BY <1>2, <1>4, <2>1, <2>3, Zenon
    <3> QED
      BY <1>1, <3>1
  <2>4. CASE a <= n /\ ~(b <= n)
    BY <1>3, <1>4, <2>1, <2>4, Zenon
  <2>5. CASE ~(a <= n) /\ b <= n
    BY <1>3, <1>4, <2>1, <2>5, Zenon
  <2> QED
    BY <2>2, <2>3, <2>4, <2>5
<1>5. IsInjective(t)
  BY <1>1, <1>4 DEF IsInjective
<1>6. Range(l) \cup Range(hs) = Range(t)
  <2>1. ASSUME NEW a \in 1..n
        PROVE  a \in 1..(n + m) /\ t[a] = l[a]
    BY <1>1
  <2>2. ASSUME NEW a \in 1..m
        PROVE  n + a \in 1..(n + m) /\ t[n + a] = hs[a]
    <3>1. n + a \in 1..(n + m) /\ ~(n + a <= n) /\ (n + a) - n = a
      BY <1>1
    <3> QED
      BY <1>1, <3>1
  <2>3. ASSUME NEW a \in 1..(n + m)
        PROVE  t[a] \in Range(l) \cup Range(hs)
    <3>1. CASE a <= n
      <4> a \in 1..n
        BY <1>1, <3>1
      <4> QED
        BY <1>1, <1>2, <3>1
    <3>2. CASE ~(a <= n)
      <4> a - n \in 1..m
        BY <1>1, <3>2
      <4> QED
        BY <1>1, <1>2, <3>2
    <3> QED
      BY <3>1, <3>2
  <2>4. ASSUME NEW x \in Range(l) \cup Range(hs)
        PROVE  x \in Range(t)
    <3>1. CASE x \in Range(l)
      <4> PICK a \in 1..n : x = l[a]
        BY <1>2, <3>1
      <4> QED
        BY <1>2, <2>1
    <3>2. CASE x \in Range(hs)
      <4> PICK a \in 1..m : x = hs[a]
        BY <1>2, <3>2
      <4> QED
        BY <1>2, <2>2
    <3> QED
      BY <3>1, <3>2
  <2>5. ASSUME NEW x \in Range(t)
        PROVE  x \in Range(l) \cup Range(hs)
    <3> PICK a \in 1..(n + m) : x = t[a]
      BY <1>2
    <3> QED
      BY <2>3
  <2> QED
    BY <2>4, <2>5
<1> QED
  BY <1>1, <1>5, <1>6 DEF t, l

\* Bounded sequences are sequences.
LEMMA Batches ==
  ASSUME NEW S, NEW b, NEW s \in BoundedSeq(S, b)
  PROVE  s \in Seq(S)
<1> PICK n \in 0..b : s \in [1..n -> S]
  BY DEF BoundedSeq, SeqOf
<1>1. n \in Nat
  OBVIOUS
<1> QED
  BY <1>1

LEMMA AddKeepsList ==
  ASSUME ListInv, NEW hs \in Seq(Cas), AddCAs(hs)
  PROVE  ListInv'
<1>1. /\ caLeaves' = caLeaves \o hs /\ caExists' = caExists \cup Range(hs)
      /\ IsInjective(hs) /\ Range(hs) \cap caExists = {}
  BY DEF AddCAs
<1>2. /\ caLeaves' \in Seq(Cas) /\ IsInjective(caLeaves') /\ caExists' = Range(caLeaves')
  BY <1>1, ListInvMeans, AddedMatched
<1> QED
  BY <1>2 DEF ListInv, Matched

LEMMA RemoveKeepsList ==
  ASSUME ListInv, NEW indices \in Seq(Nat), RemoveCAs(indices)
  PROVE  /\ ListInv'
         /\ caExists' = caExists \ {caLeaves[indices[k] + 1] : k \in 1..Len(indices)}
<1> DEFINE old == [leaves |-> caLeaves, exists |-> caExists]
           new == RemoveAll(old, indices)
<1>1. PICK n \in Nat : Matched(old, n)
  BY DEF ListInv
<1>2. /\ caLeaves' = new.leaves /\ caExists' = new.exists
      /\ \A k \in 1..Len(indices) : indices[k] <= Len(caLeaves) - k
      /\ \A k \in 2..Len(indices) : indices[k] < indices[k - 1]
  BY DEF RemoveCAs
<1>3. Len(caLeaves) = n
  BY <1>1 DEF Matched
<1>4. /\ \E m \in Nat : Matched(new, m)
      /\ new.exists = old.exists \ {old.leaves[indices[k] + 1] : k \in 1..Len(indices)}
  <2> HIDE DEF old
  <2> QED
    BY <1>1, <1>2, <1>3, RemoveAllMatched
<1> HIDE DEF new
<1>5. PICK m \in Nat : Matched(new, m)
  BY <1>4
<1>6. Matched([leaves |-> caLeaves', exists |-> caExists'], m)
  BY <1>2, <1>5 DEF Matched
<1> QED
  BY <1>2, <1>4, <1>6 DEF ListInv

LEMMA ListStep ==
  ASSUME ListInv, CaAdminStep \/ Tick \/ UNCHANGED trustVars
  PROVE  ListInv'
<1>1. ASSUME UNCHANGED <<caLeaves, caExists>>
      PROVE  ListInv'
  BY <1>1 DEF ListInv
<1>2. ASSUME NEW ca \in Cas, AddCA(ca)
      PROVE  ListInv'
  <2> <<ca>> \in Seq(Cas)
    OBVIOUS
  <2> QED
    BY <1>2, AddKeepsList DEF AddCA
<1>3. ASSUME NEW hs \in BoundedSeq(Cas, MaxBatch), AddCAs(hs)
      PROVE  ListInv'
  BY <1>3, AddKeepsList, Batches
<1>4. \A ix \in CaIndices : ix \in Nat
  BY DEF CaIndices
<1>5. ASSUME NEW ix \in CaIndices, RemoveCA(ix)
      PROVE  ListInv'
  <2> <<ix>> \in Seq(Nat)
    BY <1>4
  <2> QED
    BY <1>5, RemoveKeepsList DEF RemoveCA
<1>6. ASSUME NEW is \in BoundedSeq(CaIndices, MaxBatch), RemoveCAs(is)
      PROVE  ListInv'
  <2>1. is \in Seq(CaIndices)
    BY Batches
  <2>2. is \in Seq(Nat)
    BY <1>4, <2>1
  <2> QED
    BY <1>6, <2>2, RemoveKeepsList
<1>7. ASSUME NEW r, UpdateCaMerkleRoot(r)
      PROVE  ListInv'
  BY <1>1, <1>7 DEF UpdateCaMerkleRoot
<1>8. ASSUME NEW p, SetCaRootGracePeriod(p)
      PROVE  ListInv'
  BY <1>1, <1>8 DEF SetCaRootGracePeriod
<1>9. CASE Tick \/ UNCHANGED trustVars
  BY <1>1, <1>9 DEF Tick, trustVars, caVars
<1> QED
  BY <1>2, <1>3, <1>5, <1>6, <1>7, <1>8, <1>9 DEF CaAdminStep

LEMMA ListInit == CaInit => ListInv
<1> SUFFICES ASSUME CaInit
             PROVE  ListInv
  OBVIOUS
<1>1. caLeaves = << >> /\ caExists = {}
  BY DEF CaInit
<1>2. /\ caLeaves \in Seq(Cas) /\ DOMAIN caLeaves = {}
  BY <1>1
<1> QED
  BY <1>1, <1>2, ListInvMeans DEF IsInjective, Range

\* addCA, addCAs, removeCA, removeCAs: after any mix of batches and
\* swap-and-pop removals no CA is listed twice and the mapping says exactly
\* which ones are, for every set of CAs, length of list and size of batch.
THEOREM CaListConsistentHolds == CaSpec => []CaListConsistent
<1>1. ListInv /\ [CaNext]_trustVars => ListInv'
  BY ListStep DEF CaNext
<1>2. ListInv => CaListConsistent
  BY ListInvMeans DEF CaListConsistent
<1> QED
  BY ListInit, <1>1, <1>2, PTL DEF CaSpec, trustVars

\* removeCAs: the CAs that leave the list are those that the indices named before the
\* first removal, for every length of list and batch: swap-and-pop moves a CA only to a
\* place that no later index names.
THEOREM RemovesTheNamedHolds == CaSpec => RemovesTheNamed
<1> DEFINE Batch ==
             \A is \in BoundedSeq(CaIndices, MaxBatch) :
               RemoveCAs(is) =>
                 Range(caLeaves') = Range(caLeaves) \ {caLeaves[i + 1] : i \in Range(is)}
<1>1. ListInv /\ [CaNext]_trustVars => ListInv'
  BY ListStep DEF CaNext
<1>2. ListInv => Batch
  <2> SUFFICES ASSUME ListInv, NEW is \in BoundedSeq(CaIndices, MaxBatch), RemoveCAs(is)
               PROVE  Range(caLeaves') =
                        Range(caLeaves) \ {caLeaves[i + 1] : i \in Range(is)}
    OBVIOUS
  <2>1. is \in Seq(CaIndices)
    BY Batches
  <2>2. is \in Seq(Nat)
    <3> \A ix \in CaIndices : ix \in Nat
      BY DEF CaIndices
    <3> QED
      BY <2>1
  <2>3. ListInv' /\ caExists' = caExists \ {caLeaves[is[k] + 1] : k \in 1..Len(is)}
    BY <2>2, RemoveKeepsList
  <2>4. caExists = Range(caLeaves) /\ caExists' = Range(caLeaves')
    BY <2>3, ListInvMeans DEF ListInv, Matched
  <2>5. {caLeaves[is[k] + 1] : k \in 1..Len(is)} = {caLeaves[i + 1] : i \in Range(is)}
    <3>1. DOMAIN is = 1..Len(is)
      BY <2>2
    <3> QED
      BY <3>1 DEF Range
  <2> QED
    BY <2>3, <2>4, <2>5
<1>3. ListInv /\ [CaNext]_trustVars => [Batch]_trustVars
  BY <1>2
<1> QED
  BY ListInit, <1>1, <1>3, PTL DEF CaSpec, trustVars, RemovesTheNamed

-----------------------------------------------------------------------------
(***************************************************************************)
(* The registry.                                                           *)
(***************************************************************************)

-----------------------------------------------------------------------------
(* What a proof can carry. *)

\* The nullifier of any provable public values is a slot of their domain and
\* wallet index; the expiry is a time (program/src/main.rs, steps 6 and 10).
LEMMA ProvableSlot ==
  ASSUME NEW pv \in ProvableValues
  PROVE  /\ pv.nullifier \in Slots
         /\ pv.nullifier[2] = pv.domain
         /\ pv.nullifier[3] = pv.walletIndex
         /\ pv.walletIndex \in Nat
         /\ pv.notAfter \in Nat
<1>1. PICK c \in Certs, x \in HostInputs : pv = Commit(c, x)
  BY DEF ProvableValues
<1>2. /\ c.key \in Keys /\ c.notAfter \in Nat
      /\ x.domain \in Domains /\ x.walletIndex \in WalletIndices
  BY CertificateAssumption DEF HostInputs
<1>3. /\ pv.nullifier = <<c.key, x.domain, x.walletIndex>>
      /\ pv.domain = x.domain
      /\ pv.walletIndex = x.walletIndex
      /\ pv.notAfter = c.notAfter
  BY <1>1 DEF Commit, Nullifier
<1>4. <<c.key, x.domain, x.walletIndex>> \in Slots
  BY <1>2 DEF Slots
<1>5. x.walletIndex \in Nat
  BY <1>2, InputAssumption
<1> QED
  BY <1>2, <1>3, <1>4, <1>5

\* Behind any provable public values is a certificate that meets every
\* assertion of the circuit for the inputs they disclose.
LEMMA ProvableCertificate ==
  ASSUME NEW pv \in ProvableValues
  PROVE  \E c \in Certs :
           /\ c.key = pv.nullifier[1]
           /\ c.notAfter = pv.notAfter
           /\ pv.proofTimestamp \in ProofTimes
           /\ CertValidAt(c, pv.proofTimestamp)
           /\ CrlCheck(c, pv.crlMerkleRoot)
           /\ PathExists(c.issuer, pv.caMerkleRoot)
           /\ MeetsConstraints(c, pv.required)
<1>1. PICK c \in Certs, x \in HostInputs : pv = Commit(c, x) /\ Satisfied(c, x)
  BY DEF ProvableValues
<1>2. /\ pv.nullifier[1] = c.key
      /\ pv.notAfter = c.notAfter
      /\ pv.proofTimestamp = x.timestamp
      /\ pv.crlMerkleRoot = x.crlMerkleRoot
      /\ pv.caMerkleRoot = x.caMerkleRoot
      /\ pv.required = x.required
  BY <1>1 DEF Commit, Nullifier
<1>3. x.timestamp \in ProofTimes
  BY DEF HostInputs
<1> QED
  BY <1>1, <1>2, <1>3 DEF Satisfied

-----------------------------------------------------------------------------
(* The steps, grouped by what they touch. *)

\* The steps that touch neither the ledger nor the history: every policy,
\* ownership and CA operation, and the clock.
LedgerUntouched == UNCHANGED ledgerVars

LEMMA StepCases ==
  ASSUME Next
  PROVE  \/ \E sender \in Addresses, pv \in ProvableValues : Register(sender, pv)
         \/ \E sender \in Addresses, pv \in ProvableValues : ReRegister(sender, pv)
         \/ \E sender \in Addresses, n \in Slots : RevokeIdentity(sender, n)
         \/ LedgerUntouched /\ (now' = now \/ Tick)
<1>1. ASSUME NEW sender \in Addresses, AcceptOwnership(sender)
      PROVE  LedgerUntouched /\ now' = now
  BY <1>1 DEF AcceptOwnership, LedgerUntouched
<1>2. ASSUME NEW v \in Programs, FactoryPublishesVKey(v)
      PROVE  LedgerUntouched /\ now' = now
  BY <1>2 DEF FactoryPublishesVKey, LedgerUntouched
<1>3. ASSUME ClockTick
      PROVE  LedgerUntouched /\ Tick
  BY <1>3 DEF ClockTick, LedgerUntouched, ledgerVars
<1>4. ASSUME NEW sender \in Addresses, OwnerStep(sender)
      PROVE  \/ \E n \in Slots : RevokeIdentity(sender, n)
             \/ LedgerUntouched /\ now' = now
  <2>1. ASSUME UpdateCas(sender)
        PROVE  LedgerUntouched /\ now' = now
    BY <2>1, AdminStepRotates DEF UpdateCas, LedgerUntouched, ledgerVars
  <2>2. ASSUME NEW r, UpdateCrlMerkleRoot(sender, r)
        PROVE  LedgerUntouched /\ now' = now
    BY <2>2 DEF UpdateCrlMerkleRoot, LedgerUntouched
  <2>3. ASSUME NEW values, SetRequiredFieldConstraints(sender, values)
        PROVE  LedgerUntouched /\ now' = now
    BY <2>3 DEF SetRequiredFieldConstraints, LedgerUntouched
  <2>4. ASSUME NEW v, UpdateProgramVKey(sender, v)
        PROVE  LedgerUntouched /\ now' = now
    BY <2>4 DEF UpdateProgramVKey, LedgerUntouched
  <2>5. ASSUME NEW needed, NEW url, SetDelegatedProving(sender, needed, url)
        PROVE  LedgerUntouched /\ now' = now
    BY <2>5 DEF SetDelegatedProving, LedgerUntouched
  <2>6. ASSUME Pause(sender) \/ Unpause(sender)
        PROVE  LedgerUntouched /\ now' = now
    BY <2>6 DEF Pause, Unpause, SetPaused, LedgerUntouched
  <2>7. ASSUME NEW a, TransferOwnership(sender, a)
        PROVE  LedgerUntouched /\ now' = now
    BY <2>7 DEF TransferOwnership, LedgerUntouched
  <2> QED
    BY <1>4, <2>1, <2>2, <2>3, <2>4, <2>5, <2>6, <2>7 DEF OwnerStep
<1> QED
  BY <1>1, <1>2, <1>3, <1>4 DEF Next, WalletStep

\* Any step is a step of the CA part or leaves it alone.
LEMMA TrustCases ==
  ASSUME [Next]_vars
  PROVE  CaAdminStep \/ Tick \/ UNCHANGED trustVars
<1>1. ASSUME NEW sender \in Addresses, NEW pv \in ProvableValues,
             Register(sender, pv) \/ ReRegister(sender, pv)
      PROVE  UNCHANGED trustVars
  BY <1>1 DEF Register, ReRegister, trustVars
<1>2. ASSUME NEW sender \in Addresses, OwnerStep(sender)
      PROVE  CaAdminStep \/ UNCHANGED trustVars
  BY <1>2 DEF OwnerStep, RevokeIdentity, UpdateCas, UpdateCrlMerkleRoot,
              SetRequiredFieldConstraints, UpdateProgramVKey, trustVars,
              SetDelegatedProving, Pause, Unpause, SetPaused, TransferOwnership
<1>3. ASSUME NEW sender \in Addresses, AcceptOwnership(sender)
      PROVE  UNCHANGED trustVars
  BY <1>3 DEF AcceptOwnership, trustVars
<1>4. ASSUME NEW v \in Programs, FactoryPublishesVKey(v)
      PROVE  UNCHANGED trustVars
  BY <1>4 DEF FactoryPublishesVKey, trustVars
<1>5. ASSUME ClockTick
      PROVE  Tick
  BY <1>5 DEF ClockTick
<1>6. ASSUME UNCHANGED vars
      PROVE  UNCHANGED trustVars
  BY <1>6 DEF vars, trustVars
<1> QED
  BY <1>1, <1>2, <1>3, <1>4, <1>5, <1>6 DEF Next, WalletStep

THEOREM RegistryTrustInvariance == Spec => []TrustInv
<1>1. Init => TrustInv
  BY TrustInit DEF Init
<1>2. TrustInv /\ [Next]_vars => TrustInv'
  BY TrustCases, TrustStep
<1> QED
  BY <1>1, <1>2, PTL DEF Spec

-----------------------------------------------------------------------------
(* Type correctness and the main invariant.                                *)
(*                                                                         *)
(* VerifiedWalletBacked is inductive together with the types: the slot a   *)
(* wallet last used is bound to it as long as the wallet has any time left,*)
(* because whatever rebinds or revokes that slot clears the wallet first.  *)

RegInv == LedgerTypeOK /\ VerifiedWalletBacked

LEMMA RegInit == Init => RegInv
  BY RegistryAssumption
  DEF Init, CaInit, RegInv, LedgerTypeOK, VerifiedWalletBacked

LEMMA RegTypeStep ==
  ASSUME LedgerTypeOK, [Next]_vars
  PROVE  LedgerTypeOK'
<1>1. ASSUME NEW sender \in Addresses, NEW pv \in ProvableValues,
             Register(sender, pv)
      PROVE  LedgerTypeOK'
  BY <1>1, ProvableSlot DEF Register, LedgerTypeOK
<1>2. ASSUME NEW sender \in Addresses, NEW pv \in ProvableValues,
             ReRegister(sender, pv)
      PROVE  LedgerTypeOK'
  <2>1. verifiedUntil' \in [Addresses -> Nat]
    BY <1>2, ProvableSlot DEF ReRegister, Moved, LedgerTypeOK
  <2> QED
    BY <1>2, <2>1, ProvableSlot DEF ReRegister, LedgerTypeOK
<1>3. ASSUME NEW sender \in Addresses, NEW n \in Slots,
             RevokeIdentity(sender, n)
      PROVE  LedgerTypeOK'
  BY <1>3 DEF RevokeIdentity, LedgerTypeOK
<1>4. ASSUME LedgerUntouched, now' = now \/ Tick
      PROVE  LedgerTypeOK'
  BY <1>4 DEF LedgerUntouched, ledgerVars, LedgerTypeOK, Tick
<1>5. ASSUME UNCHANGED vars
      PROVE  LedgerTypeOK'
  BY <1>5 DEF vars, ledgerVars, LedgerTypeOK
<1> QED
  BY StepCases, <1>1, <1>2, <1>3, <1>4, <1>5

LEMMA RegBackedStep ==
  ASSUME RegInv, [Next]_vars
  PROVE  VerifiedWalletBacked'
<1>1. ASSUME NEW sender \in Addresses, NEW pv \in ProvableValues,
             Register(sender, pv)
      PROVE  VerifiedWalletBacked'
  <2> DEFINE s == pv.nullifier
  <2>1. /\ s \in Slots /\ s # NoSlot
        /\ s[2] = ThisDomain /\ s[3] < MaxWallets
    BY <1>1, ProvableSlot, SlotAssumption DEF Register, ValidProof
  <2> SUFFICES ASSUME NEW w \in Addresses, verifiedUntil'[w] # 0
               PROVE  /\ lastSlot'[w] \in Slots
                      /\ nullifierOwner'[lastSlot'[w]] = w
                      /\ lastSlot'[w] \notin revokedNullifiers'
                      /\ lastSlot'[w][2] = ThisDomain
                      /\ lastSlot'[w][3] < MaxWallets
    BY DEF VerifiedWalletBacked, Credential
  <2>2. CASE w = sender
    BY <1>1, <2>1, <2>2 DEF Register, RegInv, LedgerTypeOK
  <2>3. CASE w # sender
    <3>1. verifiedUntil[w] # 0 /\ lastSlot'[w] = lastSlot[w]
      BY <1>1, <2>3 DEF Register, RegInv, LedgerTypeOK
    <3>2. nullifierOwner[lastSlot[w]] = w /\ lastSlot[w] \in Slots
      BY <3>1 DEF RegInv, VerifiedWalletBacked, Credential
    <3>3. lastSlot[w] # s
      BY <1>1, <3>2, RegistryAssumption DEF Register
    <3> QED
      BY <1>1, <2>1, <3>1, <3>2, <3>3
      DEF Register, RegInv, LedgerTypeOK, VerifiedWalletBacked, Credential
  <2> QED
    BY <2>2, <2>3
<1>2. ASSUME NEW sender \in Addresses, NEW pv \in ProvableValues,
             ReRegister(sender, pv)
      PROVE  VerifiedWalletBacked'
  <2> DEFINE s == pv.nullifier
  <2>1. /\ s \in Slots /\ s # NoSlot
        /\ s[2] = ThisDomain /\ s[3] < MaxWallets
    BY <1>2, ProvableSlot, SlotAssumption DEF ReRegister, ValidProof
  <2> SUFFICES ASSUME NEW w \in Addresses, verifiedUntil'[w] # 0
               PROVE  /\ lastSlot'[w] \in Slots
                      /\ nullifierOwner'[lastSlot'[w]] = w
                      /\ lastSlot'[w] \notin revokedNullifiers'
                      /\ lastSlot'[w][2] = ThisDomain
                      /\ lastSlot'[w][3] < MaxWallets
    BY DEF VerifiedWalletBacked, Credential
  <2>2. CASE w = sender
    BY <1>2, <2>1, <2>2 DEF ReRegister, RegInv, LedgerTypeOK
  <2>3. CASE w # sender
    <3>1. /\ w # nullifierOwner[s]
          /\ verifiedUntil[w] # 0
          /\ lastSlot'[w] = lastSlot[w]
      BY <1>2, <2>3 DEF ReRegister, Moved, RegInv, LedgerTypeOK
    <3>2. nullifierOwner[lastSlot[w]] = w /\ lastSlot[w] \in Slots
      BY <3>1 DEF RegInv, VerifiedWalletBacked, Credential
    <3>3. lastSlot[w] # s
      BY <3>1, <3>2
    <3> QED
      BY <1>2, <2>1, <3>1, <3>2, <3>3
      DEF ReRegister, RegInv, LedgerTypeOK, VerifiedWalletBacked, Credential
  <2> QED
    BY <2>2, <2>3
<1>3. ASSUME NEW sender \in Addresses, NEW n \in Slots,
             RevokeIdentity(sender, n)
      PROVE  VerifiedWalletBacked'
  <2> SUFFICES ASSUME NEW w \in Addresses, verifiedUntil'[w] # 0
               PROVE  /\ lastSlot[w] \in Slots
                      /\ nullifierOwner[lastSlot[w]] = w
                      /\ lastSlot[w] \notin revokedNullifiers'
                      /\ lastSlot[w][2] = ThisDomain
                      /\ lastSlot[w][3] < MaxWallets
    BY <1>3 DEF VerifiedWalletBacked, Credential, RevokeIdentity
  <2>1. w # nullifierOwner[n] /\ verifiedUntil[w] # 0
    BY <1>3 DEF RevokeIdentity, RegInv, LedgerTypeOK
  <2> QED
    BY <1>3, <2>1
    DEF RevokeIdentity, RegInv, VerifiedWalletBacked, Credential
<1>4. ASSUME LedgerUntouched
      PROVE  VerifiedWalletBacked'
  BY <1>4 DEF LedgerUntouched, ledgerVars, RegInv, VerifiedWalletBacked,
              Credential
<1>5. ASSUME UNCHANGED vars
      PROVE  LedgerUntouched
  BY <1>5 DEF vars, LedgerUntouched
<1> QED
  BY StepCases, <1>1, <1>2, <1>3, <1>4, <1>5

\* Type correctness of who is verified, bound and revoked.
THEOREM RegInvariance == Spec => []RegInv
<1>1. RegInv /\ [Next]_vars => RegInv'
  BY RegTypeStep, RegBackedStep DEF RegInv
<1> QED
  BY RegInit, <1>1, PTL DEF Spec

\* A verified wallet always rests on one live slot bound to it, whatever the
\* order of registrations, moves and revocations (register, reRegister and
\* revokeIdentity keep nullifierOwner, revokedNullifiers and verifiedUntil
\* in step).
THEOREM VerifiedWalletBackedHolds == Spec => []VerifiedWalletBacked
  BY RegInvariance, PTL DEF RegInv

THEOREM LedgerTypeCorrect == Spec => []LedgerTypeOK
  BY RegInvariance, PTL DEF RegInv

-----------------------------------------------------------------------------
(* The wallet limit: the index of its slot numbers a key's wallets. *)

LEMMA BackedImpliesLimit == RegInv => WalletLimit
<1> SUFFICES ASSUME RegInv, NEW key \in Keys
             PROVE  Cardinality(WalletsOf(key)) <= MaxWallets
  BY DEF WalletLimit
<1> DEFINE S == WalletsOf(key)
           T == 0..(MaxWallets - 1)
           f == [w \in S |-> Credential(w)[3]]
<1>1. ASSUME NEW w \in S
      PROVE  /\ Credential(w) \in Slots
             /\ nullifierOwner[Credential(w)] = w
             /\ Credential(w)[1] = key
             /\ Credential(w)[2] = ThisDomain
             /\ Credential(w)[3] \in T
  <2>1. /\ w \in Addresses
        /\ Credential(w) # NoSlot /\ Credential(w)[1] = key
    BY DEF WalletsOf
  <2>2. verifiedUntil[w] # 0
    BY <2>1 DEF Credential
  <2>3. /\ Credential(w) \in Slots
        /\ nullifierOwner[Credential(w)] = w
        /\ Credential(w)[2] = ThisDomain
        /\ Credential(w)[3] < MaxWallets
    BY <2>1, <2>2 DEF RegInv, VerifiedWalletBacked
  <2>4. Credential(w)[3] \in WalletIndices
    BY <2>3 DEF Slots
  <2>5. ASSUME NEW i \in WalletIndices, i < MaxWallets
        PROVE  i \in T
    BY <2>5, RegistryAssumption, InputAssumption
  <2>6. Credential(w)[3] \in T
    BY <2>3, <2>4, <2>5
  <2> QED
    BY <2>1, <2>3, <2>6
<1>2. ASSUME NEW v \in S, NEW w \in S, f[v] = f[w]
      PROVE  v = w
  <2>1. Credential(v)[3] = Credential(w)[3]
    BY <1>2
  <2>2. Credential(v) = Credential(w)
    BY <1>1, <2>1 DEF Slots
  <2> QED
    BY <1>1, <2>2
<1>3. f \in Injection(S, T)
  <2>1. f \in [S -> T]
    BY <1>1
  <2> QED
    BY <1>2, <2>1 DEF Injection, IsInjective
<1>4. IsFiniteSet(T) /\ Cardinality(T) = MaxWallets
  BY FS_Interval, RegistryAssumption
<1> QED
  BY <1>3, <1>4, FS_Injection

\* No key ever has more than MAX_WALLETS_PER_CERT wallets, for any number of
\* wallets and any history of renewals and moves.
THEOREM WalletLimitHolds == Spec => []WalletLimit
  BY RegInvariance, BackedImpliesLimit, PTL

-----------------------------------------------------------------------------
(* What a step may never do. *)

\* revokeIdentity is final, register and reRegister only bind a slot that is
\* not revoked, and only to a wallet that was not verified.
THEOREM SlotLifecycleHolds == Spec => SlotLifecycle
<1> DEFINE Lives ==
      /\ revokedNullifiers \subseteq revokedNullifiers'
      /\ \A n \in Slots :
           nullifierOwner'[n] # nullifierOwner[n] =>
             /\ n \notin revokedNullifiers
             /\ nullifierOwner'[n] \in Addresses
             /\ ~IsVerified(nullifierOwner'[n])
<1>1. ASSUME RegInv, NEW sender \in Addresses, NEW pv \in ProvableValues,
             Register(sender, pv)
      PROVE  Lives
  BY <1>1, ProvableSlot DEF Register, RegInv, LedgerTypeOK
<1>2. ASSUME RegInv, NEW sender \in Addresses, NEW pv \in ProvableValues,
             ReRegister(sender, pv)
      PROVE  Lives
  BY <1>2, ProvableSlot DEF ReRegister, RegInv, LedgerTypeOK
<1>3. ASSUME NEW sender \in Addresses, NEW n \in Slots,
             RevokeIdentity(sender, n)
      PROVE  Lives
  BY <1>3 DEF RevokeIdentity
<1>4. ASSUME LedgerUntouched
      PROVE  Lives
  BY <1>4 DEF LedgerUntouched, ledgerVars
<1>5. RegInv /\ [Next]_vars => [Lives]_vars
  BY <1>1, <1>2, <1>3, <1>4, StepCases
<1> QED
  BY RegInvariance, <1>5, PTL DEF Spec, SlotLifecycle

\* A verified wallet loses its status only when one of its slots is revoked
\* or moved, and never has its expiry changed (register, reRegister and
\* revokeIdentity are the only writers of verifiedUntil).
THEOREM LiveWalletUndisturbedHolds == Spec => LiveWalletUndisturbed
<1> DEFINE Undisturbed ==
      \A w \in Addresses :
        IsVerified(w) /\ verifiedUntil'[w] # verifiedUntil[w] =>
          /\ verifiedUntil'[w] = 0
          /\ \E n \in Slots :
               /\ nullifierOwner[n] = w
               /\ n \in revokedNullifiers' \/ nullifierOwner'[n] # w
<1>1. ASSUME RegInv, NEW sender \in Addresses, NEW pv \in ProvableValues,
             Register(sender, pv)
      PROVE  Undisturbed
  BY <1>1 DEF Register, RegInv, LedgerTypeOK
<1>2. ASSUME RegInv, NEW sender \in Addresses, NEW pv \in ProvableValues,
             ReRegister(sender, pv)
      PROVE  Undisturbed
  <2> SUFFICES ASSUME NEW w \in Addresses, IsVerified(w),
                      verifiedUntil'[w] # verifiedUntil[w]
               PROVE  /\ verifiedUntil'[w] = 0
                      /\ nullifierOwner[pv.nullifier] = w
                      /\ nullifierOwner'[pv.nullifier] # w
    BY ProvableSlot
  <2>1. w # sender
    BY <1>2 DEF ReRegister
  <2>2. w = nullifierOwner[pv.nullifier] /\ verifiedUntil'[w] = 0
    BY <1>2, <2>1 DEF ReRegister, Moved, RegInv, LedgerTypeOK
  <2>3. nullifierOwner'[pv.nullifier] = sender
    BY <1>2, ProvableSlot DEF ReRegister, RegInv, LedgerTypeOK
  <2> QED
    BY <2>1, <2>2, <2>3
<1>3. ASSUME RegInv, NEW sender \in Addresses, NEW n \in Slots,
             RevokeIdentity(sender, n)
      PROVE  Undisturbed
  BY <1>3 DEF RevokeIdentity, RegInv, LedgerTypeOK
<1>4. ASSUME LedgerUntouched
      PROVE  Undisturbed
  BY <1>4 DEF LedgerUntouched, ledgerVars
<1>5. RegInv /\ [Next]_vars => [Undisturbed]_vars
  BY <1>1, <1>2, <1>3, <1>4, StepCases
<1> QED
  BY RegInvariance, <1>5, PTL DEF Spec, LiveWalletUndisturbed

\* A wallet gains time only from a valid, unrevoked certificate that meets the
\* policy of the block, issued by a CA listed no longer ago than the grace
\* period: what main.rs proves at the proof's timestamp and what
\* _validateProof compares at the block together say it of the block.
THEOREM GrantSoundHolds == Spec => GrantSound
<1> DEFINE Entitled(w) ==
      /\ ~paused
      /\ lastSlot'[w] \notin revokedNullifiers
      /\ \E c \in Certs :
           /\ c.key = lastSlot'[w][1]
           /\ c.notAfter = verifiedUntil'[w]
           /\ CertValidAt(c, now)
           /\ CrlCheck(c, crlMerkleRoot)
           /\ MeetsConstraints(c, required)
           /\ \E r \in RecentRoots : PathExists(c.issuer, r)
<1>1. ASSUME TrustInv, NEW r, RootAccepted(r)
      PROVE  r \in RecentRoots
  <2>1. CASE r = caMerkleRoot
    BY <2>1 DEF RecentRoots
  <2>2. CASE InGrace(r)
    <3> DEFINE d == [root |-> previousCaMerkleRoot, at |-> caMerkleRootUpdatedAt]
    <3>1. d \in displaced /\ d.root = r /\ now <= d.at + caRootGracePeriod
      BY <1>1, <2>2 DEF TrustInv, PreviousRecorded, InGrace
    <3> HIDE DEF d
    <3> QED
      BY <3>1 DEF RecentRoots
  <2> QED
    BY <1>1, <2>1, <2>2 DEF RootAccepted
<1>2. ASSUME RegInv, TrustInv,
             NEW sender \in Addresses, NEW pv \in ProvableValues,
             ValidProof(sender, pv)
      PROVE  \E c \in Certs :
               /\ c.key = pv.nullifier[1]
               /\ c.notAfter = pv.notAfter
               /\ CertValidAt(c, now)
               /\ CrlCheck(c, crlMerkleRoot)
               /\ MeetsConstraints(c, required)
               /\ \E r \in RecentRoots : PathExists(c.issuer, r)
  <2>1. PICK c \in Certs :
               /\ c.key = pv.nullifier[1]
               /\ c.notAfter = pv.notAfter
               /\ pv.proofTimestamp \in ProofTimes
               /\ CertValidAt(c, pv.proofTimestamp)
               /\ CrlCheck(c, pv.crlMerkleRoot)
               /\ PathExists(c.issuer, pv.caMerkleRoot)
               /\ MeetsConstraints(c, pv.required)
    BY ProvableCertificate
  <2>2. c.notBefore \in Nat /\ c.notAfter \in Nat
    BY CertificateAssumption
  <2>3. ASSUME NEW t \in ProofTimes, t <= now, c.notBefore <= t
        PROVE  c.notBefore <= now
    BY <1>2, <2>2, <2>3, InputAssumption DEF RegInv, LedgerTypeOK
  <2>4. CertValidAt(c, now)
    BY <1>2, <2>1, <2>3 DEF CertValidAt, ValidProof
  <2>5. CrlCheck(c, crlMerkleRoot) /\ MeetsConstraints(c, required)
    BY <1>2, <2>1 DEF CrlCheck, NotRevoked, ValidProof
  <2>6. pv.caMerkleRoot \in RecentRoots
    BY <1>1, <1>2 DEF ValidProof
  <2> QED
    BY <2>1, <2>4, <2>5, <2>6
<1>3. ASSUME RegInv, TrustInv,
             NEW sender \in Addresses, NEW pv \in ProvableValues,
             Register(sender, pv),
             NEW w \in Addresses, verifiedUntil'[w] > verifiedUntil[w]
      PROVE  Entitled(w)
  <2>1. /\ w = sender
        /\ lastSlot'[w] = pv.nullifier
        /\ verifiedUntil'[w] = pv.notAfter
    BY <1>3 DEF Register, RegInv, LedgerTypeOK
  <2> QED
    BY <1>2, <1>3, <2>1 DEF Register
<1>4. ASSUME RegInv, TrustInv,
             NEW sender \in Addresses, NEW pv \in ProvableValues,
             ReRegister(sender, pv),
             NEW w \in Addresses, verifiedUntil'[w] > verifiedUntil[w]
      PROVE  Entitled(w)
  <2>1. /\ w = sender
        /\ lastSlot'[w] = pv.nullifier
        /\ verifiedUntil'[w] = pv.notAfter
    BY <1>4 DEF ReRegister, Moved, RegInv, LedgerTypeOK
  <2> QED
    BY <1>2, <1>4, <2>1 DEF ReRegister
<1>5. ASSUME RegInv, NEW sender \in Addresses, NEW n \in Slots,
             RevokeIdentity(sender, n), NEW w \in Addresses
      PROVE  ~(verifiedUntil'[w] > verifiedUntil[w])
  BY <1>5 DEF RevokeIdentity, RegInv, LedgerTypeOK
<1>6. ASSUME RegInv, LedgerUntouched, NEW w \in Addresses
      PROVE  ~(verifiedUntil'[w] > verifiedUntil[w])
  BY <1>6 DEF LedgerUntouched, ledgerVars, RegInv, LedgerTypeOK
<1>7. RegInv /\ TrustInv /\ [Next]_vars =>
        [\A w \in Addresses :
           verifiedUntil'[w] > verifiedUntil[w] => Entitled(w)]_vars
  <2> HIDE DEF Entitled
  <2> QED
    BY <1>3, <1>4, <1>5, <1>6, StepCases
<1> QED
  BY RegInvariance, RegistryTrustInvariance, <1>7, PTL DEF Spec, GrantSound

-----------------------------------------------------------------------------
(* The registry implements the abstract ledger of IdentityLedger. *)

THEOREM LedgerRefinement == Spec => ImplementsLedger
<1> DEFINE cred == [w \in Addresses |-> Credential(w)]
<1>1. Init => Ledger!Init
  BY DEF Init, Ledger!Init, Credential
<1>2. ASSUME RegInv, NEW sender \in Addresses, NEW pv \in ProvableValues,
             Register(sender, pv)
      PROVE  Ledger!Grant(sender, pv.nullifier)
  <2> DEFINE s == pv.nullifier
  <2>1. s \in Slots /\ pv.notAfter \in Nat
    BY ProvableSlot
  <2>2. pv.notAfter # 0
    BY <1>2, <2>1 DEF Register, ValidProof, RegInv, LedgerTypeOK
  <2>3. \A w \in Addresses \ {sender} : Credential(w) # s
    BY <1>2, <2>1, RegistryAssumption, SlotAssumption
    DEF Register, RegInv, VerifiedWalletBacked, Credential
  <2>4. cred' = [cred EXCEPT ![sender] = s]
    BY <1>2, <2>1, <2>2 DEF Register, RegInv, LedgerTypeOK, Credential
  <2>5. s \notin revokedNullifiers /\ UNCHANGED revokedNullifiers
    BY <1>2 DEF Register
  <2>6. cred \in [Addresses -> Slots \cup {NoSlot}]
    BY <1>2 DEF RegInv, LedgerTypeOK, Credential
  <2>7. /\ cred' \in [Addresses -> Slots \cup {NoSlot}]
        /\ cred'[sender] = s
    BY <2>1, <2>4, <2>6
  <2>8. Ledger!Leaves(Addresses \ {sender}, s)
    BY <2>1, <2>3, <2>4, <2>6, SlotAssumption DEF Ledger!Leaves
  <2> QED
    BY <2>5, <2>7, <2>8 DEF Ledger!Grant
<1>3. ASSUME RegInv, NEW sender \in Addresses, NEW pv \in ProvableValues,
             ReRegister(sender, pv)
      PROVE  Ledger!Grant(sender, pv.nullifier)
  <2> DEFINE s == pv.nullifier
             lost == {nullifierOwner[s]} \ {sender}
  <2>1. /\ s \in Slots /\ pv.notAfter \in Nat
        /\ nullifierOwner[s] \in Addresses
    BY <1>3, ProvableSlot DEF ReRegister, RegInv, LedgerTypeOK
  <2>2. pv.notAfter # 0
    BY <1>3, <2>1 DEF ReRegister, ValidProof, RegInv, LedgerTypeOK
  <2>3. \A w \in Addresses \ {sender} : Credential(w) = s => w \in lost
    BY <2>1, <1>3, SlotAssumption DEF RegInv, VerifiedWalletBacked, Credential
  <2>4. cred' = [w \in Addresses |-> IF w = sender THEN s
                                     ELSE IF w \in lost THEN NoSlot ELSE cred[w]]
    BY <1>3, <2>1, <2>2
    DEF ReRegister, Moved, RegInv, LedgerTypeOK, Credential
  <2>5. s \notin revokedNullifiers /\ UNCHANGED revokedNullifiers
    BY <1>3 DEF ReRegister
  <2>6. cred \in [Addresses -> Slots \cup {NoSlot}]
    BY <1>3 DEF RegInv, LedgerTypeOK, Credential
  <2>7. /\ cred' \in [Addresses -> Slots \cup {NoSlot}]
        /\ cred'[sender] = s
    BY <2>1, <2>4, <2>6
  <2>8. Ledger!Leaves(Addresses \ {sender}, s)
    BY <2>1, <2>3, <2>4, <2>6, SlotAssumption DEF Ledger!Leaves
  <2> QED
    BY <2>5, <2>7, <2>8 DEF Ledger!Grant
<1>4. ASSUME RegInv, NEW sender \in Addresses, NEW n \in Slots,
             RevokeIdentity(sender, n)
      PROVE  Ledger!Ban(n)
  <2>1. nullifierOwner[n] \in Addresses
    BY <1>4 DEF RevokeIdentity, RegInv, LedgerTypeOK
  <2>2. \A w \in Addresses : Credential(w) = n => w = nullifierOwner[n]
    BY SlotAssumption, <1>4 DEF RegInv, VerifiedWalletBacked, Credential
  <2>3. cred' = [cred EXCEPT ![nullifierOwner[n]] = NoSlot]
    BY <1>4, <2>1 DEF RevokeIdentity, RegInv, LedgerTypeOK, Credential
  <2>4. cred \in [Addresses -> Slots \cup {NoSlot}]
    BY <1>4 DEF RegInv, LedgerTypeOK, Credential
  <2>5. cred' \in [Addresses -> Slots \cup {NoSlot}]
    BY <2>3, <2>4
  <2>6. Ledger!Leaves(Addresses, n)
    BY <2>1, <2>2, <2>3, <2>4, SlotAssumption DEF Ledger!Leaves
  <2> QED
    BY <1>4, <2>5, <2>6 DEF Ledger!Ban, RevokeIdentity
<1>5. ASSUME LedgerUntouched
      PROVE  UNCHANGED <<cred, revokedNullifiers>>
  BY <1>5 DEF LedgerUntouched, ledgerVars, Credential
<1>6. RegInv /\ [Next]_vars => [Ledger!Next]_<<cred, revokedNullifiers>>
  <2>1. ASSUME UNCHANGED vars
        PROVE  LedgerUntouched
    BY <2>1 DEF vars, LedgerUntouched
  <2>2. ASSUME RegInv, Next
        PROVE  Ledger!Next \/ UNCHANGED <<cred, revokedNullifiers>>
    BY <2>2, <1>2, <1>3, <1>4, <1>5, ProvableSlot, StepCases DEF Ledger!Next
  <2> QED
    BY <2>1, <2>2, <1>5
<1> QED
  BY RegInvariance, <1>1, <1>6, PTL DEF Spec, ImplementsLedger, Ledger!Spec
=============================================================================
