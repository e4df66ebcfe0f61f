------------------------------ MODULE CaTrust ------------------------------
(***************************************************************************)
(* The trust anchor of one IdentityRegistry: the list of trusted CAs, the  *)
(* Merkle root proofs are checked against, and the window in which the     *)
(* previous root is still accepted (contracts/src/IdentityRegistry.sol).   *)
(* The caller of every operation here is the registry's owner; the guard   *)
(* onlyOwner is added by IdentityRegistry, which extends this module.      *)
(***************************************************************************)
EXTENDS CaMerkle

CONSTANTS
  GracePeriods,         \* legal arguments of setCaRootGracePeriod
  MaxBatch,             \* bound: longest argument of addCAs and removeCAs
  MaxTime               \* bound: last value of the clock

ASSUME TimeAssumption ==
  /\ MaxTime \in Nat
  /\ GracePeriods \subseteq Nat \ {0}   \* MIN_CA_GRACE_PERIOD is an hour

VARIABLES
  now,                    \* block.timestamp
  caLeaves,
  caExists,               \* the hashes mapped to true
  caMerkleRoot,
  previousCaMerkleRoot,
  caMerkleRootUpdatedAt,
  caRootGracePeriod,
  displaced               \* history: when each root last stopped being current

caVars == <<caLeaves, caExists, caMerkleRoot, previousCaMerkleRoot,
            caMerkleRootUpdatedAt, caRootGracePeriod, displaced>>

Times == 0..MaxTime

(***************************************************************************)
(* A registry is always a proxy (the implementation's constructor disables *)
(* its initializers), so every slot that initialize() does not write is 0: *)
(* the "= 24 hours" of the declaration runs in the implementation's own    *)
(* constructor and never reaches a proxy's storage.                        *)
(***************************************************************************)
CaInit == /\ now = 1
          /\ caLeaves = << >>
          /\ caExists = {}
          /\ caMerkleRoot = ZeroHash
          /\ previousCaMerkleRoot = ZeroHash
          /\ caMerkleRootUpdatedAt = 0
          /\ caRootGracePeriod = 0
          /\ displaced = {}

-----------------------------------------------------------------------------
(* _validateProof: is a proof against this root acceptable now? *)
InGrace(r) == /\ previousCaMerkleRoot # ZeroHash
              /\ r = previousCaMerkleRoot
              /\ now <= caMerkleRootUpdatedAt + caRootGracePeriod

RootAccepted(r) == r = caMerkleRoot \/ InGrace(r)

\* Mutant: publishing the current root again restarts the window.
RotateRestartsWindow(newRoot) ==
  IF newRoot = caMerkleRoot
    THEN /\ caMerkleRootUpdatedAt' = now
         /\ UNCHANGED <<caMerkleRoot, previousCaMerkleRoot, displaced>>
    ELSE /\ previousCaMerkleRoot' = caMerkleRoot
         /\ caMerkleRootUpdatedAt' = now
         /\ caMerkleRoot' = newRoot
         /\ displaced' = {d \in displaced : d.root # caMerkleRoot}
                           \cup {[root |-> caMerkleRoot, at |-> now]}

\* Mutant: the new root is stored before the old one is saved.
RotateSwapped(newRoot) ==
  IF newRoot = caMerkleRoot
    THEN UNCHANGED <<caMerkleRoot, previousCaMerkleRoot,
                     caMerkleRootUpdatedAt, displaced>>
    ELSE /\ previousCaMerkleRoot' = newRoot
         /\ caMerkleRootUpdatedAt' = now
         /\ caMerkleRoot' = newRoot
         /\ displaced' = {d \in displaced : d.root # caMerkleRoot}
                           \cup {[root |-> caMerkleRoot, at |-> now]}

(* _rotateCaMerkleRoot: publishing the current root again changes nothing. *)
Rotate(newRoot) ==
  IF newRoot = caMerkleRoot
    THEN UNCHANGED <<caMerkleRoot, previousCaMerkleRoot,
                     caMerkleRootUpdatedAt, displaced>>
    ELSE /\ previousCaMerkleRoot' = caMerkleRoot
         /\ caMerkleRootUpdatedAt' = now
         /\ caMerkleRoot' = newRoot
         /\ displaced' = {d \in displaced : d.root # caMerkleRoot}
                           \cup {[root |-> caMerkleRoot, at |-> now]}

UpdateCaMerkleRoot(newRoot) ==
  /\ newRoot # ZeroHash
  /\ Rotate(newRoot)
  /\ UNCHANGED <<now, caLeaves, caExists, caRootGracePeriod>>

\* Mutant: the batch is checked against storage before the loop, not in it.
AddCAsStaleCheck(caHashes) ==
  /\ Range(caHashes) \cap caExists = {}
  /\ caLeaves' = caLeaves \o caHashes
  /\ caExists' = caExists \cup Range(caHashes)
  /\ Rotate(MerkleRoot(caLeaves'))
  /\ UNCHANGED <<now, caRootGracePeriod>>

(* addCAs: each hash is checked against caExists as the loop has left it, so
   a repetition inside the batch is refused like one in storage. *)
AddCAs(caHashes) ==
  /\ ZeroHash \notin Range(caHashes)
  /\ IsInjective(caHashes)
  /\ Range(caHashes) \cap caExists = {}
  /\ caLeaves' = caLeaves \o caHashes
  /\ caExists' = caExists \cup Range(caHashes)
  /\ Rotate(MerkleRoot(caLeaves'))
  /\ UNCHANGED <<now, caRootGracePeriod>>

AddCA(caHash) == AddCAs(<<caHash>>)

(* _removeSingleCA: the last element takes the place of the removed one. *)
SwapAndPop(leaves, index) ==
  SubSeq([leaves EXCEPT ![index + 1] = leaves[Len(leaves)]],
         1, Len(leaves) - 1)

RemoveOne(list, index) ==
  [leaves |-> SwapAndPop(list.leaves, index),
   exists |-> list.exists \ {list.leaves[index + 1]}]

\* The list that the loop over the indices leaves.
RemoveAll(list, indices) ==
  LET after[k \in 0..Len(indices)] ==
        IF k = 0 THEN list ELSE RemoveOne(after[k-1], indices[k])
  IN  after[Len(indices)]

\* Mutant: the root is recomputed from the list before the removals.
RemoveCAsStaleRoot(indices) ==
  /\ \A k \in 1..Len(indices) : indices[k] <= Len(caLeaves) - k
  /\ \A k \in 2..Len(indices) : indices[k] < indices[k-1]
  /\ LET list == RemoveAll([leaves |-> caLeaves, exists |-> caExists], indices)
     IN  /\ caLeaves' = list.leaves
         /\ caExists' = list.exists
  /\ Rotate(MerkleRoot(caLeaves))
  /\ UNCHANGED <<now, caRootGracePeriod>>

\* Mutant: an index may follow itself, when another CA has taken its place.
RemoveCAsRepeats(indices) ==
  /\ \A k \in 1..Len(indices) : indices[k] <= Len(caLeaves) - k
  /\ \A k \in 2..Len(indices) : indices[k] <= indices[k-1]
  /\ LET list == RemoveAll([leaves |-> caLeaves, exists |-> caExists], indices)
     IN  /\ caLeaves' = list.leaves
         /\ caExists' = list.exists
  /\ Rotate(MerkleRoot(caLeaves'))
  /\ UNCHANGED <<now, caRootGracePeriod>>

(* removeCAs: strictly descending 0-based indices, each one checked against
   the length the previous removals have left. *)
RemoveCAs(indices) ==
  /\ \A k \in 1..Len(indices) : indices[k] <= Len(caLeaves) - k
  /\ \A k \in 2..Len(indices) : indices[k] < indices[k-1]
  /\ LET list == RemoveAll([leaves |-> caLeaves, exists |-> caExists], indices)
     IN  /\ caLeaves' = list.leaves
         /\ caExists' = list.exists
  /\ Rotate(MerkleRoot(caLeaves'))
  /\ UNCHANGED <<now, caRootGracePeriod>>

RemoveCA(index) == RemoveCAs(<<index>>)

SetCaRootGracePeriod(newPeriod) ==
  /\ newPeriod \in GracePeriods
  /\ caRootGracePeriod' = newPeriod
  /\ UNCHANGED <<now, caLeaves, caExists, caMerkleRoot, previousCaMerkleRoot,
                 caMerkleRootUpdatedAt, displaced>>

(* Time between two blocks. *)
Tick == /\ now < MaxTime
        /\ now' = now + 1
        /\ UNCHANGED caVars

CaIndices == 0..(Cardinality(Cas) - 1)

CaAdminStep ==
  \/ \E r \in ManualRoots : UpdateCaMerkleRoot(r)
  \/ \E ca \in Cas : AddCA(ca)
  \/ \E hs \in BoundedSeq(Cas, MaxBatch) : AddCAs(hs)
  \/ \E ix \in CaIndices : RemoveCA(ix)
  \/ \E is \in BoundedSeq(CaIndices, MaxBatch) : RemoveCAs(is)
  \/ \E p \in GracePeriods : SetCaRootGracePeriod(p)

CaNext == CaAdminStep \/ Tick
CaSpec == CaInit /\ [][CaNext]_<<now, caVars>>

-----------------------------------------------------------------------------
\* caExists says exactly which hashes are listed, and none is listed twice,
\* after any mix of batches, swap-and-pop removals and re-additions: a CA that
\* was removed can be added again and one that is listed cannot.
CaListConsistent == IsInjective(caLeaves) /\ caExists = Range(caLeaves)

\* Whenever an operation changes the list, the root it leaves is the one every
\* reader of getCaLeaves() computes; no batch leaves an intermediate root.
RootFollowsList ==
  [][caLeaves' # caLeaves => caMerkleRoot' = MerkleRoot(caLeaves')]_<<now, caVars>>

\* A batch removes the CAs that its indices named when it began and no others, although
\* each removal moves the last CA of the list to the place it frees: the caller's indices
\* are those of one reading of the list, and are not shifted by the rounds before.
RemovesTheNamed ==
  [][\A is \in BoundedSeq(CaIndices, MaxBatch) :
       RemoveCAs(is) =>
         Range(caLeaves') = Range(caLeaves) \ {caLeaves[i + 1] : i \in Range(is)}]_<<now, caVars>>

\* No single step makes the root that was current before it unacceptable: a
\* proof in flight when the owner changes the CA set survives that change.
InFlightRootSurvives ==
  [][\A r \in {caMerkleRoot} \ {ZeroHash} : RootAccepted(r)']_<<now, caVars>>

\* A root that is accepted and not current was current no longer ago than the
\* grace period: however the owner mixes rotations, repeated publications and
\* changes of the period, a withdrawn CA set is not trusted past its window.
TrustWindow ==
  \A r \in {previousCaMerkleRoot} \ {caMerkleRoot, ZeroHash} :
    RootAccepted(r) =>
      \E d \in displaced : d.root = r /\ now <= d.at + caRootGracePeriod

\* docs/paper/paper.md:439, "default 24 hours" (IdentityRegistry.sol:65 and
\* :401 say the same): until the owner sets a period, the previous root is
\* accepted for a default no shorter than the shortest legal period.
DefaultGraceApplies ==
  /\ previousCaMerkleRoot # ZeroHash
  /\ caRootGracePeriod \notin GracePeriods
  /\ now <= caMerkleRootUpdatedAt + Min(GracePeriods)
  => RootAccepted(previousCaMerkleRoot)
=============================================================================
