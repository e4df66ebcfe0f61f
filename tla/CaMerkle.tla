------------------------------ MODULE CaMerkle ------------------------------
(***************************************************************************)
(* The Merkle tree over the trusted CA hashes, as three programs compute   *)
(* it: the host builds the tree and a membership path                      *)
(* (script/src/merkle.rs), the circuit folds the path back to a root       *)
(* (program/src/main.rs, verify_merkle_membership), and the contract       *)
(* recomputes the root from caLeaves (see CaRecompute for its loop).       *)
(*                                                                         *)
(* Hashes are free terms.  A sorted-pair hash H(min(a,b) || max(a,b))      *)
(* forgets the order of its arguments and nothing else, so the term for it *)
(* is the set of the two; the hash of a duplicated odd node is {a}.        *)
(***************************************************************************)
EXTENDS Integers, Sequences, SequencesExt

CONSTANTS Cas,          \* CA hashes, SHA-256 of a CA's public key
          ManualRoots,  \* roots the owner may publish without the list on chain
          ZeroHash      \* bytes32(0), the root of an empty CA list

ASSUME RootAssumption == ZeroHash \notin Cas \cup ManualRoots

HashPair(a, b) == {a, b}

\* One level of the tree: neighbours are hashed, an odd last node with itself.
NextLayer(layer) ==
  [i \in 1..((Len(layer) + 1) \div 2) |->
     HashPair(layer[2*i - 1],
              IF 2*i <= Len(layer) THEN layer[2*i] ELSE layer[2*i - 1])]

\* The layers from the leaves (layer 0) up.
Layers(leaves) ==
  LET level[k \in 0..Len(leaves)] ==
        IF k = 0 THEN leaves ELSE NextLayer(level[k-1])
  IN  level

\* build_tree stops at the first layer of one node, which is the root.
Height(leaves) ==
  CHOOSE k \in 0..Len(leaves) :
    /\ Len(Layers(leaves)[k]) = 1
    /\ \A j \in 0..(k-1) : Len(Layers(leaves)[j]) > 1

MerkleRoot(leaves) ==
  IF leaves = << >> THEN ZeroHash ELSE Layers(leaves)[Height(leaves)][1]

\* The (0-based) index of a leaf's ancestor in each layer.
Indices(leaves, index) ==
  LET idx[k \in 0..Height(leaves)] ==
        IF k = 0 THEN index ELSE idx[k-1] \div 2
  IN  idx

\* The sibling hashes on the way up from the leaf at an index.
MerklePath(leaves, index) ==
  [k \in 1..Height(leaves) |->
     LET layer   == Layers(leaves)[k-1]
         idx     == Indices(leaves, index)[k-1]
         sibling == IF idx % 2 = 0 THEN idx + 1 ELSE idx - 1
     IN  IF sibling < Len(layer) THEN layer[sibling + 1] ELSE layer[idx + 1]]

\* verify_merkle_membership: the root derived from a leaf and a path.
MembershipRoot(leaf, path) ==
  LET current[k \in 0..Len(path)] ==
        IF k = 0 THEN leaf ELSE HashPair(current[k-1], path[k])
  IN  current[Len(path)]

\* The lists a registry can hold: no CA twice (CaTrust!CaListConsistent).
CaLists == {s \in BoundedSeq(Cas, Cardinality(Cas)) : IsInjective(s)}

\* Every root a registry can have (bytes32(0) included).
Roots == {MerkleRoot(s) : s \in CaLists} \cup ManualRoots

\* Is there a path from ca to this root?  The list behind a root published by
\* hand is known off chain only: any CA may be in it.
PathExists(ca, r) ==
  \/ r \in ManualRoots
  \/ \E s \in CaLists : MerkleRoot(s) = r /\ ca \in Range(s)
=============================================================================
