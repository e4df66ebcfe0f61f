----------------------------- MODULE CaRecompute -----------------------------
(***************************************************************************)
(* IdentityRegistry._recomputeCaMerkleRoot, loop by loop: the leaves are   *)
(* copied to a memory array and every level is written over the one below  *)
(* it, in place.  The questions are whether the in-place writes ever       *)
(* destroy a node that is still to be read, whether the loops end, and     *)
(* whether the contract, the host and the circuit agree on the root.       *)
(***************************************************************************)
EXTENDS CaMerkle

VARIABLES caLeaves,    \* the contract's list, read only here
          layer,       \* the memory array
          size,        \* nodes of the level being folded
          i,           \* next node of the level above to write
          pc,          \* "start", "level" or "done"
          root         \* the value handed to _rotateCaMerkleRoot

vars == <<caLeaves, layer, size, i, pc, root>>

Init == /\ caLeaves \in CaLists
        /\ layer = << >>
        /\ size = 0
        /\ i = 0
        /\ pc = "start"
        /\ root = ZeroHash

\* len == 0 and len == 1 are returned at once.
ShortList ==
  /\ pc = "start"
  /\ Len(caLeaves) <= 1
  /\ root' = IF caLeaves = << >> THEN ZeroHash ELSE caLeaves[1]
  /\ pc' = "done"
  /\ UNCHANGED <<caLeaves, layer, size, i>>

CopyLeaves ==
  /\ pc = "start"
  /\ Len(caLeaves) > 1
  /\ layer' = caLeaves
  /\ size' = Len(caLeaves)
  /\ pc' = "level"
  /\ UNCHANGED <<caLeaves, i, root>>

NewSize == (size + 1) \div 2

\* Mutant: an odd last node moves up without being hashed.
HashNodeCarriesOdd ==
  /\ pc = "level"
  /\ size > 1
  /\ i < NewSize
  /\ LET left == layer[2*i + 1]
     IN  layer' = [layer EXCEPT ![i + 1] =
                     IF 2*i + 1 < size THEN HashPair(left, layer[2*i + 2])
                                       ELSE left]
  /\ i' = i + 1
  /\ UNCHANGED <<caLeaves, size, pc, root>>

\* The body of the inner loop; layer is 0-based in the code.
HashNode ==
  /\ pc = "level"
  /\ size > 1
  /\ i < NewSize
  /\ LET left  == layer[2*i + 1]
         right == IF 2*i + 1 < size THEN layer[2*i + 2] ELSE left
     IN  layer' = [layer EXCEPT ![i + 1] = HashPair(left, right)]
  /\ i' = i + 1
  /\ UNCHANGED <<caLeaves, size, pc, root>>

\* Mutant: the inner loop's counter is declared outside the outer loop.
NextLevelKeepsCounter ==
  /\ pc = "level"
  /\ size > 1
  /\ i = NewSize
  /\ size' = NewSize
  /\ UNCHANGED <<caLeaves, layer, i, pc, root>>

NextLevel ==
  /\ pc = "level"
  /\ size > 1
  /\ i = NewSize
  /\ size' = NewSize
  /\ i' = 0
  /\ UNCHANGED <<caLeaves, layer, pc, root>>

PublishRoot ==
  /\ pc = "level"
  /\ size = 1
  /\ root' = layer[1]
  /\ pc' = "done"
  /\ UNCHANGED <<caLeaves, layer, size, i>>

Next == ShortList \/ CopyLeaves \/ HashNode \/ NextLevel \/ PublishRoot

-----------------------------------------------------------------------------
\* The in-place loop computes the same root as the host's layer-by-layer tree: no node is
\* overwritten before both its readers are done with it.  And a path the host extracts for
\* a listed CA folds, in the circuit, to that root, while with that path no other CA does:
\* an honest proof is never refused for its root, and a path vouches for the CA at its
\* position only, whatever the length of the list.
PathsProveMembership ==
  pc = "done" =>
    /\ root = MerkleRoot(caLeaves)
    /\ \A ca \in Cas, index \in 0..(Len(caLeaves) - 1) :
         MembershipRoot(ca, MerklePath(caLeaves, index)) = root <=> ca = caLeaves[index + 1]
=============================================================================
