------------------------------ MODULE CrlTree ------------------------------
(***************************************************************************)
(* Revocation by serial number: the host keeps the hashes of the revoked   *)
(* serials in a sorted Merkle tree and proves that a serial falls between  *)
(* two neighbours (script/src/smt.rs); the circuit checks the proof        *)
(* against the host's root and commits this root (program/src/main.rs,     *)
(* step 4b); the registry compares it with the one it publishes, which a   *)
(* relayer computed from a list of its own.                                *)
(*                                                                         *)
(* The circuit's inputs are those of prove_non_inclusion.  The circuit     *)
(* compares the two indices with each other and not with the paths; what   *)
(* inputs of any other origin prove is outside this module.                *)
(*                                                                         *)
(* A serial is named by its hash, a number; only the order of the hashes   *)
(* matters.  Unlike the CA tree this one does not sort the children, so    *)
(* the term of a node is the pair of them.                                 *)
(***************************************************************************)
EXTENDS Integers, Sequences, SequencesExt

CONSTANTS
  Top,           \* the serial hashes are 1..Top
  MaxRevoked     \* bound: length of the revocation list

\* What the constants are, assumed where the module is used.
CrlTreeAssumption == Top \in Nat /\ MaxRevoked \in Nat

VARIABLES
  published,  \* << >> while checking is disabled (bytes32(0)), or <<the list of
              \* revoked serials behind the registry's crlMerkleRoot>>
  serials,    \* the host's list, in the order of its CRL, maybe repeated
  serial,     \* the certificate's
  proof,      \* NonInclusionProof, or NoProof
  verdict     \* "open", "refused" by the host, "accepted" or "rejected" by the
              \* circuit, then "taken" by the registry or "outdated"

vars == <<published, serials, serial, proof, verdict>>

SerialHashes == 1..Top
MinSentinel == 0
MaxSentinel == Top + 1
NoProof == << >>

-----------------------------------------------------------------------------
(* from_revoked_serials *)

Hashes(list) == {MinSentinel, MaxSentinel} \cup Range(list)

\* Both sentinels and the revoked hashes, sorted, each once: a hash stands at the place
\* that the number of smaller ones gives it.
Leaves(list) ==
  [k \in 1..Cardinality(Hashes(list)) |->
     CHOOSE h \in Hashes(list) : Cardinality({g \in Hashes(list) : g < h}) = k - 1]

HashChildren(left, right) == <<left, right>>

NextLayer(layer) ==
  [i \in 1..((Len(layer) + 1) \div 2) |->
     HashChildren(layer[2*i - 1],
                  IF 2*i <= Len(layer) THEN layer[2*i] ELSE layer[2*i - 1])]

Layers(leaves) ==
  LET level[k \in 0..Len(leaves)] ==
        IF k = 0 THEN [i \in DOMAIN leaves |-> <<leaves[i]>>]
                 ELSE NextLayer(level[k-1])
  IN  level

\* build_layers stops at the first layer of one node, which is the root.
Height(leaves) ==
  CHOOSE k \in 0..Len(leaves) :
    /\ Len(Layers(leaves)[k]) = 1
    /\ \A j \in 0..(k-1) : Len(Layers(leaves)[j]) > 1

Root(leaves) == Layers(leaves)[Height(leaves)][1]

\* The index of a leaf's ancestor in each layer.
Indices(leaves, index) ==
  LET idx[k \in 0..Height(leaves)] ==
        IF k = 0 THEN index ELSE idx[k-1] \div 2
  IN  idx

(* merkle_proof: per level the sibling and on which side it is.  Positions
   past the last leaf are those of the copies an odd level is padded with. *)
Path(leaves, index) ==
  [k \in 1..Height(leaves) |->
     LET layer   == Layers(leaves)[k-1]
         idx     == Indices(leaves, index)[k-1]
         isLeft  == idx % 2 = 0
         sibling == IF isLeft THEN idx + 1 ELSE idx - 1
         held    == IF sibling < Len(layer) THEN sibling ELSE Len(layer) - 1
     IN  [hash |-> layer[held + 1], isLeft |-> isLeft]]

LeafAt(leaves, index) ==
  leaves[IF index < Len(leaves) THEN index + 1 ELSE Len(leaves)]

\* Mutant: the serial itself is taken for its left neighbour.
ProveFromSerial(leaves, s) ==
  LET pos == Cardinality({i \in DOMAIN leaves : leaves[i] <= s})
  IN  [left |-> LeafAt(leaves, pos), leftPath |-> Path(leaves, pos),
       leftIndex |-> pos,
       right |-> LeafAt(leaves, pos + 1), rightPath |-> Path(leaves, pos + 1),
       rightIndex |-> pos + 1]

(* prove_non_inclusion, for a serial that is not a leaf: the binary search
   fails with the number of smaller leaves. *)
ProveNonInclusion(leaves, s) ==
  LET pos == Cardinality({i \in DOMAIN leaves : leaves[i] < s})
  IN  [left |-> LeafAt(leaves, pos - 1), leftPath |-> Path(leaves, pos - 1),
       leftIndex |-> pos - 1,
       right |-> LeafAt(leaves, pos), rightPath |-> Path(leaves, pos),
       rightIndex |-> pos]

-----------------------------------------------------------------------------
(* verify_crl_merkle_proof *)
FoldPath(leaf, path) ==
  LET current[k \in 0..Len(path)] ==
        IF k = 0 THEN <<leaf>>
        ELSE IF path[k].isLeft THEN HashChildren(current[k-1], path[k].hash)
                               ELSE HashChildren(path[k].hash, current[k-1])
  IN  current[Len(path)]

(* Step 4b.  The indices are compared with each other only. *)
CircuitAccepts(s, p, root) ==
  /\ p.left < s /\ s < p.right
  /\ p.rightIndex = p.leftIndex + 1
  /\ FoldPath(p.left, p.leftPath) = root
  /\ FoldPath(p.right, p.rightPath) = root

-----------------------------------------------------------------------------
(* _validateProof *)

\* Mutant: any root will do.
CrlRootIgnored(root) == TRUE

CrlRootMatches(root) == published = << >> \/ root = Root(Leaves(published[1]))

-----------------------------------------------------------------------------
Init ==
  /\ published = << >>
  /\ serials \in BoundedSeq(SerialHashes, MaxRevoked)
  /\ serial \in SerialHashes
  /\ proof = NoProof
  /\ verdict = "open"

HostProves ==
  /\ verdict = "open" /\ proof = NoProof
  /\ serial \notin Range(Leaves(serials))
  /\ proof' = ProveNonInclusion(Leaves(serials), serial)
  /\ UNCHANGED <<published, serials, serial, verdict>>

HostRefuses ==
  /\ verdict = "open" /\ proof = NoProof
  /\ serial \in Range(Leaves(serials))
  /\ verdict' = "refused"
  /\ UNCHANGED <<published, serials, serial, proof>>

CircuitChecks ==
  /\ verdict = "open" /\ proof # NoProof
  /\ verdict' = IF CircuitAccepts(serial, proof, Root(Leaves(serials)))
                  THEN "accepted" ELSE "rejected"
  /\ UNCHANGED <<published, serials, serial, proof>>

\* updateCrlMerkleRoot: the relayer's root of another list, or bytes32(0).  Only the
\* registry reads it, so calls before the circuit ran can as well come after it.
UpdateCrlMerkleRoot ==
  /\ verdict = "accepted"
  /\ \E list \in BoundedSeq(SerialHashes, MaxRevoked) : published' \in {<<list>>, << >>}
  /\ UNCHANGED <<serials, serial, proof, verdict>>

RegistryChecks ==
  /\ verdict = "accepted"
  /\ verdict' = IF CrlRootMatches(Root(Leaves(serials))) THEN "taken" ELSE "outdated"
  /\ UNCHANGED <<published, serials, serial, proof>>

Next ==
  HostProves \/ HostRefuses \/ CircuitChecks \/ UpdateCrlMerkleRoot \/ RegistryChecks

-----------------------------------------------------------------------------
\* A holder of a certificate that is not revoked is never turned away: the
\* host's proof exists for every list and every gap in it, the two ends of the
\* order and trees padded with copies included, and the circuit accepts it.
HostProofAccepted ==
  /\ verdict = "refused" => serial \in Range(serials)
  /\ verdict # "rejected"

\* smt.rs:357, test_order_independent: the root stands for the set of revoked serials.
\* A host's proof is taken only for a serial that is not on the list the registry
\* publishes at that moment, and it is turned down only if the two lists differ as
\* sets: in which order, and how often, the CRL and the relayer name a serial makes no
\* difference, and no two different sets have the same padded tree.
TakesUnrevoked ==
  verdict = "accepted" /\ verdict' # verdict /\ published # << >> =>
    /\ verdict' = "taken" => serial \notin Range(published[1])
    /\ verdict' = "outdated" => Range(published[1]) # Range(serials)
=============================================================================
