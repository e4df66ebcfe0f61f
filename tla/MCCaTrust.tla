------------------------------ MODULE MCCaTrust ------------------------------
(***************************************************************************)
(* Three CAs and a root set by hand.  Behaviours are followed until        *)
(* MaxDisplaced different roots have been displaced.  Nothing in CaTrust   *)
(* and CaMerkle tells one CA from another, and no property is about        *)
(* liveness: states that differ by a permutation of the CAs are one.       *)
(***************************************************************************)
EXTENDS CaTrust

CONSTANT MaxDisplaced

FewDisplaced == Cardinality(displaced) <= MaxDisplaced

CaSymmetry == Permutations(Cas)
=============================================================================
