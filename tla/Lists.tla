------------------------------- MODULE Lists -------------------------------
(***************************************************************************)
(* Sequences, in the form that the proofs can look into: filter() of a     *)
(* list, for those modules that the proofs are about.                      *)
(***************************************************************************)
EXTENDS Integers, Sequences

\* The elements of s that are in S, in their order.
Keep(s, S) ==
  LET kept[k \in 0..Len(s)] ==
        IF k = 0 THEN << >>
        ELSE IF s[k] \in S THEN Append(kept[k-1], s[k]) ELSE kept[k-1]
  IN  kept[Len(s)]
=============================================================================
