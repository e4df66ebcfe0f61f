-------------------------- MODULE MCCaPullRequest --------------------------
(***************************************************************************)
(* Two concurrent requests, with one signature text or two: of one the     *)
(* window is open from the start, the other is dated ahead of the clock.   *)
(***************************************************************************)
EXTENDS CaPullRequest

CONSTANTS t1, t2

MCSignedAt == [t \in {t1, t2} |-> IF t = t1 THEN 0 ELSE 2]
=============================================================================
