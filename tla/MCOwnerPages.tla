---------------------------- MODULE MCOwnerPages ----------------------------
(***************************************************************************)
(* CAs: a contract that starts with two and a third one to add.            *)
(* Settings: every form, two announcements; a third reading and a second   *)
(* save where the form is not read with the contract.                      *)
(* Create: two clicks on deploy and three moves of the user or the fee; a  *)
(* use case that needs more wallets than the form starts with.             *)
(***************************************************************************)
EXTENDS OwnerPages

CONSTANTS c1, c2, c3, v1, a1, a2, e1, e2, multi

MCLeaves == {<<c1, c2>>}

MCMaxReads == [f \in Forms |-> IF f \in ContractForms THEN 2 ELSE 3]

MCMaxSaves == [f \in Forms |-> IF f \in ContractForms THEN 1 ELSE 2]

MCMinWallets == (multi :> 3)

\* Ether and two tokens, of three different decimals.
MCUnitOf == (Native :> 1) @@ (e1 :> 2) @@ (e2 :> 3)

\* Nothing, or one or two units; of the second token one.
MCCharges ==
  [token : {Native, e1}, fee : 0..2] \cup {[token |-> e2, fee |-> 1]}
=============================================================================
