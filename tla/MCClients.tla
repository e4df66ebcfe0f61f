----------------------------- MODULE MCClients -----------------------------
(***************************************************************************)
(* Portal: two accounts, one of which owns the registry; every page.  The  *)
(* lists see three switches of the wallet, the registration form one.      *)
(* Readers: two registries, the first in any state, the second just made   *)
(* or on every list, every reader; one change and one failing call while a *)
(* read is on its way.                                                     *)
(* Wizard: two registries, one that requires its prover and has two        *)
(* wallets per certificate, one with an optional prover; a key store that  *)
(* loses a certificate between scans.                                      *)
(* Prover: a request needs five steps of its user and gets six, a consent  *)
(* and a proof live one tick of two.                                       *)
(***************************************************************************)
EXTENDS Clients, TLC

CONSTANTS w, c, ra, rb, c1, c2

MCMaxSwitches == [p \in Pages |-> IF p = "registry" THEN 1 ELSE 3]

MCMadeAtStart == {<<ra>>, <<ra, rb>>}

\* A verification that lasts for the block only, or none.
MCFirst == [creator : Accounts, owner : Accounts, paused : BOOLEAN, until : {0, 1}]

\* As it is made, or on every list and verified throughout.
MCSecond ==
  {[creator |-> w, owner |-> w, paused |-> FALSE, until |-> 0],
   [creator |-> c, owner |-> c, paused |-> FALSE, until |-> MaxTime]}

MCChainsAtStart ==
  {[r \in Registries |-> IF r = ra THEN first ELSE second] :
     first \in MCFirst, second \in MCSecond}

MCListings == {<<c1, c2>>, <<c2>>}

MCConfig == [r \in Registries |->
  IF r = ra THEN [required |-> TRUE, prover |-> ra, maxWallets |-> 2]
            ELSE [required |-> FALSE, prover |-> rb, maxWallets |-> 1]]
=============================================================================
