--------------------------- MODULE IdentityLedger ---------------------------
(***************************************************************************)
(* What an identity registry promises to the applications that read it,    *)
(* without proofs, clocks or certificates: a credential is a slot (one of  *)
(* the wallets a certificate key is entitled to); at any time a slot       *)
(* serves at most one wallet, and a slot that was banned never serves one  *)
(* again.  IdentityRegistry implements this ledger.                        *)
(***************************************************************************)
CONSTANTS Addresses, Slots, NoSlot

VARIABLES credential,  \* the slot each address is verified through, or NoSlot
          banned       \* slots revoked for ever

Init == /\ credential = [w \in Addresses |-> NoSlot]
        /\ banned = {}

\* Slot s leaves the wallets of W.  Others of them may lose their slots too: the
\* registry clears the wallet a slot was last bound to, even when that wallet is
\* by now verified through another of its slots.
Leaves(W, s) ==
  \A w \in W : credential'[w] \in {credential[w], NoSlot} \ {s}

Grant(w, s) ==
  /\ s \notin banned
  /\ credential' \in [Addresses -> Slots \cup {NoSlot}]
  /\ credential'[w] = s
  /\ Leaves(Addresses \ {w}, s)
  /\ UNCHANGED banned

Ban(s) ==
  /\ banned' = banned \cup {s}
  /\ credential' \in [Addresses -> Slots \cup {NoSlot}]
  /\ Leaves(Addresses, s)

Next == \/ \E w \in Addresses, s \in Slots : Grant(w, s)
        \/ \E s \in Slots : Ban(s)

Spec == Init /\ [][Next]_<<credential, banned>>
=============================================================================
