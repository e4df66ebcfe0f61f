----------------------------- MODULE Groundwork -----------------------------
(***************************************************************************)
(* What a registration rests on besides the registry itself: the tree of   *)
(* trusted CAs that the contract computes (CaRecompute), the tree of       *)
(* revoked serials (CrlTree) and the factory that has the program keys     *)
(* (RegistryFactory).  They share nothing; a behaviour is about one of     *)
(* them, and the others rest.                                              *)
(***************************************************************************)
EXTENDS CaRecompute, RegistryFactory

CONSTANTS PartKinds, Top, MaxRevoked

VARIABLES part, published, serials, serial, proof, verdict

crlVars == <<published, serials, serial, proof, verdict>>

Crl == INSTANCE CrlTree

ASSUME GroundworkAssumption ==
  PartKinds \subseteq {"cas", "revoked", "factory"} /\ Crl!CrlTreeAssumption

groundVars == <<part, vars, crlVars, factoryVars>>

\* Of a part that rests there is one initial state.
GroundInit ==
  /\ part \in PartKinds
  /\ Init
  /\ part # "cas" => caLeaves = << >>
  /\ Crl!Init
  /\ part # "revoked" => serials = << >> /\ serial = 1
  /\ FactoryInit
  /\ part # "factory" => fee = [token |-> Native, amount |-> 0, recipient |-> NoAddress]

CaTreeStep == part = "cas" /\ Next /\ UNCHANGED <<part, crlVars, factoryVars>>
CrlTreeStep == part = "revoked" /\ Crl!Next /\ UNCHANGED <<part, vars, factoryVars>>
FactoryStep == part = "factory" /\ FactoryNext /\ UNCHANGED <<part, vars, crlVars>>

\* The contract's loop is one EVM call and runs to its end; nobody has to make a proof
\* or to call the factory.
GroundSpec ==
  /\ GroundInit /\ [][CaTreeStep \/ CrlTreeStep \/ FactoryStep]_groundVars
  /\ WF_groundVars(CaTreeStep)

-----------------------------------------------------------------------------
\* CrlTree: a holder whose certificate is not revoked is never turned away.
HostProofAccepted == Crl!HostProofAccepted

\* CrlTree: a proof made for the host's list is taken only for a serial that the
\* registry's list does not revoke, and it is not turned down if the lists agree.
TakenIsUnrevoked == [][Crl!TakesUnrevoked]_crlVars

\* The nested loops of the contract end: every level is shorter than the one below.
LoopTerminates == part = "cas" ~> pc = "done"
=============================================================================
