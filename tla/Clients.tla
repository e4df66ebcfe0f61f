------------------------------ MODULE Clients ------------------------------
(***************************************************************************)
(* The programs that people use the registries with: the wallet session    *)
(* and pages of the web portal (Portal), the readers of many registries in *)
(* portal and SDK (RegistryReaders), the desktop wizard that proves        *)
(* (DesktopProving), and the servers that sign and prove for others        *)
(* (DelegatedProver).  They meet in the contracts only; a behaviour is     *)
(* about one of them, and the others rest.                                 *)
(***************************************************************************)
EXTENDS Portal, RegistryReaders, DesktopProving, DelegatedProver

CONSTANT ClientKinds    \* the clients of this instance

ASSUME ClientsAssumption ==
  ClientKinds \subseteq {"portal", "reader", "wizard", "prover"}

VARIABLE client

clientVars == <<client, portalVars, readerVars, wizardVars, delegationVars>>

NewRegistry == [creator |-> Wallet, owner |-> Wallet, paused |-> FALSE, until |-> 0]

\* Of a client that rests there is one initial state.
ClientsInit ==
  /\ client \in ClientKinds
  /\ PortalInit
  /\ client # "portal" =>
       wallet = Owner /\ ~granted /\ page = (CHOOSE p \in Pages : TRUE)
  /\ ReaderInit
  /\ client # "reader" =>
       /\ made = (CHOOSE m \in MadeAtStart : TRUE) /\ listed = {}
       /\ \A r \in Registries : chain[r] = NewRegistry
       /\ read.kind = "dashboard" /\ read.acct = None
  /\ WizardInit
  /\ DelegationInit
  /\ client # "prover" => identities = (CHOOSE l \in Listings : TRUE)

PortalStep ==
  /\ client = "portal" /\ PortalNext
  /\ UNCHANGED <<client, readerVars, wizardVars, delegationVars>>
ReaderStep ==
  /\ client = "reader" /\ ReaderNext
  /\ UNCHANGED <<client, portalVars, wizardVars, delegationVars>>
WizardStep ==
  /\ client = "wizard" /\ WizardNext
  /\ UNCHANGED <<client, portalVars, readerVars, delegationVars>>
ProverStep ==
  /\ client = "prover" /\ DelegationNext
  /\ UNCHANGED <<client, portalVars, readerVars, wizardVars>>

ClientsSpec ==
  ClientsInit /\ [][PortalStep \/ ReaderStep \/ WizardStep \/ ProverStep]_clientVars
=============================================================================
