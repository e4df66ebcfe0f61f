-------------------------- MODULE IdentityRegistry --------------------------
(***************************************************************************)
(* contracts/src/IdentityRegistry.sol: who is verified.  A call is one     *)
(* atomic step of its sender; a call that reverts changes nothing and is   *)
(* not a step.  The CA part of the contract is in CaTrust, the proofs that *)
(* can be submitted are those of ZkCircuit.                                *)
(***************************************************************************)
EXTENDS CaTrust, ZkCircuit

CONSTANTS
  NoAddress,       \* address(0)
  Deployer,        \* the owner given to initialize()
  Candidates,      \* addresses the owner may propose as its successor
  ThisDomain,      \* this registry on its chain
  MaxWallets,      \* MAX_WALLETS_PER_CERT
  MinDisclosure,   \* MIN_DISCLOSURE_MASK, as a set of fields
  MaxProofAge,     \* maxProofAge
  FactoryModes,    \* the ways of deployment, see factoryMode
  FirstProgram,    \* the vkey at deployment
  ProverUrls,      \* arguments of setDelegatedProving
  NoUrl,           \* the empty string
  NoSlot           \* history only: no nullifier

ASSUME RegistryAssumption ==
  /\ NoAddress \notin Addresses
  /\ Deployer \in Addresses
  /\ Candidates \subseteq Addresses
  /\ MaxWallets \in Nat \ {0}
  /\ MaxProofAge \in Nat
  /\ ThisDomain \in Domains
  /\ FactoryModes \subseteq BOOLEAN
  /\ FirstProgram \in Programs

\* Nullifiers that proofs can carry.
Slots == Keys \X Domains \X WalletIndices

ASSUME SlotAssumption == NoSlot \notin Slots

VARIABLES
  nullifierOwner,
  revokedNullifiers,
  verifiedUntil,
  crlMerkleRoot,
  required,              \* requiredCountry .. requiredCommonName
  factoryMode,           \* factory # address(0): the factory keeps the vkey
  programVKey,           \* what _getVKey() returns
  owner, pendingOwner,
  paused,
  delegatedProving,      \* delegatedProvingRequired and proverUrl
  lastSlot               \* history: the nullifier each address last used

ledgerVars == <<nullifierOwner, revokedNullifiers, verifiedUntil, lastSlot>>
policyVars == <<crlMerkleRoot, required, factoryMode, programVKey, paused,
                delegatedProving>>
ownerVars == <<owner, pendingOwner>>
vars == <<now, caVars, ledgerVars, policyVars, ownerVars>>

(* initialize(); its checks on the arguments are the assumptions above. *)
Init ==
  /\ CaInit
  /\ nullifierOwner = [n \in Slots |-> NoAddress]
  /\ revokedNullifiers = {}
  /\ verifiedUntil = [w \in Addresses |-> 0]
  /\ lastSlot = [w \in Addresses |-> NoSlot]
  /\ crlMerkleRoot = NoCrl
  /\ required \in FieldConstraints
  /\ factoryMode \in FactoryModes
  /\ programVKey = FirstProgram
  /\ owner = Deployer
  /\ pendingOwner = NoAddress
  /\ paused = FALSE
  /\ delegatedProving \in BOOLEAN \X {NoUrl}

-----------------------------------------------------------------------------
(* isVerified *)
IsVerified(w) == verifiedUntil[w] >= now

Disclosed(pv) == {f \in Fields : pv.disclosed[f] # NoValue}

\* Mutant: the wallet index is not compared with the limit.
ValidProofAnyIndex(sender, pv) ==
  /\ pv.registrant = sender
  /\ pv.proofTimestamp <= now
  /\ now - pv.proofTimestamp <= MaxProofAge
  /\ RootAccepted(pv.caMerkleRoot)
  /\ pv.notAfter >= now
  /\ pv.domain = ThisDomain
  /\ crlMerkleRoot # NoCrl => pv.crlMerkleRoot = crlMerkleRoot
  /\ MinDisclosure \subseteq Disclosed(pv)
  /\ pv.required = required
  /\ pv.program = programVKey

\* Mutant: validity at the proof's timestamp is taken for validity now.
ValidProofPastExpiry(sender, pv) ==
  /\ pv.registrant = sender
  /\ pv.proofTimestamp <= now
  /\ now - pv.proofTimestamp <= MaxProofAge
  /\ RootAccepted(pv.caMerkleRoot)
  /\ pv.walletIndex < MaxWallets
  /\ pv.domain = ThisDomain
  /\ crlMerkleRoot # NoCrl => pv.crlMerkleRoot = crlMerkleRoot
  /\ MinDisclosure \subseteq Disclosed(pv)
  /\ pv.required = required
  /\ pv.program = programVKey

(* _validateProof, called by sender. *)
ValidProof(sender, pv) ==
  /\ pv.registrant = sender
  /\ pv.proofTimestamp <= now
  /\ now - pv.proofTimestamp <= MaxProofAge
  /\ RootAccepted(pv.caMerkleRoot)
  /\ pv.walletIndex < MaxWallets
  /\ pv.notAfter >= now
  /\ pv.domain = ThisDomain
  /\ crlMerkleRoot # NoCrl => pv.crlMerkleRoot = crlMerkleRoot
  /\ MinDisclosure \subseteq Disclosed(pv)
  /\ pv.required = required
  /\ pv.program = programVKey           \* SP1_VERIFIER.verifyProof

\* Mutant: a verified sender is not refused.
RegisterWhileVerified(sender, pv) ==
  /\ ~paused
  /\ ValidProof(sender, pv)
  /\ pv.nullifier \notin revokedNullifiers
  /\ nullifierOwner[pv.nullifier] = NoAddress
  /\ nullifierOwner' = [nullifierOwner EXCEPT ![pv.nullifier] = sender]
  /\ verifiedUntil' = [verifiedUntil EXCEPT ![sender] = pv.notAfter]
  /\ lastSlot' = [lastSlot EXCEPT ![sender] = pv.nullifier]
  /\ UNCHANGED <<now, caVars, revokedNullifiers, policyVars, ownerVars>>

Register(sender, pv) ==
  /\ ~paused
  /\ ~IsVerified(sender)
  /\ ValidProof(sender, pv)
  /\ pv.nullifier \notin revokedNullifiers
  /\ nullifierOwner[pv.nullifier] = NoAddress
  /\ nullifierOwner' = [nullifierOwner EXCEPT ![pv.nullifier] = sender]
  /\ verifiedUntil' = [verifiedUntil EXCEPT ![sender] = pv.notAfter]
  /\ lastSlot' = [lastSlot EXCEPT ![sender] = pv.nullifier]
  /\ UNCHANGED <<now, caVars, revokedNullifiers, policyVars, ownerVars>>

\* Mutant: the old wallet keeps its status.
MovedKeepsOld(oldOwner, sender, notAfter) ==
  [verifiedUntil EXCEPT ![sender] = notAfter]

\* The old wallet of the slot is cleared, the new one takes over.
Moved(oldOwner, sender, notAfter) ==
  [w \in Addresses |-> IF w = sender THEN notAfter
                       ELSE IF w = oldOwner THEN 0 ELSE verifiedUntil[w]]

\* Mutant: a revoked slot can be moved.
ReRegisterRevoked(sender, pv) ==
  /\ ~paused
  /\ ~IsVerified(sender)
  /\ ValidProof(sender, pv)
  /\ nullifierOwner[pv.nullifier] # NoAddress
  /\ verifiedUntil' = Moved(nullifierOwner[pv.nullifier], sender, pv.notAfter)
  /\ nullifierOwner' = [nullifierOwner EXCEPT ![pv.nullifier] = sender]
  /\ lastSlot' = [lastSlot EXCEPT ![sender] = pv.nullifier]
  /\ UNCHANGED <<now, caVars, revokedNullifiers, policyVars, ownerVars>>

ReRegister(sender, pv) ==
  /\ ~paused
  /\ ~IsVerified(sender)
  /\ ValidProof(sender, pv)
  /\ pv.nullifier \notin revokedNullifiers
  /\ nullifierOwner[pv.nullifier] # NoAddress
  /\ verifiedUntil' = Moved(nullifierOwner[pv.nullifier], sender, pv.notAfter)
  /\ nullifierOwner' = [nullifierOwner EXCEPT ![pv.nullifier] = sender]
  /\ lastSlot' = [lastSlot EXCEPT ![sender] = pv.nullifier]
  /\ UNCHANGED <<now, caVars, revokedNullifiers, policyVars, ownerVars>>

-----------------------------------------------------------------------------
OnlyOwner(sender) == sender = owner

\* Mutant: the wallet of a revoked nullifier stays verified.
RevokeIdentityKeepsWallet(sender, nullifier) ==
  /\ OnlyOwner(sender)
  /\ nullifierOwner[nullifier] # NoAddress
  /\ revokedNullifiers' = revokedNullifiers \cup {nullifier}
  /\ UNCHANGED <<now, caVars, nullifierOwner, verifiedUntil, lastSlot,
                 policyVars, ownerVars>>

(* A nullifier can be revoked again; its wallet is cleared again. *)
RevokeIdentity(sender, nullifier) ==
  /\ OnlyOwner(sender)
  /\ nullifierOwner[nullifier] # NoAddress
  /\ verifiedUntil' = [verifiedUntil EXCEPT ![nullifierOwner[nullifier]] = 0]
  /\ revokedNullifiers' = revokedNullifiers \cup {nullifier}
  /\ UNCHANGED <<now, caVars, nullifierOwner, lastSlot, policyVars, ownerVars>>

UpdateCas(sender) ==
  /\ OnlyOwner(sender)
  /\ CaAdminStep
  /\ UNCHANGED <<ledgerVars, policyVars, ownerVars>>

UpdateCrlMerkleRoot(sender, newRoot) ==
  /\ OnlyOwner(sender)
  /\ crlMerkleRoot' = newRoot
  /\ UNCHANGED <<now, caVars, ledgerVars, required, factoryMode, programVKey,
                 paused, delegatedProving, ownerVars>>

SetRequiredFieldConstraints(sender, values) ==
  /\ OnlyOwner(sender)
  /\ required' = values
  /\ UNCHANGED <<now, caVars, ledgerVars, crlMerkleRoot, factoryMode,
                 programVKey, paused, delegatedProving, ownerVars>>

UpdateProgramVKey(sender, newVKey) ==
  /\ OnlyOwner(sender)
  /\ ~factoryMode
  /\ programVKey' = newVKey
  /\ UNCHANGED <<now, caVars, ledgerVars, crlMerkleRoot, required, factoryMode,
                 paused, delegatedProving, ownerVars>>

(* In factory mode the factory's owner moves the key under the registry. *)
FactoryPublishesVKey(newVKey) ==
  /\ factoryMode
  /\ programVKey' = newVKey
  /\ UNCHANGED <<now, caVars, ledgerVars, crlMerkleRoot, required, factoryMode,
                 paused, delegatedProving, ownerVars>>

SetDelegatedProving(sender, needed, url) ==
  /\ OnlyOwner(sender)
  /\ delegatedProving' = <<needed, url>>
  /\ UNCHANGED <<now, caVars, ledgerVars, crlMerkleRoot, required, factoryMode,
                 programVKey, paused, ownerVars>>

SetPaused(sender, value) ==
  /\ OnlyOwner(sender)
  /\ paused' = value
  /\ UNCHANGED <<now, caVars, ledgerVars, crlMerkleRoot, required, factoryMode,
                 programVKey, delegatedProving, ownerVars>>

Pause(sender) == SetPaused(sender, TRUE)
Unpause(sender) == SetPaused(sender, FALSE)

TransferOwnership(sender, newOwner) ==
  /\ OnlyOwner(sender)
  /\ newOwner # NoAddress
  /\ pendingOwner' = newOwner
  /\ UNCHANGED <<now, caVars, ledgerVars, policyVars, owner>>

AcceptOwnership(sender) ==
  /\ sender = pendingOwner
  /\ owner' = sender
  /\ pendingOwner' = NoAddress
  /\ UNCHANGED <<now, caVars, ledgerVars, policyVars>>

ClockTick == Tick /\ UNCHANGED <<ledgerVars, policyVars, ownerVars>>

-----------------------------------------------------------------------------
WalletStep == \E sender \in Addresses, pv \in ProvableValues :
                Register(sender, pv) \/ ReRegister(sender, pv)

OwnerStep(sender) ==
  \/ \E n \in Slots : RevokeIdentity(sender, n)
  \/ UpdateCas(sender)
  \/ \E r \in CrlRoots \cup {NoCrl} : UpdateCrlMerkleRoot(sender, r)
  \/ \E values \in FieldConstraints : SetRequiredFieldConstraints(sender, values)
  \/ \E v \in Programs : UpdateProgramVKey(sender, v)
  \/ \E needed \in BOOLEAN, url \in ProverUrls :
       SetDelegatedProving(sender, needed, url)
  \/ Pause(sender) \/ Unpause(sender)
  \/ \E a \in Candidates : TransferOwnership(sender, a)

Next == \/ WalletStep
        \/ \E sender \in Addresses : OwnerStep(sender) \/ AcceptOwnership(sender)
        \/ \E v \in Programs : FactoryPublishesVKey(v)
        \/ ClockTick

Spec == Init /\ [][Next]_vars

-----------------------------------------------------------------------------
LedgerTypeOK ==
  /\ now \in Nat \ {0}
  /\ nullifierOwner \in [Slots -> Addresses \cup {NoAddress}]
  /\ revokedNullifiers \in SUBSET Slots
  /\ verifiedUntil \in [Addresses -> Nat]
  /\ lastSlot \in [Addresses -> Slots \cup {NoSlot}]

\* The slot an address is verified through, expired or not.
Credential(w) == IF verifiedUntil[w] = 0 THEN NoSlot ELSE lastSlot[w]

\* A verified wallet rests on one live slot: a nullifier that is bound to that
\* wallet, has not been revoked and whose index is within the wallet limit.
\* Violated by any move or revocation that forgets the wallet it leaves.
VerifiedWalletBacked ==
  \A w \in Addresses :
    verifiedUntil[w] # 0 =>
      /\ Credential(w) \in Slots
      /\ nullifierOwner[Credential(w)] = w
      /\ Credential(w) \notin revokedNullifiers
      /\ Credential(w)[2] = ThisDomain
      /\ Credential(w)[3] < MaxWallets

\* MAX_WALLETS_PER_CERT is a bound on people, not on calls: however often a
\* key holder renews, re-registers or moves, no more than MaxWallets addresses
\* are verified at a time through that key.
WalletsOf(key) ==
  {w \in Addresses : Credential(w) # NoSlot /\ Credential(w)[1] = key}

WalletLimit == \A key \in Keys : Cardinality(WalletsOf(key)) <= MaxWallets

\* A nullifier once bound is never free again, is rebound only to a wallet
\* that was not verified, and is frozen with its wallet when it is revoked.
SlotLifecycle ==
  [][/\ revokedNullifiers \subseteq revokedNullifiers'
     /\ \A n \in Slots :
          nullifierOwner'[n] # nullifierOwner[n] =>
            /\ n \notin revokedNullifiers
            /\ nullifierOwner'[n] \in Addresses
            /\ ~IsVerified(nullifierOwner'[n])]_vars

\* A wallet that is verified now keeps its status and its expiry until one of
\* the slots bound to it is revoked or moved to another wallet; nothing else,
\* its own calls included, shortens or extends it.
LiveWalletUndisturbed ==
  [][\A w \in Addresses :
       IsVerified(w) /\ verifiedUntil'[w] # verifiedUntil[w] =>
         /\ verifiedUntil'[w] = 0
         /\ \E n \in Slots :
              /\ nullifierOwner[n] = w
              /\ n \in revokedNullifiers' \/ nullifierOwner'[n] # w]_vars

RecentRoots ==
  {caMerkleRoot} \cup
  {d.root : d \in {e \in displaced : now <= e.at + caRootGracePeriod}}

\* A wallet gains time only from a certificate of the key behind its slot that
\* is valid at the block, not only at the timestamp of the proof; that the
\* revocation list in force does not name (if hosts give the paths of the
\* indices they claim, see CrlTree); whose CA was listed no longer ago
\* than the grace period; that meets the field constraints in force; and never
\* while the registry is paused or the slot revoked.
GrantSound ==
  [][\A w \in Addresses :
       verifiedUntil'[w] > verifiedUntil[w] =>
         /\ ~paused
         /\ lastSlot'[w] \notin revokedNullifiers
         /\ \E c \in Certs :
              /\ c.key = lastSlot'[w][1]
              /\ c.notAfter = verifiedUntil'[w]
              /\ CertValidAt(c, now)
              /\ CrlCheck(c, crlMerkleRoot)
              /\ MeetsConstraints(c, required)
              /\ \E r \in RecentRoots : PathExists(c.issuer, r)]_vars

Ledger == INSTANCE IdentityLedger
            WITH credential <- [w \in Addresses |-> Credential(w)],
                 banned <- revokedNullifiers

\* The registry implements the abstract ledger: one wallet per slot, and no
\* wallet on a banned slot, through every interleaving of users and owner.
ImplementsLedger == Ledger!Spec
=============================================================================
