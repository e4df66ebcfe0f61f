----------------------------- MODULE ZkCircuit -----------------------------
(***************************************************************************)
(* The statement proved in the zkVM (program/src/main.rs): which public    *)
(* values can be committed for a certificate and a choice of host inputs.  *)
(* Every host input is free, so a proof may claim any timestamp, wallet    *)
(* index, root or domain; the circuit binds them only as stated here.      *)
(*                                                                         *)
(* Signatures and hashes are perfect.  A nullifier is the hash of the      *)
(* key's signature over the registry and chain; the hosts sign             *)
(* deterministically, so it is a term of the key, the domain and the index.*)
(***************************************************************************)
EXTENDS CaMerkle

CONSTANTS
  Keys,           \* certificate key pairs
  Certs,          \* certificates, see CertificateAssumption
  Fields,         \* disclosable subject fields
  Values,         \* values of those fields
  NoValue,        \* bytes32(0): field absent, hidden or unconstrained
  CrlRoots,       \* sorted Merkle roots of revoked serials, as sets of serials
  NoCrl,          \* bytes32(0): CRL checking disabled
  Domains,        \* pairs of a registry address and a chain id
  Programs,       \* verification keys: one per build of the circuit
  Addresses,      \* wallets
  WalletIndices,  \* indices a host may claim
  ProofTimes,     \* timestamps a host may claim
  CrlPathsAsClaimed \* do hosts give the CRL paths of the indices they claim?

FieldConstraints == [Fields -> Values \cup {NoValue}]

\* Renewing a certificate keeps its key and gives it a new serial.
ASSUME CertificateAssumption ==
  Certs \subseteq [key: Keys, serial: Nat, issuer: Cas,
                   notBefore: Nat, notAfter: Nat, subject: FieldConstraints]

ASSUME CrlAssumption ==
  /\ NoCrl \notin CrlRoots
  /\ CrlRoots \subseteq SUBSET Nat
  /\ CrlPathsAsClaimed \in BOOLEAN

ASSUME InputAssumption ==
  ProofTimes \subseteq Nat /\ WalletIndices \subseteq Nat

HostInputs ==
  [registrant: Addresses, walletIndex: WalletIndices, timestamp: ProofTimes,
   mask: SUBSET Fields, required: FieldConstraints, caMerkleRoot: Roots,
   domain: Domains, crlMerkleRoot: CrlRoots \cup {NoCrl}, program: Programs]

(* assert_cert_valid_at *)
CertValidAt(c, ts) == c.notBefore <= ts /\ ts <= c.notAfter

NotRevoked(c, crlRoot) == crlRoot = NoCrl \/ c.serial \notin crlRoot

(* Step 4b.  What the circuit accepts is not revoked as long as the paths lead
   to the indices claimed for them (CrlTree); the circuit itself compares the
   two indices with each other only. *)
CrlCheck(c, crlRoot) == CrlPathsAsClaimed => NotRevoked(c, crlRoot)

(* Step 9: every non-zero required value is the certificate's value. *)
MeetsConstraints(c, required) ==
  \A f \in Fields : required[f] \in {NoValue, c.subject[f]}

(* Step 6. *)
Nullifier(key, domain, walletIndex) == <<key, domain, walletIndex>>

(* The assertions of main(), in the order of its steps.  wallet_index <
   max_wallets is left out: max_wallets is a free input and not committed. *)
Satisfied(c, x) ==
  /\ CertValidAt(c, x.timestamp)
  /\ CrlCheck(c, x.crlMerkleRoot)
  /\ PathExists(c.issuer, x.caMerkleRoot)
  /\ MeetsConstraints(c, x.required)

Commit(c, x) ==
  [nullifier      |-> Nullifier(c.key, x.domain, x.walletIndex),
   caMerkleRoot   |-> x.caMerkleRoot,
   proofTimestamp |-> x.timestamp,
   registrant     |-> x.registrant,
   walletIndex    |-> x.walletIndex,
   notAfter       |-> c.notAfter,
   domain         |-> x.domain,
   crlMerkleRoot  |-> x.crlMerkleRoot,
   disclosed      |-> [f \in Fields |->
                         IF f \in x.mask THEN c.subject[f] ELSE NoValue],
   required       |-> x.required,
   program        |-> x.program]

(* All the public values some proof exists for. *)
ProvableValues == {Commit(p[1], p[2]) : p \in
                     {q \in Certs \X HostInputs : Satisfied(q[1], q[2])}}
=============================================================================
