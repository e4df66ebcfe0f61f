-------------------------- MODULE DelegatedProver --------------------------
(***************************************************************************)
(* Proving by a service: the signing server beside the user's key store    *)
(* (script/src/bin/server.rs) signs consent, ownership and nullifier       *)
(* challenges by the index of a certificate; the prover server             *)
(* (script/src/bin/prover-server.rs) checks the consent, proves, writes    *)
(* the compliance log and answers; the registry takes the proof later.     *)
(*                                                                         *)
(* The program that asks for the signatures is external: it asks in any    *)
(* order, keeps what it has got, and may send parts that do not belong     *)
(* together.  One prover, one registry and one wallet index are modelled.  *)
(* Requests that a server refuses change nothing and are not steps.        *)
(***************************************************************************)
EXTENDS Integers, Sequences, Parties, KeyStore

CONSTANTS
  ConsentAge,     \* seconds a consent may be off the server's clock
  MaxProofAge,    \* maxProofAge of the registry
  MaxClock,       \* bound: last value of the clock
  MaxSigning      \* bound: requests the user starts, and calls of the signing server

ASSUME DelegationAssumption ==
  {ConsentAge, MaxProofAge, MaxClock, MaxSigning} \subseteq Nat

VARIABLES
  clock,
  identities,     \* AppState.identities of the signing server
  rescans,        \* scans that are not stored yet
  asked,          \* what the user has done with it
  user,           \* the request being put together: registrant, timestamp
  signed,         \* and what has been signed for it or for an earlier one
  challenge,      \* sign_ownership between its two locks
  proving,        \* requests the prover server works on
  log,            \* compliance-*.jsonl
  unlogged,       \* history: records that could not be written
  proofs,         \* proofs that have reached the user
  registered      \* registrations with them

signingVars == <<identities, rescans, asked, challenge>>
requestVars == <<user, signed>>
proverVars == <<proving, log, unlogged, proofs>>
delegationVars == <<clock, signingVars, requestVars, proverVars, registered>>

Unsigned == [der |-> None, consent |-> None, ownership |-> None, nullifier |-> None]

DelegationInit ==
  /\ clock = 0
  /\ identities \in Listings /\ rescans = {} /\ asked = 0 /\ challenge = None
  /\ user = None /\ signed = Unsigned
  /\ proving = {} /\ log = {} /\ unlogged = {} /\ proofs = {} /\ registered = {}

CountAsked == asked < MaxSigning /\ asked' = asked + 1

(* -- The signing server -- *)

\* /certs/refresh scans first and takes the lock to store afterwards.
Rescan(found) ==
  /\ CountAsked
  /\ rescans' = rescans \cup {found}
  /\ UNCHANGED <<clock, identities, challenge, requestVars, proverVars, registered>>

StoreScan(found) ==
  /\ rescans' = rescans \ {found}
  /\ identities' = found
  /\ UNCHANGED <<clock, asked, challenge, requestVars, proverVars, registered>>

Receive(part, value) == signed' = [signed EXCEPT ![part] = value]

\* get_cert_der_at_index and sign_prehash_at_index: each under the lock.
CertDer(i) ==
  /\ CountAsked
  /\ Receive("der", identities[i])
  /\ UNCHANGED <<clock, identities, rescans, challenge, user, proverVars, registered>>

SignConsent(i) ==
  /\ user # None
  /\ CountAsked
  /\ Receive("consent", [key |-> identities[i], of |-> user])
  /\ UNCHANGED <<clock, identities, rescans, challenge, user, proverVars, registered>>

SignNullifier(i) ==
  /\ CountAsked
  /\ Receive("nullifier", identities[i])
  /\ UNCHANGED <<clock, identities, rescans, challenge, user, proverVars, registered>>

\* sign_ownership reads the certificate, lets go of the lock, hashes, and asks for the
\* key at the same index.
HashOwnership(i) ==
  /\ user # None /\ challenge = None
  /\ CountAsked
  /\ challenge' = [index |-> i, serial |-> identities[i], of |-> user]
  /\ UNCHANGED <<clock, identities, rescans, requestVars, proverVars, registered>>

SignOwnership ==
  /\ challenge # None
  /\ challenge' = None
  /\ IF challenge.index \in DOMAIN identities
       THEN Receive("ownership", [key |-> identities[challenge.index],
                                  serial |-> challenge.serial, of |-> challenge.of])
       ELSE UNCHANGED signed
  /\ UNCHANGED <<clock, identities, rescans, asked, user, proverVars, registered>>

(* -- The user, and the prover server -- *)

\* The user starts on a request, at the time of a clock that may be fast, and keeps what
\* was signed before.
Prepare(account, time) ==
  /\ CountAsked
  /\ user' = [registrant |-> account, timestamp |-> time]
  /\ UNCHANGED <<clock, identities, rescans, challenge, signed, proverVars, registered>>

Complete == user # None /\ \A part \in DOMAIN signed : signed[part] # None

Request == [of |-> user, der |-> signed.der, consent |-> signed.consent,
            ownership |-> signed.ownership, nullifier |-> signed.nullifier]

\* Mutant: the signature is compared with the message only.
ConsentRead(q) == q.consent.of = q.of

(* verify_consent: by the key of the certificate, over this request. *)
ConsentVerified(q) == q.consent.key = q.der /\ q.consent.of = q.of

ConsentFresh(q) ==
  clock - q.of.timestamp <= ConsentAge /\ q.of.timestamp - clock <= ConsentAge

Prove ==
  /\ Complete
  /\ ConsentVerified(Request) /\ ConsentFresh(Request)
  /\ proving' = proving \cup {Request}
  /\ UNCHANGED <<clock, signingVars, requestVars, log, unlogged, proofs, registered>>

(* The circuit's steps 5 and 6: both signatures are by the certificate's key. *)
CircuitAccepts(q) ==
  /\ q.ownership = [key |-> q.der, serial |-> q.der, of |-> q.of]
  /\ q.nullifier = q.der

ProofOf(q) == [of |-> q.of, nullifier |-> q.nullifier]

RecordOf(q) ==
  [registrant |-> q.of.registrant, serial |-> q.der, nullifier |-> q.nullifier,
   consent |-> q.consent]

(* log_compliance, whose errors are dropped, comes before the answer, which may get lost. *)
Proved(q) ==
  /\ CircuitAccepts(q)
  /\ proving' = proving \ {q}
  /\ \/ log' = log \cup {RecordOf(q)} /\ UNCHANGED unlogged
     \/ unlogged' = unlogged \cup {ProofOf(q)} /\ UNCHANGED log
  /\ proofs' \in {proofs, proofs \cup {ProofOf(q)}}
  /\ UNCHANGED <<clock, signingVars, requestVars, registered>>

\* The circuit panics, the prover fails, the server ends, or the user hangs up, which
\* drops the handler before its log.
NotProved(q) ==
  /\ proving' = proving \ {q}
  /\ UNCHANGED <<clock, signingVars, requestVars, log, unlogged, proofs, registered>>

(* -- The registry, and time -- *)

\* _verifyProof; the rest of a registration is IdentityRegistry.
Register(p) ==
  /\ p.of.timestamp <= clock /\ clock - p.of.timestamp <= MaxProofAge
  /\ registered' = registered \cup {[proof |-> p, at |-> clock]}
  /\ UNCHANGED <<clock, signingVars, requestVars, proverVars>>

TimePasses ==
  /\ clock < MaxClock
  /\ clock' = clock + 1
  /\ UNCHANGED <<signingVars, requestVars, proverVars, registered>>

DelegationNext ==
  \/ \E found \in Listings : Rescan(found)
  \/ \E found \in rescans : StoreScan(found)
  \/ \E i \in DOMAIN identities :
       CertDer(i) \/ SignConsent(i) \/ SignNullifier(i) \/ HashOwnership(i)
  \/ SignOwnership
  \/ \E account \in Accounts, time \in clock..(clock + ConsentAge) : Prepare(account, time)
  \/ Prove
  \/ \E q \in proving : Proved(q) \/ NotProved(q)
  \/ \E p \in proofs : Register(p)
  \/ TimePasses

DelegationSpec == DelegationInit /\ [][DelegationNext]_delegationVars

-----------------------------------------------------------------------------
\* prover-server-guide.md:144, the log is what "the admin uses to match a logged identity
\* to its registration": whoever registers with a proof of the prover is on record there,
\* with the certificate that is behind the nullifier and with a consent by its key, for
\* this wallet, which was not older than maxProofAge then; unless the disk refused the
\* record.  Certificates that change their index while they sign do not get mixed up.
RegistrantsOnRecord ==
  \A g \in registered :
    \/ g.proof \in unlogged
    \/ \E record \in log :
         /\ record.registrant = g.proof.of.registrant
         /\ record.nullifier = g.proof.nullifier /\ record.serial = g.proof.nullifier
         /\ record.consent.key = record.serial
         /\ record.consent.of.registrant = record.registrant
         /\ g.at - record.consent.of.timestamp <= MaxProofAge
=============================================================================
