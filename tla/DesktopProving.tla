--------------------------- MODULE DesktopProving ---------------------------
(***************************************************************************)
(* The desktop wizard (desktop/src): Connect, Certificate, Configure,      *)
(* Prove, over the Tauri commands it calls (desktop/src-tauri/src).        *)
(*                                                                         *)
(* The four steps share one reducer state; a step's component is mounted   *)
(* when the wizard enters it.  Calls to Rust are answered later, whatever  *)
(* the user has done in the meantime, and write into the shared state.     *)
(* The Rust side keeps the scanned identities in a store of its own, which *)
(* a proof reads by index.                                                 *)
(*                                                                         *)
(* An address stands for a registry behind one RPC URL and chain id, the   *)
(* wallet index also for the registrant and the disclosure mask, "local"   *)
(* for the modes execute and groth16.  The two CA stages are part of       *)
(* "signing".                                                              *)
(***************************************************************************)
EXTENDS Integers, Sequences, Parties, KeyStore

CONSTANTS
  Config,         \* [Registries -> [required, prover, maxWallets]]
  NoRegistry, NoInfo, NoUrl, NoCert,
  MaxCalls        \* bound: commands called

ASSUME DesktopAssumption == MaxCalls \in Nat

VARIABLES
  step, registryAddress, registryInfo, dockerAvailable,
  certificates, selectedCertIndex, walletIndex, proofMode,
  proofStatus, proofProgress, proofResult, wizardLoading,
  params,       \* paramsRef of the mounted ProveStep
  listening,    \* its progress listener is registered
  seenStages,
  connects,     \* registries asked for and not answered
  scans,        \* listings of the scans called and not answered
  store,        \* IdentityStore
  calls,
  jobs,         \* proofs being made
  agreed,       \* history: provers agreed to since the last reset
  sent,         \* history: provers the certificate went to since then
  remounted,    \* history: a delegated ProveStep was mounted after a proof
  confirmed,    \* history: the certificate shown as selected on leaving its step
  scanOverlap   \* history: a scan was in flight then

connectVars == <<registryAddress, registryInfo, dockerAvailable, connects>>
certVars == <<certificates, selectedCertIndex, scans, store, confirmed, scanOverlap>>
configVars == <<walletIndex, proofMode>>
proofVars == <<proofStatus, proofProgress, proofResult>>
mountVars == <<params, listening, seenStages>>
consentVars == <<agreed, sent, remounted>>
wizardVars == <<step, wizardLoading, calls, connectVars, certVars, configVars, proofVars, mountVars,
          jobs, consentVars>>

Indices == 1..2
Modes == {"local", "delegated"}

\* The stages a proof reports; a delegated one that cannot encrypt sends plainly.
Path(mode, way) ==
  IF mode = "local"
  THEN <<"signing", "proving", "done">>
  ELSE <<"consent", "signing", way, "proving", "done">>

WizardInit ==
  /\ step = 0 /\ wizardLoading = FALSE /\ calls = 0
  /\ registryAddress = NoRegistry /\ registryInfo = NoInfo
  /\ dockerAvailable = FALSE /\ connects = {}
  /\ certificates = << >> /\ selectedCertIndex = None
  /\ scans = << >> /\ store = << >>
  /\ confirmed = NoCert /\ scanOverlap = FALSE
  /\ walletIndex = 0 /\ proofMode = "local"
  /\ proofStatus = "idle" /\ proofProgress = None /\ proofResult = None
  /\ params = None /\ listening = FALSE /\ seenStages = {}
  /\ jobs = {}
  /\ agreed = {} /\ sent = {} /\ remounted = FALSE

\* Leaving ProveStep unmounts it; a proof it started goes on.
Unmount ==
  /\ params' = None /\ listening' = FALSE /\ seenStages' = {}
  /\ jobs' = {[j EXCEPT !.mounted = FALSE] : j \in jobs}

\* A command is called.
CountCall == calls < MaxCalls /\ calls' = calls + 1

PrevStep == step' = step - 1 /\ Unmount

Reset ==
  /\ step' = 0 /\ wizardLoading' = FALSE
  /\ registryAddress' = NoRegistry /\ registryInfo' = NoInfo /\ dockerAvailable' = FALSE
  /\ certificates' = << >> /\ selectedCertIndex' = None
  /\ walletIndex' = 0 /\ proofMode' = "local"
  /\ proofStatus' = "idle" /\ proofProgress' = None /\ proofResult' = None
  /\ Unmount
  /\ agreed' = {} /\ sent' = {} /\ remounted' = FALSE
  /\ UNCHANGED <<calls, connects, scans, store, confirmed, scanOverlap>>

\* The Reset button of the header.
ResetButton == step > 0 /\ proofStatus # "proving" /\ Reset

(* -- Connect -- *)

EditAddress(r) ==
  /\ step = 0
  /\ registryAddress' = r
  /\ UNCHANGED <<step, calls, wizardLoading, registryInfo, dockerAvailable, connects, certVars,
                 configVars, proofVars, mountVars, jobs, consentVars>>

ConnectRegistry ==
  /\ step = 0 /\ ~wizardLoading /\ registryAddress # NoRegistry
  /\ CountCall
  /\ wizardLoading' = TRUE
  /\ connects' = connects \cup {registryAddress}
  /\ UNCHANGED <<step, registryAddress, registryInfo, dockerAvailable, certVars,
                 configVars, proofVars, mountVars, jobs, consentVars>>

\* What configure_settings may answer; a delegation it cannot read is none.
Settings(r) ==
  {Config[r], [required |-> FALSE, prover |-> NoUrl, maxWallets |-> Config[r].maxWallets]}

ConnectAnswered(r) ==
  /\ r \in connects
  /\ connects' = connects \ {r}
  /\ wizardLoading' = FALSE
  /\ \/ UNCHANGED <<registryInfo, dockerAvailable, proofMode>>    \* an error
     \/ \E info \in Settings(r), docker \in BOOLEAN :
          /\ registryInfo' = info
          /\ dockerAvailable' = docker
          /\ proofMode' = IF info.required THEN "delegated" ELSE proofMode
  /\ UNCHANGED <<step, calls, registryAddress, certVars, walletIndex, proofVars,
                 mountVars, jobs, consentVars>>

DockerBlocking == registryInfo.prover = NoUrl /\ ~registryInfo.required /\ ~dockerAvailable

ConnectNext ==
  /\ step = 0 /\ registryInfo # NoInfo /\ ~DockerBlocking
  /\ step' = 1
  /\ UNCHANGED <<wizardLoading, calls, connectVars, certVars, configVars, proofVars, mountVars, jobs,
                 consentVars>>

(* -- Certificate -- *)

\* Mutant: guard.extend(identities) for the assignment.
StoredAfterOld(found) == store \o found

\* What scan_certificates leaves in the store.
Stored(found) == found

Scan ==
  /\ step = 1 /\ ~wizardLoading /\ CountCall
  /\ wizardLoading' = TRUE
  /\ \E found \in Listings : store' = Stored(found) /\ scans' = Append(scans, found)
  /\ UNCHANGED <<step, connectVars, certificates, selectedCertIndex, confirmed, scanOverlap,
                 configVars, proofVars, mountVars, jobs, consentVars>>

ScanAnswered ==
  /\ scans # << >>
  /\ scans' = Tail(scans)
  /\ wizardLoading' = FALSE
  /\ certificates' = Head(scans)
  /\ selectedCertIndex' = IF Len(Head(scans)) = 1 THEN 1 ELSE None
  /\ UNCHANGED <<step, calls, connectVars, store, confirmed, scanOverlap, configVars, proofVars,
                 mountVars, jobs, consentVars>>

Select(i) ==
  /\ step = 1 /\ i \in DOMAIN certificates
  /\ selectedCertIndex' = i
  /\ UNCHANGED <<step, calls, wizardLoading, connectVars, certificates, scans, store, confirmed,
                 scanOverlap, configVars, proofVars, mountVars, jobs, consentVars>>

CertificateNext ==
  /\ step = 1 /\ selectedCertIndex # None
  /\ step' = 2
  /\ confirmed' = certificates[selectedCertIndex]
  /\ scanOverlap' = (scans # << >>)
  /\ UNCHANGED <<wizardLoading, calls, connectVars, certificates, selectedCertIndex, scans, store,
                 configVars, proofVars, mountVars, jobs, consentVars>>

(* -- Configure -- *)

\* The field is there only for registries of several wallets.
SetWalletIndex(n) ==
  /\ step = 2 /\ registryInfo.maxWallets > 1 /\ walletIndex' = n
  /\ UNCHANGED <<step, calls, wizardLoading, connectVars, certVars, proofMode, proofVars,
                 mountVars, jobs, consentVars>>

ChooseMode(mode) ==
  /\ step = 2 /\ ~registryInfo.required
  /\ mode = "delegated" => registryInfo.prover # NoUrl
  /\ proofMode' = mode
  /\ UNCHANGED <<step, calls, wizardLoading, connectVars, certVars, walletIndex, proofVars,
                 mountVars, jobs, consentVars>>

CanProceed == walletIndex < registryInfo.maxWallets

(* -- Prove -- *)

Snapshot ==
  [mode |-> proofMode, cert |-> selectedCertIndex, registry |-> registryAddress,
   walletIndex |-> walletIndex, prover |-> registryInfo.prover]

ConsentGiven(mode) == mode = "local" \/ proofStatus # "idle"

\* seenStages once proofProgress has been cleared.
SeenAtStart == {}

\* startProof with parameters p; provingRef stops a second one of the same mount.
StartProof(p) ==
  /\ \A j \in jobs : ~j.mounted
  /\ CountCall
  /\ proofStatus' = "proving" /\ proofProgress' = None /\ proofResult' = None
  /\ seenStages' = SeenAtStart
  /\ \E way \in IF p.mode = "local" THEN {"none"} ELSE {"encrypting", "sending"} :
       jobs' = jobs \cup {[params |-> p, cert |-> NoCert, at |-> 0,
                           path |-> Path(p.mode, way), mounted |-> TRUE]}

\* Mutant: the effect starts the proof in every mode.
StartsInEveryMode(mode) == TRUE

\* Mutant: a proof is started only in a fresh session.
StartsOnce(mode) == mode = "local" /\ proofStatus = "idle"

\* A local proof starts when ProveStep is mounted, a delegated one waits.
StartsOnMount(mode) == mode = "local"

GenerateProof ==
  /\ step = 2 /\ CanProceed
  /\ step' = 3
  /\ params' = Snapshot /\ listening' = FALSE
  /\ IF StartsOnMount(proofMode)
     THEN StartProof(Snapshot)
     ELSE /\ seenStages' = {proofProgress} \ {None}
          /\ UNCHANGED <<calls, proofVars, jobs>>
  /\ remounted' = (remounted \/ (proofMode = "delegated" /\ proofStatus # "idle"))
  /\ UNCHANGED <<wizardLoading, connectVars, certVars, configVars, agreed, sent>>

ListenerRegistered ==
  /\ step = 3 /\ ~listening
  /\ listening' = TRUE
  /\ UNCHANGED <<step, calls, wizardLoading, connectVars, certVars, configVars, proofVars, params,
                 seenStages, jobs, consentVars>>

\* "I Agree & Continue" of the consent gate.
Agree ==
  /\ step = 3 /\ ~ConsentGiven(params.mode) /\ params.prover # NoUrl
  /\ StartProof(params)
  /\ agreed' = agreed \cup {params.prover}
  /\ UNCHANGED <<step, wizardLoading, connectVars, certVars, configVars, params, listening, sent,
                 remounted>>

Retry ==
  /\ step = 3 /\ ConsentGiven(params.mode) /\ proofStatus = "error"
  /\ StartProof(params)
  /\ UNCHANGED <<step, wizardLoading, connectVars, certVars, configVars, params, listening,
                 consentVars>>

StartOver == step = 3 /\ proofStatus = "done" /\ Reset

\* Back or Decline; the view of a running proof has neither.
Back ==
  /\ step > 0
  /\ step = 3 => proofStatus # "proving"
  /\ PrevStep
  /\ UNCHANGED <<wizardLoading, calls, connectVars, certVars, configVars, proofVars, consentVars>>

(* -- generate_proof and delegated_prove -- *)

\* The answer of a proof: setField works after an unmount too.
Answer(j, status, result) ==
  /\ jobs' = jobs \ {j}
  /\ proofStatus' = status
  /\ proofResult' = result
  /\ UNCHANGED <<step, calls, wizardLoading, connectVars, certVars, configVars, proofProgress, mountVars,
                 consentVars>>

ReadStore(j) ==
  /\ j.cert = NoCert /\ j.params.cert \in DOMAIN store
  /\ jobs' = (jobs \ {j}) \cup {[j EXCEPT !.cert = store[j.params.cert]]}
  /\ UNCHANGED <<step, calls, wizardLoading, connectVars, certVars, configVars, proofVars, mountVars,
                 consentVars>>

\* The next stage is reported; after "proving" a delegated proof posts the certificate.
ReachStage(j) ==
  /\ j.cert # NoCert /\ j.at < Len(j.path)
  /\ LET stage == j.path[j.at + 1] IN
     /\ jobs' = (jobs \ {j}) \cup {[j EXCEPT !.at = @ + 1]}
     /\ proofProgress' = IF listening THEN stage ELSE proofProgress
     /\ seenStages' = IF listening THEN seenStages \cup {stage} ELSE seenStages
     /\ sent' = IF stage = "proving" /\ j.params.mode = "delegated"
                THEN sent \cup ({j.params.prover} \ {NoUrl}) ELSE sent
  /\ UNCHANGED <<step, calls, wizardLoading, connectVars, certVars, configVars, proofStatus, proofResult,
                 params, listening, agreed, remounted>>

ProofMade(j) == j.at = Len(j.path) /\ Answer(j, "done", [params |-> j.params, cert |-> j.cert])

\* No certificate at the index, an unreadable chain, a refusing circuit or prover.
ProofFailed(j) == j.at < Len(j.path) /\ Answer(j, "error", proofResult)

WizardNext ==
  \/ ResetButton \/ ConnectRegistry \/ ConnectNext \/ Scan \/ ScanAnswered \/ CertificateNext
  \/ GenerateProof \/ ListenerRegistered \/ Agree \/ Retry \/ StartOver \/ Back
  \/ \E r \in Registries : EditAddress(r) \/ ConnectAnswered(r)
  \/ \E i \in Indices : Select(i)
  \/ \E n \in 0..1 : SetWalletIndex(n)
  \/ \E mode \in Modes : ChooseMode(mode)
  \/ \E j \in jobs : ReadStore(j) \/ ReachStage(j) \/ ProofMade(j) \/ ProofFailed(j)

WizardSpec == WizardInit /\ [][WizardNext]_wizardVars

-----------------------------------------------------------------------------
\* ProveStep.tsx:125-127: delegated proving "requires explicit consent before any
\* data leaves the device": a prover gets the certificate only once agreed to.
ConsentBeforeSend == sent \subseteq agreed

\* ProveStep.tsx:133 takes consent from proofStatus: the claim holds as long as no
\* delegated ProveStep is mounted after another proof of the session.
ConsentUnlessRemounted == remounted \/ ConsentBeforeSend

\* A result on screen was made for the parameters on screen, whatever was changed
\* and retried in between; a delegated step mounted again shows the old one.
ShownResultCurrent ==
  step = 3 /\ proofStatus = "done" =>
    proofResult.params = params \/ (params.mode = "delegated" /\ remounted)

\* A proof uses the certificate the user saw selected (an index into a store that
\* scans replace), unless a scan was running when the user left the list.
CertificateAsShown ==
  \A j \in jobs : j.cert # NoCert => j.cert = confirmed \/ scanOverlap
=============================================================================
