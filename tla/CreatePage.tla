----------------------------- MODULE CreatePage -----------------------------
(***************************************************************************)
(* The page that deploys a registry (frontend/app/create/page.tsx): it     *)
(* reads the fee of the factory once per connection and the decimals of    *)
(* its token whenever that changes, collects the form,                     *)
(* and on a click runs a sequence of wallet requests, transactions and a   *)
(* signed save to the backend.  Meanwhile the owner of the factory may     *)
(* change the fee, the user may edit the form, which is not locked, leave  *)
(* the page, which stops nothing, or disconnect.                           *)
(* The factory is reduced to _collectFee (RegistryFactory.tla has it all). *)
(***************************************************************************)
EXTENDS Integers, FiniteSets, Null

CONSTANTS
  Native, Erc20s,    \* what fees are paid in: ether, or one of these tokens
  UnitOf,            \* what the smallest unit of each counts in an amount on screen
  Charges,           \* what the factory may ask for: fees in the one or the other
  Limits,            \* wallets per certificate that the form can ask for
  Tags, MinWallets,  \* the use cases and the wallets they need
  MaxAttempts, MaxMoves   \* bounds: clicks on deploy, after the last of which the page
                          \* reads no fee; edits of the form, fee changes, leaving and
                          \* disconnecting together

FeeConfig == [token : {Native} \cup Erc20s, fee : Nat]

ASSUME CreateAssumption ==
  /\ Native \notin Erc20s /\ None \notin {Native} \cup Erc20s
  /\ UnitOf \in [{Native} \cup Erc20s -> Nat]
  /\ Charges \subseteq FeeConfig /\ Limits \subseteq Nat /\ 1 \in Limits
  /\ MinWallets \in [Tags -> Nat]
  /\ {MaxAttempts, MaxMoves} \subseteq Nat

VARIABLES
  config,        \* factory: feeToken and registryCreationFee
  allowance,     \* what the factory may take of each of the user's tokens
  registries,    \* registries created, with the attempt that made them and what it paid
  directory,     \* backend: registries listed, with their tags
  ready,         \* there is an account, a chain and a provider
  feeReads,      \* reads of the fee on their way
  feeToken, creationFee, feeLoading, feeError,
  metaReads,     \* for each token, reads of its metadata on their way
  tokenUnit,     \* tokenDecimals, by the unit they stand for
  metadataError,
  metaCrossed,   \* history: the last of these reads met another
  newForm,       \* form: name given, limit, tags; history: the limit was lowered under a tag
  status,        \* txStatus, and newRegistryAddress
  attempts,      \* runs of handleDeploy
  clicks, moves,     \* counted for the bounds
  lost,          \* history: attempts whose confirmation did not arrive
  approvals      \* history: what attempts had the factory approved for

metaVars == <<metaReads, tokenUnit, metadataError, metaCrossed>>
feeVars == <<feeReads, feeToken, creationFee, feeLoading, feeError, metaVars>>
chainVars == <<config, allowance, registries, approvals>>
userVars == <<ready, newForm, clicks, moves>>
createVars == <<chainVars, directory, feeVars, userVars, status, attempts, lost>>

Idle == [phase |-> "idle", registry |-> None]
EmptyForm == [named |-> FALSE, limit |-> 1, tags |-> {}, lowered |-> FALSE]
NewRead == [token |-> None, fee |-> None]

CreateInit ==
  /\ config \in Charges /\ allowance = [t \in Erc20s |-> 0] /\ registries = {} /\ directory = {}
  /\ ready = TRUE /\ feeReads = {NewRead}
  /\ feeToken = Native /\ creationFee = 0 /\ feeLoading = TRUE /\ feeError = FALSE
  /\ metaReads = [t \in Erc20s |-> 0] /\ tokenUnit = UnitOf[Native]
  /\ metadataError = FALSE /\ metaCrossed = FALSE
  /\ newForm = EmptyForm /\ status = Idle
  /\ attempts = {} /\ lost = {} /\ approvals = {}
  /\ clicks = 0 /\ moves = 0

Move == moves < MaxMoves /\ moves' = moves + 1

(* -- the factory -- *)

SetFeeConfig(c) ==
  /\ Move
  /\ c # config /\ config' = c
  /\ UNCHANGED <<allowance, registries, approvals, directory, feeVars, ready, newForm, clicks,
                 status, attempts, lost>>

\* _collectFee takes the fee of a call with this value, or refuses.
Collects(value) ==
  CASE config.fee = 0 -> value = 0
    [] config.fee > 0 /\ config.token = Native -> value >= config.fee
    [] config.fee > 0 /\ config.token \in Erc20s ->
         value = 0 /\ allowance[config.token] >= config.fee

(* -- the fee on the page -- *)

MetaUnderWay == \E t \in Erc20s : metaReads[t] > 0

\* The effect that reads symbol and decimals, when token or provider have changed; the
\* reads on their way are not cancelled.
ReadMetadata(token) ==
  IF token = Native THEN UNCHANGED <<metaReads, metaCrossed>>
  ELSE /\ metaReads' = [metaReads EXCEPT ![token] = @ + 1]
       /\ metaCrossed' = MetaUnderWay

\* The wallet disconnects or connects again: the page stays, its effect runs again and
\* a read on its way is not cancelled.
DisconnectWallet ==
  /\ ready /\ Move
  /\ ready' = FALSE /\ feeLoading' = TRUE /\ feeError' = FALSE
  /\ UNCHANGED <<chainVars, directory, feeReads, feeToken, creationFee, metaVars, newForm,
                 clicks, status, attempts, lost>>

Connect ==
  /\ ~ready /\ ready' = TRUE
  /\ feeReads' = feeReads \cup {NewRead}
  /\ feeLoading' = TRUE /\ feeError' = FALSE
  /\ ReadMetadata(feeToken)
  /\ UNCHANGED <<chainVars, directory, feeToken, creationFee, tokenUnit, metadataError,
                 newForm, clicks, moves, status, attempts, lost>>

\* feeToken() and registryCreationFee() are two calls: each is answered on its own.
ReadAnswered(r) ==
  /\ r \in feeReads /\ clicks < MaxAttempts
  /\ \E part \in {"token", "fee"} :
       /\ r[part] = None
       /\ feeReads' = (feeReads \ {r}) \cup {[r EXCEPT ![part] = config[part]]}
  /\ UNCHANGED <<chainVars, directory, feeToken, creationFee, feeLoading, feeError, metaVars,
                 userVars, status, attempts, lost>>

FeeLoaded(r) ==
  /\ r \in feeReads /\ r.token # None /\ r.fee # None
  /\ feeReads' = feeReads \ {r}
  /\ feeToken' = r.token /\ creationFee' = r.fee /\ feeLoading' = FALSE
  /\ IF ready /\ r.token # feeToken THEN ReadMetadata(r.token)
     ELSE UNCHANGED <<metaReads, metaCrossed>>
  /\ UNCHANGED <<chainVars, directory, feeError, tokenUnit, metadataError, userVars, status,
                 attempts, lost>>

FeeFails(r) ==
  /\ r \in feeReads
  /\ feeReads' = feeReads \ {r} /\ feeError' = TRUE /\ feeLoading' = FALSE
  /\ UNCHANGED <<chainVars, directory, feeToken, creationFee, metaVars, userVars, status,
                 attempts, lost>>

MetadataAnswered(t) ==
  /\ metaReads[t] > 0 /\ clicks < MaxAttempts
  /\ metaReads' = [metaReads EXCEPT ![t] = @ - 1]
  /\ \/ tokenUnit' = UnitOf[t] /\ metadataError' = FALSE
     \/ metadataError' = TRUE /\ UNCHANGED tokenUnit
  /\ UNCHANGED <<chainVars, directory, feeReads, feeToken, creationFee, feeLoading, feeError,
                 metaCrossed, userVars, status, attempts, lost>>

\* feeDisplay, formatUnits with the decimals the page has.
FeeDisplay == creationFee * (IF feeToken = Native THEN UnitOf[Native] ELSE tokenUnit)

\* Is that the fee as it is?  After metadataError the page shows the error instead, and
\* before the metadata arrive, or after reads that crossed, what was left behind.
FeeTold ==
  /\ ~metadataError
  /\ feeToken # Native => ~MetaUnderWay /\ ~metaCrossed

(* -- the form -- *)

EditForm(f) ==
  /\ ready /\ Move
  /\ newForm' = f
  /\ UNCHANGED <<chainVars, directory, feeVars, ready, clicks, status, attempts, lost>>

SetName == ~newForm.named /\ EditForm([newForm EXCEPT !.named = TRUE])

\* The tags chosen before stay, even those that need more wallets.
SetMaxWallets(n) ==
  /\ n # newForm.limit
  /\ EditForm([newForm EXCEPT !.limit = n,
                       !.lowered = @ \/ \E t \in newForm.tags : MinWallets[t] > n])

ToggleUseCase(t) ==
  /\ newForm.limit >= MinWallets[t] \/ t \in newForm.tags
  /\ EditForm([newForm EXCEPT !.tags = IF t \in @ THEN @ \ {t} ELSE @ \cup {t}])

(* -- handleDeploy -- *)

\* The metadata and their error do not matter to it.
CanDeploy ==
  /\ newForm.named /\ newForm.limit > 0
  /\ ~feeLoading /\ ~feeError
  /\ status.phase \notin {"pending", "confirming"}

Deploy ==
  /\ ready /\ CanDeploy /\ clicks < MaxAttempts
  /\ clicks' = clicks + 1
  /\ attempts' = attempts \cup
       {[n |-> clicks + 1, here |-> TRUE, token |-> feeToken, fee |-> creationFee,
         form |-> newForm, shown |-> FeeDisplay, told |-> FeeTold,
         step |-> IF feeToken # Native /\ creationFee > 0 THEN "allowance" ELSE "create"]}
  /\ status' = [phase |-> "pending", registry |-> None]
  /\ UNCHANGED <<chainVars, directory, feeVars, ready, newForm, moves, lost>>

\* A state update of a page that was left has no effect.
ShowStatus(a, phase, registry) ==
  status' = IF a.here THEN [phase |-> phase, registry |-> registry] ELSE status

Goes(a, step) == attempts' = (attempts \ {a}) \cup {[a EXCEPT !.step = step]}
Ends(a) == attempts' = attempts \ {a}

\* Mutant: the factory is approved for any amount.
ApproveAll(a) == 100

\* What the factory is approved for: the fee the page has read.
Approval(a) == a.fee

ReadAllowance(a) ==
  /\ a \in attempts /\ a.step = "allowance"
  /\ Goes(a, IF allowance[a.token] < a.fee THEN "approve" ELSE "create")
  /\ UNCHANGED <<chainVars, directory, feeVars, userVars, status, lost>>

\* The approval is signed, mined and waited for; the wait may fail when it is mined.
Approve(a) ==
  /\ a \in attempts /\ a.step = "approve"
  /\ allowance' = [allowance EXCEPT ![a.token] = Approval(a)]
  /\ approvals' = approvals \cup {[n |-> a.n, token |-> a.token, fee |-> Approval(a)]}
  /\ \/ Goes(a, "create") /\ UNCHANGED status
     \/ Ends(a) /\ ShowStatus(a, "error", None)
  /\ UNCHANGED <<config, registries, directory, feeVars, userVars, lost>>

\* The user refuses in the wallet, or a call fails before anything is sent: an approval
\* that was mined before stays.
DeployRefused(a) ==
  /\ a \in attempts /\ a.step \in {"allowance", "approve", "create"}
  /\ Ends(a)
  /\ \/ a.step # "allowance" /\ ShowStatus(a, "idle", None)
     \/ ShowStatus(a, "error", None)
  /\ UNCHANGED <<chainVars, directory, feeVars, userVars, lost>>

Send(a) ==
  /\ a \in attempts /\ a.step = "create"
  /\ Goes(a, "confirming") /\ ShowStatus(a, "confirming", None)
  /\ UNCHANGED <<chainVars, directory, feeVars, userVars, lost>>

MsgValue(a) == IF a.token = Native THEN a.fee ELSE 0

\* Mutant: the page reports success without waiting for the receipt.
SuccessAtOnce(a) == status' = [phase |-> "success", registry |-> a.n]

\* A reverted transaction makes wait throw.
ShowReverted(a) == ShowStatus(a, "error", None)

\* createRegistry is mined: the factory collects and creates, or the call reverts.  The
\* page sees the receipt unless its wait fails: then it reports an error all the same.
Mined(a) ==
  /\ a \in attempts /\ a.step = "confirming"
  /\ IF Collects(MsgValue(a))
     THEN /\ registries' = registries \cup
               {[n |-> a.n, limit |-> a.form.limit, paid |-> config,
                 token |-> a.token, shown |-> a.shown, told |-> a.told,
                 lowered |-> a.form.lowered]}
          /\ allowance' = IF config.token = Native THEN allowance
                          ELSE [allowance EXCEPT ![config.token] = @ - config.fee]
          /\ \/ Goes(a, "save") /\ ShowStatus(a, "success", a.n) /\ UNCHANGED lost
             \/ Ends(a) /\ ShowStatus(a, "error", None) /\ lost' = lost \cup {a.n}
     ELSE /\ Ends(a) /\ ShowReverted(a)
          /\ UNCHANGED <<registries, allowance, lost>>
  /\ UNCHANGED <<config, approvals, directory, feeVars, userVars>>

\* Mutant: the tags are those on the form when the receipt arrives.
TagsNow(a) == newForm.tags

\* The tags that are saved: those of the click.
TagsOf(a) == a.form.tags

\* The save is signed and sent; it is best effort: one that fails never gets here, and
\* changes nothing.
Saved(a) ==
  /\ a \in attempts /\ a.step = "save"
  /\ Ends(a)
  /\ directory' = directory \cup {[n |-> a.n, tags |-> TagsOf(a)]}
  /\ UNCHANGED <<chainVars, feeVars, userVars, status, lost>>

\* The page is left and opened again: its state is new, what runs goes on.
Revisit ==
  /\ Move
  /\ newForm' = EmptyForm /\ status' = Idle
  /\ feeReads' = IF ready THEN {NewRead} ELSE {}
  /\ feeToken' = Native /\ creationFee' = 0 /\ feeLoading' = TRUE /\ feeError' = FALSE
  /\ metaReads' = [t \in Erc20s |-> 0] /\ tokenUnit' = UnitOf[Native]
  /\ metadataError' = FALSE /\ metaCrossed' = FALSE
  /\ attempts' = {[a EXCEPT !.here = FALSE] : a \in attempts}
  /\ UNCHANGED <<chainVars, directory, ready, clicks, lost>>

CreateNext ==
  \/ DisconnectWallet \/ Connect \/ Deploy \/ Revisit \/ SetName
  \/ \E c \in Charges : SetFeeConfig(c)
  \/ \E r \in feeReads : ReadAnswered(r) \/ FeeLoaded(r) \/ FeeFails(r)
  \/ \E t \in Erc20s : MetadataAnswered(t)
  \/ \E n \in Limits : SetMaxWallets(n)
  \/ \E t \in Tags : ToggleUseCase(t)
  \/ \E a \in attempts : ReadAllowance(a) \/ Approve(a) \/ DeployRefused(a) \/ Send(a)
                         \/ Mined(a) \/ Saved(a)

CreateSpec == CreateInit /\ [][CreateNext]_createVars

-----------------------------------------------------------------------------
\* Whatever happens to the fee while the page is open, while the calls that read it and
\* its decimals are answered and until the transaction is mined, nobody pays more than the
\* amount on screen at the click or in another token.  Three exceptions, which the page
\* lets through: the click came when it showed an error for the metadata or before their
\* last read was answered on its own (told), or the tokens were approved by another
\* attempt, one that stopped after its approval or still runs behind a page that was left.
PaidAsShown ==
  \A r \in registries : r.told /\ r.paid.fee > 0 =>
    \/ r.paid.token = r.token /\ r.paid.fee * UnitOf[r.paid.token] <= r.shown
    \/ \E p \in approvals :
         p.n # r.n /\ p.token = r.paid.token /\ r.paid.fee <= p.fee

\* A registry is listed under use cases that its wallet limit allows, although the form
\* can be edited while the transaction runs; unless the limit was lowered after the use
\* case was chosen, which the form accepts.
ListedTagsFit ==
  \A l \in directory, r \in registries :
    l.n = r.n /\ ~r.lowered => \A t \in l.tags : MinWallets[t] <= r.limit

\* The outcome on screen is that of the latest click: a success names its registry, and
\* an error means that it made none, unless the confirmation was lost.  An idle form says
\* nothing: the page that is opened again is idle while an earlier click runs on.
OutcomeShown ==
  /\ status.phase = "success" => /\ status.registry = clicks
                                 /\ \E r \in registries : r.n = clicks
  /\ status.phase = "error" => \A r \in registries : r.n = clicks => r.n \in lost
=============================================================================
