-------------------------- MODULE RegistryFactory --------------------------
(***************************************************************************)
(* contracts/src/RegistryFactory.sol: the published program keys, the      *)
(* registries and the fee for creating one.                                *)
(*                                                                         *)
(* createRegistry pays the fee and refunds the excess before it writes any *)
(* state, and both payments call out: a contract that is paid may call the *)
(* factory again, or refuse the money, before the creation goes on.  So a  *)
(* creation is a frame on the call stack and each external call is a point *)
(* where others act; a frame that reverts restores the state it found.     *)
(* All other operations are one step.                                      *)
(***************************************************************************)
EXTENDS Integers, Sequences, SequencesExt

CONSTANTS
  Accounts,         \* callers and fee recipients
  Contracts,        \* the accounts that have code
  NoAddress,        \* address(0)
  Deployer,
  Candidates,       \* addresses the owner may propose as its successor
  Programs,         \* verification keys
  FirstProgram,
  Implementations,  \* IdentityRegistry implementations
  FirstImplementation,
  Native, Tokens,   \* fee tokens: address(0) for the native one, ERC-20s
  Fees,             \* fee amounts
  MaxValue,         \* bound: largest msg.value
  MaxDepth,         \* bound: nested creations
  MaxRegistries     \* bound: creations begun

ASSUME FactoryAssumption ==
  /\ NoAddress \notin Accounts
  /\ Contracts \subseteq Accounts
  /\ Deployer \in Accounts
  /\ Candidates \subseteq Accounts
  /\ FirstProgram \in Programs
  /\ FirstImplementation \in Implementations
  /\ Native \notin Tokens
  /\ Fees \subseteq Nat
  /\ {MaxValue, MaxDepth, MaxRegistries} \subseteq Nat

VARIABLES
  owner, pendingOwner,
  currentProgramVKey,
  vKeyVersions,    \* version v is the element v + 1; vKeyVersionCount its length
  usedVKeys,
  implementation,  \* the one the beacon points to
  registries,      \* a registry is named by the order of its creation
  isRegistry,
  registryInfo,    \* recorded vKeyVersion of each registry
  fee,             \* feeToken, registryCreationFee and feeRecipient
  held,            \* native balance of the factory
  withheld,        \* history: fee changes made while a payment was under way
  frames           \* creations that wait for an external call, innermost last

adminVars == <<owner, pendingOwner>>
keyVars == <<currentProgramVKey, vKeyVersions, usedVKeys>>
indexVars == <<registries, isRegistry, registryInfo>>
moneyVars == <<held, withheld>>
factoryVars == <<adminVars, keyVars, implementation, indexVars, fee, moneyVars, frames>>

FeeConfigs == [token: {Native} \cup Tokens, amount: Fees,
               recipient: Accounts \cup {NoAddress}]

\* Required by the constructor and by setFeeConfig.
ProperFee(f) == f.amount > 0 => f.recipient # NoAddress

FactoryInit ==
  /\ owner = Deployer
  /\ pendingOwner = NoAddress
  /\ currentProgramVKey = FirstProgram
  /\ vKeyVersions = <<FirstProgram>>
  /\ usedVKeys = {FirstProgram}
  /\ implementation = FirstImplementation
  /\ registries = << >>
  /\ isRegistry = {}
  /\ registryInfo = << >>
  /\ fee \in {f \in FeeConfigs : ProperFee(f)}
  /\ held = 0
  /\ withheld = 0
  /\ frames = << >>

-----------------------------------------------------------------------------
TopFrame == Last(frames)

\* Who can call now: anyone who sends a transaction, or, inside an external
\* call, a contract if the account being paid is one.
MayCall(sender) ==
  frames # << >> => {TopFrame.callee, sender} \subseteq Contracts

Snapshot ==
  [owner |-> owner, pendingOwner |-> pendingOwner,
   current |-> currentProgramVKey, versions |-> vKeyVersions,
   used |-> usedVKeys, implementation |-> implementation,
   registries |-> registries, isRegistry |-> isRegistry, info |-> registryInfo,
   fee |-> fee, held |-> held, withheld |-> withheld]

(* A reverted call leaves the state as it was when the call came in. *)
Restore(s) ==
  /\ owner' = s.owner
  /\ pendingOwner' = s.pendingOwner
  /\ currentProgramVKey' = s.current
  /\ vKeyVersions' = s.versions
  /\ usedVKeys' = s.used
  /\ implementation' = s.implementation
  /\ registries' = s.registries
  /\ isRegistry' = s.isRegistry
  /\ registryInfo' = s.info
  /\ fee' = s.fee
  /\ held' = s.held
  /\ withheld' = s.withheld

Room == Len(registries) + Len(frames) < MaxRegistries

(* The part of createRegistry after _collectFee: the proxy is deployed and
   recorded with the version that is the latest at that moment. *)
Deploy ==
  LET registry == Len(registries) + 1
  IN  /\ registries' = Append(registries, registry)
      /\ isRegistry' = isRegistry \cup {registry}
      /\ registryInfo' = Append(registryInfo, Len(vKeyVersions) - 1)

(* No fee: nothing is called and nothing may be sent along. *)
CreateFree(sender, value) ==
  /\ MayCall(sender)
  /\ Room
  /\ fee.amount = 0
  /\ value = 0
  /\ Deploy
  /\ UNCHANGED <<adminVars, keyVars, implementation, fee, moneyVars, frames>>

(* A native fee is sent to the recipient, which then has control. *)
PayNative(sender, value) ==
  /\ MayCall(sender)
  /\ Room /\ Len(frames) < MaxDepth
  /\ fee.amount > 0 /\ fee.token = Native
  /\ value >= fee.amount
  /\ held' = held + value - fee.amount
  /\ frames' = Append(frames,
                 [sender |-> sender, value |-> value, charged |-> fee.amount,
                  callee |-> fee.recipient, stage |-> "fee", saved |-> Snapshot])
  /\ UNCHANGED <<adminVars, keyVars, implementation, indexVars, fee, withheld>>

(* An ERC-20 fee: the token may call the recipient (hooks), then it is paid. *)
PayToken(sender, value) ==
  /\ MayCall(sender)
  /\ Room /\ Len(frames) < MaxDepth
  /\ fee.amount > 0 /\ fee.token # Native
  /\ value = 0
  /\ frames' = Append(frames,
                 [sender |-> sender, value |-> 0, charged |-> fee.amount,
                  callee |-> fee.recipient, stage |-> "last", saved |-> Snapshot])
  /\ UNCHANGED <<adminVars, keyVars, implementation, indexVars, fee, moneyVars>>

\* Mutant: the whole value is sent back.
ExcessIsValue == TopFrame.value

(* The recipient returns.  registryCreationFee is read again for the refund. *)
Excess == TopFrame.value - fee.amount

RefundExcess ==
  /\ frames # << >> /\ TopFrame.stage = "fee"
  /\ Excess > 0 /\ Excess <= held
  /\ held' = held - Excess
  /\ withheld' = withheld + (fee.amount - TopFrame.charged)
  /\ frames' = Append(Front(frames),
                 [TopFrame EXCEPT !.stage = "last", !.callee = TopFrame.sender])
  /\ UNCHANGED <<adminVars, keyVars, implementation, indexVars, fee>>

NoExcess ==
  /\ frames # << >> /\ TopFrame.stage = "fee"
  /\ Excess = 0
  /\ withheld' = withheld + (fee.amount - TopFrame.charged)
  /\ Deploy
  /\ frames' = Front(frames)
  /\ UNCHANGED <<adminVars, keyVars, implementation, fee, held>>

(* The last external call returns and the registry is deployed. *)
FinishCreate ==
  /\ frames # << >> /\ TopFrame.stage = "last"
  /\ Deploy
  /\ frames' = Front(frames)
  /\ UNCHANGED <<adminVars, keyVars, implementation, fee, moneyVars>>

(* The callee refuses, or the refund underflows or exceeds the balance. *)
RevertCreate ==
  /\ frames # << >>
  /\ \/ TopFrame.callee \in Contracts
     \/ TopFrame.stage = "fee" /\ (Excess < 0 \/ Excess > held)
  /\ Restore(TopFrame.saved)
  /\ frames' = Front(frames)

-----------------------------------------------------------------------------
OnlyOwner(sender) == MayCall(sender) /\ sender = owner

\* Mutant: a key that was published before is accepted.
UpdateProgramVKeyAgain(sender, newVKey) ==
  /\ OnlyOwner(sender)
  /\ Len(vKeyVersions) < Cardinality(Programs)
  /\ vKeyVersions' = Append(vKeyVersions, newVKey)
  /\ usedVKeys' = usedVKeys \cup {newVKey}
  /\ currentProgramVKey' = newVKey
  /\ UNCHANGED <<adminVars, implementation, indexVars, fee, moneyVars, frames>>

UpdateProgramVKey(sender, newVKey) ==
  /\ OnlyOwner(sender)
  /\ newVKey \notin usedVKeys
  /\ vKeyVersions' = Append(vKeyVersions, newVKey)
  /\ usedVKeys' = usedVKeys \cup {newVKey}
  /\ currentProgramVKey' = newVKey
  /\ UNCHANGED <<adminVars, implementation, indexVars, fee, moneyVars, frames>>

UpgradeImplementation(sender, newImplementation) ==
  /\ OnlyOwner(sender)
  /\ implementation' = newImplementation
  /\ UNCHANGED <<adminVars, keyVars, indexVars, fee, moneyVars, frames>>

SetFeeConfig(sender, newFee) ==
  /\ OnlyOwner(sender)
  /\ ProperFee(newFee)
  /\ fee' = newFee
  /\ UNCHANGED <<adminVars, keyVars, implementation, indexVars, moneyVars, frames>>

TransferOwnership(sender, newOwner) ==
  /\ OnlyOwner(sender)
  /\ newOwner # NoAddress
  /\ pendingOwner' = newOwner
  /\ UNCHANGED <<owner, keyVars, implementation, indexVars, fee, moneyVars, frames>>

AcceptOwnership(sender) ==
  /\ MayCall(sender)
  /\ sender = pendingOwner
  /\ owner' = sender
  /\ pendingOwner' = NoAddress
  /\ UNCHANGED <<keyVars, implementation, indexVars, fee, moneyVars, frames>>

FactoryNext ==
  \/ \E sender \in Accounts, value \in 0..MaxValue :
       CreateFree(sender, value) \/ PayNative(sender, value)
                                 \/ PayToken(sender, value)
  \/ RefundExcess \/ NoExcess \/ FinishCreate \/ RevertCreate
  \/ \E sender \in Accounts :
       \/ \E v \in Programs : UpdateProgramVKey(sender, v)
       \/ \E i \in Implementations : UpgradeImplementation(sender, i)
       \/ \E f \in FeeConfigs : SetFeeConfig(sender, f)
       \/ \E a \in Candidates : TransferOwnership(sender, a)
       \/ AcceptOwnership(sender)

FactorySpec == FactoryInit /\ [][FactoryNext]_factoryVars

-----------------------------------------------------------------------------
\* Publishing keys, from inside a payment or not, keeps one history: no key is
\* published twice, the current key is the last one published, and the keys
\* that count as used are exactly those of the history.
KeyHistory ==
  /\ IsInjective(vKeyVersions)
  /\ usedVKeys = Range(vKeyVersions)
  /\ currentProgramVKey = Last(vKeyVersions)

\* What a creation under way is still to pay back.
Outstanding(frame) == IF frame.stage = "fee" THEN frame.value - frame.charged ELSE 0

Due(stack) ==
  LET due[k \in 0..Len(stack)] == IF k = 0 THEN 0 ELSE due[k - 1] + Outstanding(stack[k])
  IN  due[Len(stack)]

\* "Refund excess": what the factory holds is the excess of the creations
\* under way, whose refund is still to come.  The one way money can stay in it
\* is a fee that is changed while a payment is under way.
RefundsExact == held = withheld + Due(frames)

(* IdentityRegistry._getVKey of a registry of this factory. *)
EffectiveVKey(registry) == currentProgramVKey

\* RegistryFactory.sol:214, "Existing registries keep their deployment-time
\* VKey (set during initialize, immutable per registry)": the key a registry
\* checks proofs with is the one of the version recorded for it.
DeploymentKeyKept ==
  \A r \in isRegistry : EffectiveVKey(r) = vKeyVersions[registryInfo[r] + 1]
=============================================================================
