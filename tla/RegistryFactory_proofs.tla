----------------------- MODULE RegistryFactory_proofs -----------------------
(***************************************************************************)
(* What the factory keeps, for every set of accounts and programs and for  *)
(* creations nested to any depth: one history of program keys, and for     *)
(* every registry a version of it.                                         *)
(*                                                                         *)
(* A creation that reverts restores the state it found, so that whatever   *)
(* is to hold of the state must hold of every state that is saved on the   *)
(* call stack.                                                             *)
(***************************************************************************)
EXTENDS RegistryFactory, SequenceTheorems, Inductions

\* KeyHistory of any state, saved or current.
KeysInOrder(versions, used, current) ==
  /\ versions # << >>
  /\ IsInjective(versions)
  /\ used = Range(versions)
  /\ current = Last(versions)

\* The n-th registry is named n, is one of the factory's and has a published version.
IndexInOrder(regs, members, info, versions) ==
  /\ members = 1..Len(regs)
  /\ Len(info) = Len(regs)
  /\ \A r \in 1..Len(regs) : regs[r] = r /\ info[r] < Len(versions)

States ==
  [owner: Accounts, pendingOwner: Accounts \cup {NoAddress},
   current: Programs, versions: Seq(Programs), used: SUBSET Programs,
   implementation: Implementations,
   registries: Seq(Nat), isRegistry: SUBSET Nat, info: Seq(Nat),
   fee: FeeConfigs, held: Int, withheld: Int]

SoundStates ==
  {s \in States : /\ KeysInOrder(s.versions, s.used, s.current)
                  /\ IndexInOrder(s.registries, s.isRegistry, s.info, s.versions)}

Frames ==
  [sender: Accounts, value: Nat, charged: Nat, callee: Accounts \cup {NoAddress},
   stage: {"fee", "last"}, saved: SoundStates]

FactoryTypeOK ==
  /\ owner \in Accounts
  /\ pendingOwner \in Accounts \cup {NoAddress}
  /\ currentProgramVKey \in Programs
  /\ vKeyVersions \in Seq(Programs)
  /\ usedVKeys \subseteq Programs
  /\ implementation \in Implementations
  /\ registries \in Seq(Nat)
  /\ isRegistry \subseteq Nat
  /\ registryInfo \in Seq(Nat)
  /\ fee \in FeeConfigs
  /\ held \in Int
  /\ withheld \in Int

Keys == KeysInOrder(vKeyVersions, usedVKeys, currentProgramVKey)

Index == IndexInOrder(registries, isRegistry, registryInfo, vKeyVersions)

FactoryInv == FactoryTypeOK /\ Keys /\ Index /\ frames \in Seq(Frames)

-----------------------------------------------------------------------------
\* The state that a creation saves is as sound as the current one.
LEMMA SnapshotSound ==
  ASSUME FactoryTypeOK, Keys, Index
  PROVE  Snapshot \in SoundStates
<1>1. Snapshot \in States
  BY DEF Snapshot, States, FactoryTypeOK
<1>2. /\ KeysInOrder(Snapshot.versions, Snapshot.used, Snapshot.current)
      /\ IndexInOrder(Snapshot.registries, Snapshot.isRegistry, Snapshot.info,
                      Snapshot.versions)
  BY DEF Snapshot, Keys, Index
<1> QED
  BY <1>1, <1>2 DEF SoundStates

\* Restoring a sound state makes the state sound.
LEMMA RestoreSound ==
  ASSUME NEW s \in SoundStates, Restore(s)
  PROVE  FactoryTypeOK' /\ Keys' /\ Index'
<1>1. s \in States
  BY DEF SoundStates
<1>2. FactoryTypeOK'
  BY <1>1 DEF Restore, States, FactoryTypeOK
<1>3. Keys' /\ Index'
  BY DEF SoundStates, Restore, Keys, Index
<1> QED
  BY <1>2, <1>3

\* Deploying a registry gives it the next name and the latest version.
LEMMA DeploySound ==
  ASSUME FactoryTypeOK, Keys, Index, Deploy, UNCHANGED keyVars
  PROVE  /\ registries' \in Seq(Nat) /\ isRegistry' \subseteq Nat
         /\ registryInfo' \in Seq(Nat) /\ Index'
<1> DEFINE n == Len(registries)
           v == Len(vKeyVersions) - 1
<1>1. /\ registries \in Seq(Nat) /\ registryInfo \in Seq(Nat)
      /\ n \in Nat /\ Len(registryInfo) = n /\ isRegistry = 1..n
      /\ \A r \in 1..n : registries[r] = r /\ registryInfo[r] < Len(vKeyVersions)
  BY DEF FactoryTypeOK, Index, IndexInOrder
<1>2. v \in Nat /\ v < Len(vKeyVersions)
  BY EmptySeq DEF FactoryTypeOK, Keys, KeysInOrder
<1>3. /\ registries' = Append(registries, n + 1) /\ registryInfo' = Append(registryInfo, v)
      /\ isRegistry' = isRegistry \cup {n + 1} /\ vKeyVersions' = vKeyVersions
  BY DEF Deploy, keyVars
<1> HIDE DEF v
<1>4. /\ registries' \in Seq(Nat) /\ Len(registries') = n + 1
      /\ registryInfo' \in Seq(Nat) /\ Len(registryInfo') = n + 1
      /\ \A r \in 1..(n + 1) :
           /\ registries'[r] = IF r = n + 1 THEN n + 1 ELSE registries[r]
           /\ registryInfo'[r] = IF r = n + 1 THEN v ELSE registryInfo[r]
  BY <1>1, <1>2, <1>3
<1>5. isRegistry' = 1..(n + 1)
  BY <1>1, <1>3
<1>6. Index'
  BY <1>1, <1>2, <1>3, <1>4, <1>5 DEF Index, IndexInOrder
<1> QED
  BY <1>1, <1>4, <1>5, <1>6

\* The stack of frames: what is on top, what is left without it, what it becomes.
LEMMA FrameStack ==
  ASSUME frames \in Seq(Frames), frames # << >>
  PROVE  /\ TopFrame \in Frames
         /\ Front(frames) \in Seq(Frames)
<1>1. Len(frames) \in Nat \ {0} /\ \A i \in 1..Len(frames) : frames[i] \in Frames
  BY EmptySeq
<1>2. TopFrame \in Frames
  BY <1>1 DEF TopFrame, Last
<1>3. \A i \in 1..(Len(frames) - 1) : frames[i] \in Frames
  BY <1>1
<1>4. SubSeq(frames, 1, Len(frames) - 1) \in Seq(Frames)
  BY <1>1, <1>3, SubSeqProperties
<1> QED
  BY <1>2, <1>4 DEF Front

-----------------------------------------------------------------------------
LEMMA FactoryInitInv == FactoryInit => FactoryInv
<1> SUFFICES ASSUME FactoryInit PROVE FactoryInv
  OBVIOUS
<1>1. FactoryTypeOK
  BY FactoryAssumption DEF FactoryInit, FactoryAssumption, FactoryTypeOK
<1>2. Keys
  BY FactoryAssumption
  DEF FactoryInit, FactoryAssumption, Keys, KeysInOrder, IsInjective, Range, Last
<1>3. Index /\ frames \in Seq(Frames)
  BY DEF FactoryInit, Index, IndexInOrder
<1> QED
  BY <1>1, <1>2, <1>3 DEF FactoryInv

\* Publishing a key appends it to the history, and only that.
LEMMA PublishSound ==
  ASSUME FactoryInv, NEW sender, NEW newVKey \in Programs,
         UpdateProgramVKey(sender, newVKey)
  PROVE  FactoryInv'
<1> DEFINE n == Len(vKeyVersions)
<1>1. /\ vKeyVersions \in Seq(Programs) /\ n \in Nat \ {0} /\ IsInjective(vKeyVersions)
      /\ usedVKeys = Range(vKeyVersions)
  BY EmptySeq DEF FactoryInv, FactoryTypeOK, Keys, KeysInOrder
<1>2. /\ vKeyVersions' = Append(vKeyVersions, newVKey)
      /\ usedVKeys' = usedVKeys \cup {newVKey} /\ currentProgramVKey' = newVKey
      /\ newVKey \notin usedVKeys
      /\ UNCHANGED <<adminVars, implementation, indexVars, fee, moneyVars, frames>>
  BY DEF UpdateProgramVKey
<1>3. /\ vKeyVersions' \in Seq(Programs) /\ Len(vKeyVersions') = n + 1
      /\ DOMAIN vKeyVersions = 1..n /\ DOMAIN vKeyVersions' = 1..(n + 1)
      /\ \A i \in 1..n : vKeyVersions'[i] = vKeyVersions[i]
      /\ vKeyVersions'[n + 1] = newVKey
  BY <1>1, <1>2
<1>4. IsInjective(vKeyVersions')
  BY <1>1, <1>2, <1>3 DEF IsInjective, Range
<1>5. usedVKeys' = Range(vKeyVersions')
  BY <1>1, <1>2, <1>3 DEF Range
<1>6. Keys'
  BY <1>1, <1>2, <1>3, <1>4, <1>5 DEF Keys, KeysInOrder, Last
<1>7. FactoryTypeOK'
  BY <1>2, <1>3
  DEF FactoryInv, FactoryTypeOK, adminVars, indexVars, moneyVars
<1>8. Index'
  BY <1>1, <1>2, <1>3 DEF FactoryInv, Index, IndexInOrder, FactoryTypeOK, indexVars
<1> QED
  BY <1>2, <1>6, <1>7, <1>8 DEF FactoryInv

LEMMA FactoryStepInv ==
  ASSUME FactoryInv, [FactoryNext]_factoryVars
  PROVE  FactoryInv'
<1> USE DEF adminVars, keyVars, indexVars, moneyVars
<1>0. FactoryTypeOK /\ Keys /\ Index /\ frames \in Seq(Frames)
  BY DEF FactoryInv
<1>1. ASSUME NEW sender \in Accounts, NEW value \in 0..MaxValue, CreateFree(sender, value)
      PROVE  FactoryInv'
  <2>1. Deploy /\ UNCHANGED <<adminVars, keyVars, implementation, fee, moneyVars, frames>>
    BY <1>1 DEF CreateFree
  <2> QED
    BY <1>0, <2>1, DeploySound DEF FactoryInv, FactoryTypeOK, Keys
<1>2. ASSUME NEW sender \in Accounts, NEW value \in 0..MaxValue, PayNative(sender, value)
      PROVE  FactoryInv'
  <2> DEFINE new == [sender |-> sender, value |-> value, charged |-> fee.amount,
                     callee |-> fee.recipient, stage |-> "fee", saved |-> Snapshot]
  <2>1. /\ frames' = Append(frames, new) /\ held' = held + value - fee.amount
        /\ UNCHANGED <<adminVars, keyVars, implementation, indexVars, fee, withheld>>
    BY <1>2 DEF PayNative
  <2>2. new \in Frames
    <3>1. value \in Nat
      OBVIOUS
    <3>2. fee.amount \in Nat /\ fee.recipient \in Accounts \cup {NoAddress}
      BY <1>0, FactoryAssumption DEF FactoryTypeOK, FeeConfigs, FactoryAssumption
    <3> QED
      BY <1>0, <3>1, <3>2, SnapshotSound DEF Frames
  <2>3. frames' \in Seq(Frames)
    BY <1>0, <2>1, <2>2
  <2>4. FactoryTypeOK'
    BY <1>0, <2>1, FactoryAssumption DEF FactoryTypeOK, FeeConfigs, FactoryAssumption
  <2> QED
    BY <1>0, <2>1, <2>3, <2>4 DEF FactoryInv, Keys, Index
<1>3. ASSUME NEW sender \in Accounts, NEW value \in 0..MaxValue, PayToken(sender, value)
      PROVE  FactoryInv'
  <2> DEFINE new == [sender |-> sender, value |-> 0, charged |-> fee.amount,
                     callee |-> fee.recipient, stage |-> "last", saved |-> Snapshot]
  <2>1. /\ frames' = Append(frames, new)
        /\ UNCHANGED <<adminVars, keyVars, implementation, indexVars, fee, moneyVars>>
    BY <1>3 DEF PayToken
  <2>2. new \in Frames
    BY <1>0, SnapshotSound, FactoryAssumption
    DEF Frames, FactoryTypeOK, FeeConfigs, FactoryAssumption
  <2>3. frames' \in Seq(Frames)
    BY <1>0, <2>1, <2>2
  <2> QED
    BY <1>0, <2>1, <2>3 DEF FactoryInv, FactoryTypeOK, Keys, Index
<1>4. ASSUME RefundExcess
      PROVE  FactoryInv'
  <2> DEFINE new == [TopFrame EXCEPT !.stage = "last", !.callee = TopFrame.sender]
  <2>1. /\ frames # << >> /\ frames' = Append(Front(frames), new)
        /\ held' = held - (TopFrame.value - fee.amount)
        /\ withheld' = withheld + (fee.amount - TopFrame.charged)
        /\ UNCHANGED <<adminVars, keyVars, implementation, indexVars, fee>>
    BY <1>4 DEF RefundExcess, Excess
  <2>2. TopFrame \in Frames /\ Front(frames) \in Seq(Frames)
    BY <1>0, <2>1, FrameStack
  <2>3. new \in Frames
    BY <2>2 DEF Frames
  <2>4. frames' \in Seq(Frames)
    BY <2>1, <2>2, <2>3
  <2>5. /\ TopFrame.value \in Nat /\ TopFrame.charged \in Nat /\ fee.amount \in Nat
    BY <1>0, <2>2, FactoryAssumption DEF Frames, FactoryTypeOK, FeeConfigs, FactoryAssumption
  <2>6. held' \in Int /\ withheld' \in Int
    BY <1>0, <2>1, <2>5 DEF FactoryTypeOK
  <2> QED
    BY <1>0, <2>1, <2>4, <2>6 DEF FactoryInv, FactoryTypeOK, Keys, Index
<1>5. ASSUME NoExcess
      PROVE  FactoryInv'
  <2>1. /\ frames # << >> /\ frames' = Front(frames) /\ Deploy
        /\ withheld' = withheld + (fee.amount - TopFrame.charged)
        /\ UNCHANGED <<adminVars, keyVars, implementation, fee, held>>
    BY <1>5 DEF NoExcess
  <2>2. TopFrame \in Frames /\ frames' \in Seq(Frames)
    BY <1>0, <2>1, FrameStack
  <2>3. TopFrame.charged \in Nat /\ fee.amount \in Nat
    BY <1>0, <2>2, FactoryAssumption DEF Frames, FactoryTypeOK, FeeConfigs, FactoryAssumption
  <2>4. withheld' \in Int
    BY <1>0, <2>1, <2>3 DEF FactoryTypeOK
  <2> QED
    BY <1>0, <2>1, <2>2, <2>4, DeploySound DEF FactoryInv, FactoryTypeOK, Keys
<1>6. ASSUME FinishCreate
      PROVE  FactoryInv'
  <2>1. /\ frames # << >> /\ frames' = Front(frames) /\ Deploy
        /\ UNCHANGED <<adminVars, keyVars, implementation, fee, moneyVars>>
    BY <1>6 DEF FinishCreate
  <2>2. frames' \in Seq(Frames)
    BY <1>0, <2>1, FrameStack
  <2> QED
    BY <1>0, <2>1, <2>2, DeploySound DEF FactoryInv, FactoryTypeOK, Keys
<1>7. ASSUME RevertCreate
      PROVE  FactoryInv'
  <2>1. frames # << >> /\ frames' = Front(frames) /\ Restore(TopFrame.saved)
    BY <1>7 DEF RevertCreate
  <2>2. TopFrame \in Frames /\ frames' \in Seq(Frames)
    BY <1>0, <2>1, FrameStack
  <2>3. TopFrame.saved \in SoundStates
    BY <2>2 DEF Frames
  <2> QED
    BY <2>1, <2>2, <2>3, RestoreSound DEF FactoryInv
<1>8. ASSUME NEW sender \in Accounts, NEW v \in Programs, UpdateProgramVKey(sender, v)
      PROVE  FactoryInv'
  BY <1>8, PublishSound
<1>9. ASSUME NEW sender \in Accounts, NEW i \in Implementations,
             UpgradeImplementation(sender, i)
      PROVE  FactoryInv'
  BY <1>0, <1>9 DEF UpgradeImplementation, FactoryInv, FactoryTypeOK, Keys, Index
<1>10. ASSUME NEW sender \in Accounts, NEW f \in FeeConfigs, SetFeeConfig(sender, f)
       PROVE  FactoryInv'
  BY <1>0, <1>10 DEF SetFeeConfig, FactoryInv, FactoryTypeOK, Keys, Index
<1>11. ASSUME NEW sender \in Accounts, NEW a \in Candidates, TransferOwnership(sender, a)
       PROVE  FactoryInv'
  BY <1>0, <1>11, FactoryAssumption
  DEF TransferOwnership, FactoryAssumption, FactoryInv, FactoryTypeOK, Keys, Index
<1>12. ASSUME NEW sender \in Accounts, AcceptOwnership(sender)
       PROVE  FactoryInv'
  BY <1>0, <1>12 DEF AcceptOwnership, FactoryInv, FactoryTypeOK, Keys, Index
<1>13. CASE UNCHANGED factoryVars
  BY <1>0, <1>13 DEF factoryVars, FactoryInv, FactoryTypeOK, Keys, Index
<1> QED
  BY <1>1, <1>2, <1>3, <1>4, <1>5, <1>6, <1>7, <1>8, <1>9, <1>10, <1>11, <1>12, <1>13
  DEF FactoryNext

LEMMA FactoryInvariance == FactorySpec => []FactoryInv
<1>1. FactoryInv /\ [FactoryNext]_factoryVars => FactoryInv'
  BY FactoryStepInv
<1> QED
  BY FactoryInitInv, <1>1, PTL DEF FactorySpec

-----------------------------------------------------------------------------
\* The factory's variables keep their types, also across reverted creations.
THEOREM FactoryTypeCorrect == FactorySpec => []FactoryTypeOK
<1>1. FactoryInv => FactoryTypeOK
  BY DEF FactoryInv
<1> QED
  BY FactoryInvariance, <1>1, PTL

\* updateProgramVKey, called at any point of a payment that may still revert, keeps one
\* history of keys without repetitions, whose last is the current one.
THEOREM KeyHistoryHolds == FactorySpec => []KeyHistory
<1>1. FactoryInv => KeyHistory
  BY DEF FactoryInv, Keys, KeysInOrder, KeyHistory
<1> QED
  BY FactoryInvariance, <1>1, PTL

\* createRegistry, reentered or not, records every registry once, in order, with a
\* version that was published.
THEOREM IndexHolds == FactorySpec => []Index
<1>1. FactoryInv => Index
  BY DEF FactoryInv
<1> QED
  BY FactoryInvariance, <1>1, PTL

-----------------------------------------------------------------------------
(***************************************************************************)
(* The money.  A revert restores the balance that was saved, so that what  *)
(* is said of the balance and the whole stack has to be said of every      *)
(* saved balance and the frames below it too.                              *)
(***************************************************************************)

\* The sums over the parts of a stack, from its first frame on.
DueUpTo(stack) ==
  CHOOSE due : due = [k \in 0..Len(stack) |->
                        IF k = 0 THEN 0 ELSE due[k - 1] + Outstanding(stack[k])]

\* The balance that every frame has saved is explained by the frames below it.
SavedExact(stack) ==
  \A k \in 1..Len(stack) :
    LET saved == stack[k].saved
    IN  saved.held = saved.withheld + Due(SubSeq(stack, 1, k - 1))

MoneyInv == RefundsExact /\ SavedExact(frames)

LEMMA OutstandingInt == \A f \in Frames : Outstanding(f) \in Int
  BY DEF Frames, Outstanding

LEMMA DueSteps ==
  ASSUME NEW s \in Seq(Frames)
  PROVE  /\ DueUpTo(s) \in [0..Len(s) -> Int] /\ DueUpTo(s)[0] = 0
         /\ \A k \in 1..Len(s) : DueUpTo(s)[k] = DueUpTo(s)[k - 1] + Outstanding(s[k])
         /\ Due(s) = DueUpTo(s)[Len(s)]
<1> DEFINE n == Len(s)
           step == [k \in 1..n |-> [v \in Int |-> v + Outstanding(s[k])]]
           IsDue(d) == d = [k \in 0..n |-> IF k = 0 THEN 0
                                           ELSE d[k - 1] + Outstanding(s[k])]
           D == DueUpTo(s)
<1>1. n \in Nat /\ \A k \in 1..n : s[k] \in Frames /\ Outstanding(s[k]) \in Int
  BY OutstandingInt
<1>2. step \in [1..n -> [Int -> Int]]
  BY <1>1
<1>3. PICK f \in [0..n -> Int] :
         f[0] = 0 /\ \A k \in 1..n : f[k] = step[k][f[k - 1]]
  <2> DEFINE Z == Int
             zero == 0
  <2>1. n \in Nat /\ zero \in Z /\ step \in [1..n -> [Z -> Z]]
    BY <1>1, <1>2
  <2>2. \E f \in [0..n -> Z] : StepByStep(f, zero, n, step)
    <3> HIDE DEF step, n, Z, zero
    <3> QED
      BY <2>1, Recursion
  <2> QED
    BY <2>2 DEF StepByStep
<1>4. \A k \in 0..n : f[k] = IF k = 0 THEN 0 ELSE f[k - 1] + Outstanding(s[k])
  <2> SUFFICES ASSUME NEW k \in 1..n
               PROVE  f[k] = f[k - 1] + Outstanding(s[k])
    BY <1>1, <1>3
  <2>1. f[k - 1] \in Int
    BY <1>1
  <2>2. step[k][f[k - 1]] = f[k - 1] + Outstanding(s[k])
    BY <2>1
  <2>3. f[k] = step[k][f[k - 1]]
    <3> HIDE DEF step
    <3> QED
      BY <1>3
  <2> QED
    BY <2>2, <2>3
<1>5. IsDue(f)
  BY <1>4
<1>6. IsDue(D)
  <2> D = CHOOSE d : IsDue(d)
    BY DEF DueUpTo
  <2> HIDE DEF IsDue, D
  <2> QED
    BY <1>5
<1> HIDE DEF D
<1>7. \A k \in 0..n : D[k] = IF k = 0 THEN 0 ELSE D[k - 1] + Outstanding(s[k])
  BY <1>6
<1>8. \A k \in 0..n : D[k] \in Int
  <2> DEFINE T == {k \in Nat : k <= n => D[k] \in Int}
  <2>1. 0 \in T
    BY <1>1, <1>7
  <2>2. ASSUME NEW k \in Nat, k < n, k \in T
        PROVE  k + 1 \in T
    <3>1. k + 1 \in 0..n /\ k + 1 # 0 /\ (k + 1) - 1 = k /\ k + 1 \in 1..n /\ k <= n
      BY <1>1, <2>2
    <3>2. D[k + 1] = D[k] + Outstanding(s[k + 1]) /\ D[k] \in Int
      BY <1>7, <2>2, <3>1
    <3> QED
      BY <1>1, <3>1, <3>2
  <2>3. \A k \in 0..n : k \in T
    <3> HIDE DEF T, n
    <3> QED
      BY <1>1, <2>1, <2>2, IntervalInduction
  <2> QED
    BY <1>1, <2>3
<1>9. D \in [0..n -> Int]
  BY <1>6, <1>8
<1>10. D[0] = 0 /\ \A k \in 1..n : D[k] = D[k - 1] + Outstanding(s[k])
  BY <1>1, <1>7
<1>11. Due(s) = D[n]
  BY DEF Due, D, DueUpTo
<1> QED
  BY <1>9, <1>10, <1>11 DEF D

\* A stack is its top frame on the others.
LEMMA StackParts ==
  ASSUME frames \in Seq(Frames), frames # << >>
  PROVE  frames = Append(Front(frames), TopFrame)
<1> DEFINE n == Len(frames)
           s == Front(frames)
<1>1. /\ n \in Nat \ {0} /\ s = SubSeq(frames, 1, n - 1) /\ TopFrame = frames[n]
      /\ TopFrame \in Frames /\ s \in Seq(Frames)
  BY EmptySeq, FrameStack DEF Front, TopFrame, Last
<1>2. Len(s) = n - 1 /\ \A k \in 1..(n - 1) : s[k] = frames[k]
  <2> HIDE DEF s
  <2>1. n - 1 \in Int /\ 1 \in Int /\ \A i \in 1..(n - 1) : frames[i] \in Frames
    BY <1>1
  <2>2. /\ Len(s) = IF 1 <= n - 1 THEN (n - 1) - 1 + 1 ELSE 0
        /\ \A k \in 1..((n - 1) - 1 + 1) : s[k] = frames[1 + k - 1]
    BY <1>1, <2>1, SubSeqProperties
  <2>3. (n - 1) - 1 + 1 = n - 1 /\ \A k \in 1..(n - 1) : 1 + k - 1 = k
    BY <1>1
  <2> QED
    BY <1>1, <2>2, <2>3
<1> HIDE DEF s
<1>3. Len(Append(s, TopFrame)) = n /\ Append(s, TopFrame) \in Seq(Frames)
  BY <1>1, <1>2
<1>4. \A k \in 1..n : Append(s, TopFrame)[k] = frames[k]
  BY <1>1, <1>2
<1>5. Append(s, TopFrame) = frames
  BY <1>3, <1>4, SeqEqual
<1> QED
  BY <1>5 DEF s

LEMMA DueEmpty == Due(<< >>) = 0
  BY DueSteps, EmptySeq

LEMMA DueInt == \A s \in Seq(Frames) : Due(s) \in Int
<1> SUFFICES ASSUME NEW s \in Seq(Frames)
             PROVE  Due(s) \in Int
  OBVIOUS
<1> Len(s) \in 0..Len(s)
  OBVIOUS
<1> QED
  BY DueSteps

\* Two stacks with the same first n frames have the same sums up to there.
LEMMA DuePrefix ==
  ASSUME NEW s \in Seq(Frames), NEW t \in Seq(Frames), NEW n \in Nat,
         n <= Len(s), n <= Len(t), \A k \in 1..n : s[k] = t[k]
  PROVE  DueUpTo(s)[n] = DueUpTo(t)[n]
<1> DEFINE T == {k \in Nat : k <= n => DueUpTo(s)[k] = DueUpTo(t)[k]}
<1>1. 0 \in T
  BY DueSteps
<1>2. ASSUME NEW k \in Nat, k < n, k \in T
      PROVE  k + 1 \in T
  <2>1. /\ k + 1 \in 1..n /\ k + 1 \in 1..Len(s) /\ k + 1 \in 1..Len(t)
        /\ (k + 1) - 1 = k /\ k <= n
    BY <1>2
  <2>2. /\ DueUpTo(s)[k + 1] = DueUpTo(s)[k] + Outstanding(s[k + 1])
        /\ DueUpTo(t)[k + 1] = DueUpTo(t)[k] + Outstanding(t[k + 1])
    BY <2>1, DueSteps
  <2>3. DueUpTo(s)[k] = DueUpTo(t)[k] /\ s[k + 1] = t[k + 1]
    BY <1>2, <2>1
  <2> QED
    BY <2>2, <2>3
<1>3. \A k \in 0..n : k \in T
  <2> HIDE DEF T
  <2> QED
    BY <1>1, <1>2, IntervalInduction
<1> QED
  BY <1>3

LEMMA DuePush ==
  ASSUME NEW s \in Seq(Frames), NEW f \in Frames
  PROVE  Due(Append(s, f)) = Due(s) + Outstanding(f)
<1> DEFINE t == Append(s, f)
           n == Len(s)
<1>1. /\ t \in Seq(Frames) /\ Len(t) = n + 1 /\ n \in Nat /\ t[n + 1] = f
      /\ \A k \in 1..n : s[k] = t[k]
  OBVIOUS
<1> HIDE DEF t
<1>2. DueUpTo(s)[n] = DueUpTo(t)[n]
  BY <1>1, DuePrefix
<1>3. DueUpTo(t)[n + 1] = DueUpTo(t)[n] + Outstanding(f)
  <2> n + 1 \in 1..Len(t) /\ (n + 1) - 1 = n
    BY <1>1
  <2> QED
    BY <1>1, DueSteps
<1>4. Due(t) = DueUpTo(t)[n + 1] /\ Due(s) = DueUpTo(s)[n]
  BY <1>1, DueSteps
<1> QED
  BY <1>2, <1>3, <1>4 DEF t

LEMMA DuePop ==
  ASSUME frames \in Seq(Frames), frames # << >>
  PROVE  Due(frames) = Due(Front(frames)) + Outstanding(TopFrame)
  BY StackParts, FrameStack, DuePush

LEMMA MoneyInitInv == FactoryInit => MoneyInv
  BY DueEmpty, EmptySeq DEF FactoryInit, MoneyInv, RefundsExact, SavedExact

\* The frames below the k-th, in two stacks that agree on them.
LEMMA SavedBelow ==
  ASSUME NEW s \in Seq(Frames), NEW t \in Seq(Frames), NEW k \in 1..Len(s),
         k - 1 <= Len(t), \A j \in 1..(k - 1) : s[j] = t[j]
  PROVE  SubSeq(s, 1, k - 1) = SubSeq(t, 1, k - 1)
<1>1. /\ k - 1 \in Nat /\ 1 \in Int /\ k - 1 \in Int
      /\ \A j \in 1..(k - 1) : s[j] \in Frames /\ t[j] \in Frames
  OBVIOUS
<1>2. /\ SubSeq(s, 1, k - 1) \in Seq(Frames) /\ SubSeq(t, 1, k - 1) \in Seq(Frames)
      /\ Len(SubSeq(s, 1, k - 1)) = k - 1 /\ Len(SubSeq(t, 1, k - 1)) = k - 1
      /\ \A j \in 1..(k - 1) : /\ SubSeq(s, 1, k - 1)[j] = s[j]
                               /\ SubSeq(t, 1, k - 1)[j] = t[j]
  <2>1. \A u \in Seq(Frames) :
          (\A j \in 1..(k - 1) : u[j] \in Frames) =>
            /\ SubSeq(u, 1, k - 1) \in Seq(Frames)
            /\ Len(SubSeq(u, 1, k - 1)) = IF 1 <= k - 1 THEN (k - 1) - 1 + 1 ELSE 0
            /\ \A j \in 1..((k - 1) - 1 + 1) : SubSeq(u, 1, k - 1)[j] = u[1 + j - 1]
    BY <1>1, SubSeqProperties
  <2>2. /\ (k - 1) - 1 + 1 = k - 1 /\ \A j \in 1..(k - 1) : 1 + j - 1 = j
        /\ (IF 1 <= k - 1 THEN (k - 1) - 1 + 1 ELSE 0) = k - 1
    BY <1>1
  <2> QED
    BY <1>1, <2>1, <2>2
<1> DEFINE a == SubSeq(s, 1, k - 1)
           b == SubSeq(t, 1, k - 1)
<1>3. \A j \in 1..Len(a) : a[j] = b[j]
  BY <1>2
<1> HIDE DEF a, b
<1>4. a = b
  BY <1>2, <1>3, SeqEqual DEF a, b
<1> QED
  BY <1>4 DEF a, b

\* What is below a frame of a stack that grows by one.
LEMMA Below ==
  ASSUME NEW s \in Seq(Frames), NEW f \in Frames, NEW k \in 1..(Len(s) + 1)
  PROVE  SubSeq(Append(s, f), 1, k - 1) = IF k = Len(s) + 1 THEN s ELSE SubSeq(s, 1, k - 1)
<1> DEFINE t == Append(s, f)
           b == SubSeq(t, 1, k - 1)
           n == Len(s)
<1>1. /\ n \in Nat /\ t \in Seq(Frames) /\ Len(t) = n + 1
      /\ \A j \in 1..n : t[j] = s[j]
  OBVIOUS
<1> HIDE DEF t
<1>2. CASE k = n + 1
  <2>1. k - 1 = n /\ n \in Int /\ 1 \in Int /\ \A j \in 1..n : t[j] \in Frames
    BY <1>1, <1>2
  <2>2. /\ b \in Seq(Frames) /\ Len(b) = IF 1 <= n THEN n - 1 + 1 ELSE 0
        /\ \A j \in 1..(n - 1 + 1) : b[j] = t[1 + j - 1]
    BY <2>1, SubSeqProperties
  <2>3. Len(b) = n /\ \A j \in 1..n : b[j] = s[j]
    <3> \A j \in 1..n : 1 + j - 1 = j /\ j \in 1..(n - 1 + 1)
      OBVIOUS
    <3> QED
      BY <1>1, <2>2
  <2> HIDE DEF b
  <2>4. b = s
    BY <2>2, <2>3, SeqEqual
  <2> QED
    BY <1>2, <2>4 DEF b, t
<1>3. CASE k # n + 1
  <2>1. k \in 1..Len(t) /\ k - 1 <= Len(s) /\ \A j \in 1..(k - 1) : t[j] = s[j]
    BY <1>1, <1>3
  <2> QED
    BY <1>1, <1>3, <2>1, SavedBelow DEF t
<1> QED
  BY <1>2, <1>3

LEMMA SavedPush ==
  ASSUME NEW s \in Seq(Frames), SavedExact(s), NEW f \in Frames,
         f.saved.held = f.saved.withheld + Due(s)
  PROVE  SavedExact(Append(s, f))
<1> SUFFICES ASSUME NEW k \in 1..(Len(s) + 1)
             PROVE  Append(s, f)[k].saved.held = Append(s, f)[k].saved.withheld
                                                   + Due(SubSeq(Append(s, f), 1, k - 1))
  <2> Len(Append(s, f)) = Len(s) + 1
    OBVIOUS
  <2> QED
    BY DEF SavedExact
<1>1. CASE k = Len(s) + 1
  <2> Append(s, f)[k] = f
    BY <1>1
  <2> QED
    BY <1>1, Below
<1>2. CASE k # Len(s) + 1
  <2>1. k \in 1..Len(s) /\ Append(s, f)[k] = s[k]
    BY <1>2
  <2>2. SubSeq(Append(s, f), 1, k - 1) = SubSeq(s, 1, k - 1)
    BY <1>2, Below
  <2> QED
    BY <2>1, <2>2 DEF SavedExact
<1> QED
  BY <1>1, <1>2

LEMMA SavedPop ==
  ASSUME NEW s \in Seq(Frames), NEW f \in Frames, SavedExact(Append(s, f))
  PROVE  SavedExact(s) /\ f.saved.held = f.saved.withheld + Due(s)
<1> DEFINE t == Append(s, f)
           n == Len(s)
<1>1. /\ n \in Nat /\ Len(t) = n + 1 /\ t[n + 1] = f /\ \A k \in 1..n : t[k] = s[k]
  OBVIOUS
<1>2. \A k \in 1..(n + 1) :
        SubSeq(t, 1, k - 1) = IF k = n + 1 THEN s ELSE SubSeq(s, 1, k - 1)
  BY Below
<1> HIDE DEF t
<1>3. \A k \in 1..(n + 1) :
        t[k].saved.held = t[k].saved.withheld + Due(SubSeq(t, 1, k - 1))
  BY <1>1 DEF SavedExact, t
<1>4. \A k \in 1..n : s[k].saved.held = s[k].saved.withheld + Due(SubSeq(s, 1, k - 1))
  <2> SUFFICES ASSUME NEW k \in 1..n
               PROVE  s[k].saved.held = s[k].saved.withheld + Due(SubSeq(s, 1, k - 1))
    OBVIOUS
  <2>1. k \in 1..(n + 1) /\ k # n + 1
    BY <1>1
  <2> QED
    BY <1>1, <1>2, <1>3, <2>1
<1>5. n + 1 \in 1..(n + 1)
  BY <1>1
<1> QED
  BY <1>1, <1>2, <1>3, <1>4, <1>5 DEF SavedExact

LEMMA MoneyStepInv ==
  ASSUME FactoryInv, MoneyInv, [FactoryNext]_factoryVars
  PROVE  MoneyInv'
<1> USE DEF adminVars, keyVars, indexVars, moneyVars
<1>0. /\ frames \in Seq(Frames) /\ held \in Int /\ withheld \in Int /\ fee.amount \in Nat
      /\ FactoryTypeOK /\ Keys /\ Index
      /\ held = withheld + Due(frames) /\ SavedExact(frames) /\ Due(frames) \in Int
  BY FactoryAssumption, DueInt
  DEF FactoryInv, FactoryTypeOK, FeeConfigs, FactoryAssumption, MoneyInv, RefundsExact
<1>1. ASSUME UNCHANGED <<frames, held, withheld>>
      PROVE  MoneyInv'
  BY <1>0, <1>1 DEF MoneyInv, RefundsExact
<1>2. ASSUME NEW f \in Frames, f.saved = Snapshot, frames' = Append(frames, f),
             held' = held + Outstanding(f), withheld' = withheld
      PROVE  MoneyInv'
  <2>1. f.saved.held = f.saved.withheld + Due(frames)
    BY <1>0, <1>2 DEF Snapshot
  <2>2. SavedExact(frames')
    BY <1>0, <1>2, <2>1, SavedPush
  <2>3. Due(frames') = Due(frames) + Outstanding(f) /\ Outstanding(f) \in Int
    BY <1>0, <1>2, DuePush, OutstandingInt
  <2>4. held' = withheld' + Due(frames')
    BY <1>0, <1>2, <2>3
  <2> QED
    BY <2>2, <2>4 DEF MoneyInv, RefundsExact
<1>3. ASSUME frames # << >>
      PROVE  /\ TopFrame \in Frames /\ Front(frames) \in Seq(Frames)
             /\ SavedExact(Front(frames))
             /\ TopFrame.saved.held = TopFrame.saved.withheld + Due(Front(frames))
             /\ Due(frames) = Due(Front(frames)) + Outstanding(TopFrame)
             /\ Due(Front(frames)) \in Int
             /\ TopFrame.value \in Nat /\ TopFrame.charged \in Nat
  <2>1. TopFrame \in Frames /\ Front(frames) \in Seq(Frames)
    BY <1>0, <1>3, FrameStack
  <2>2. frames = Append(Front(frames), TopFrame)
    BY <1>0, <1>3, StackParts
  <2>3. /\ SavedExact(Front(frames))
        /\ TopFrame.saved.held = TopFrame.saved.withheld + Due(Front(frames))
    BY <1>0, <2>1, <2>2, SavedPop
  <2>4. Due(frames) = Due(Front(frames)) + Outstanding(TopFrame)
    BY <1>0, <1>3, DuePop
  <2>5. TopFrame.value \in Nat /\ TopFrame.charged \in Nat
    BY <2>1 DEF Frames
  <2> QED
    BY <2>1, <2>3, <2>4, <2>5, DueInt
<1>4. ASSUME NEW sender \in Accounts, NEW value \in 0..MaxValue, PayNative(sender, value)
      PROVE  MoneyInv'
  <2> DEFINE new == [sender |-> sender, value |-> value, charged |-> fee.amount,
                     callee |-> fee.recipient, stage |-> "fee", saved |-> Snapshot]
  <2>1. /\ frames' = Append(frames, new) /\ held' = held + value - fee.amount
        /\ withheld' = withheld
    BY <1>4 DEF PayNative
  <2>2. value \in Nat /\ fee.recipient \in Accounts \cup {NoAddress}
    BY <1>0 DEF FactoryTypeOK, FeeConfigs
  <2>3. new \in Frames
    BY <1>0, <2>2, SnapshotSound DEF Frames
  <2>4. new.saved = Snapshot /\ Outstanding(new) = value - fee.amount
    BY DEF Outstanding
  <2>5. held' = held + Outstanding(new)
    BY <1>0, <2>1, <2>2, <2>4
  <2> HIDE DEF new
  <2> QED
    BY <1>2, <2>1, <2>3, <2>4, <2>5
<1>5. ASSUME NEW sender \in Accounts, NEW value \in 0..MaxValue, PayToken(sender, value)
      PROVE  MoneyInv'
  <2> DEFINE new == [sender |-> sender, value |-> 0, charged |-> fee.amount,
                     callee |-> fee.recipient, stage |-> "last", saved |-> Snapshot]
  <2>1. frames' = Append(frames, new) /\ held' = held /\ withheld' = withheld
    BY <1>5 DEF PayToken
  <2>2. fee.recipient \in Accounts \cup {NoAddress}
    BY <1>0 DEF FactoryTypeOK, FeeConfigs
  <2>3. new \in Frames
    BY <1>0, <2>2, SnapshotSound DEF Frames
  <2>4. new.saved = Snapshot /\ Outstanding(new) = 0
    BY DEF Outstanding
  <2>5. held' = held + Outstanding(new)
    BY <1>0, <2>1, <2>4
  <2> HIDE DEF new
  <2> QED
    BY <1>2, <2>1, <2>3, <2>4, <2>5
<1>6. ASSUME RefundExcess
      PROVE  MoneyInv'
  <2> DEFINE new == [TopFrame EXCEPT !.stage = "last", !.callee = TopFrame.sender]
  <2>1. /\ frames # << >> /\ frames' = Append(Front(frames), new)
        /\ held' = held - (TopFrame.value - fee.amount)
        /\ withheld' = withheld + (fee.amount - TopFrame.charged)
        /\ TopFrame.stage = "fee"
    BY <1>6 DEF RefundExcess, Excess
  <2>2. /\ new \in Frames /\ new.saved = TopFrame.saved /\ Outstanding(new) = 0
        /\ Outstanding(TopFrame) = TopFrame.value - TopFrame.charged
    BY <1>3, <2>1 DEF Frames, Outstanding
  <2> HIDE DEF new
  <2>3. SavedExact(frames')
    BY <1>3, <2>1, <2>2, SavedPush
  <2>4. Due(frames') = Due(Front(frames)) + 0
    BY <1>3, <2>1, <2>2, DuePush
  <2>5. /\ Due(Front(frames)) \in Int /\ TopFrame.value \in Int /\ TopFrame.charged \in Int
        /\ fee.amount \in Int /\ held \in Int /\ withheld \in Int
    BY <1>0, <1>3, <2>1
  <2>6. held = withheld + (Due(Front(frames)) + (TopFrame.value - TopFrame.charged))
    BY <1>0, <1>3, <2>1, <2>2, Zenon
  <2>7. held - (TopFrame.value - fee.amount)
          = (withheld + (fee.amount - TopFrame.charged)) + (Due(Front(frames)) + 0)
    <3> DEFINE d == Due(Front(frames))
               v == TopFrame.value
               c == TopFrame.charged
               a == fee.amount
    <3>1. {d, v, c, a, held, withheld} \subseteq Int /\ held = withheld + (d + (v - c))
      BY <2>5, <2>6
    <3> HIDE DEF d, v, c, a
    <3>2. held - (v - a) = (withheld + (a - c)) + (d + 0)
      BY <3>1
    <3> QED
      BY <3>2 DEF d, v, c, a
  <2>8. held' = withheld' + Due(frames')
    BY <2>1, <2>4, <2>7, Zenon
  <2> QED
    BY <2>3, <2>8 DEF MoneyInv, RefundsExact
<1>7. ASSUME NoExcess
      PROVE  MoneyInv'
  <2>1. /\ frames # << >> /\ frames' = Front(frames) /\ held' = held
        /\ withheld' = withheld + (fee.amount - TopFrame.charged)
        /\ TopFrame.stage = "fee" /\ TopFrame.value - fee.amount = 0
    BY <1>7 DEF NoExcess, Excess
  <2>2. Outstanding(TopFrame) = TopFrame.value - TopFrame.charged
    BY <2>1 DEF Outstanding
  <2>3. /\ Due(Front(frames)) \in Int /\ TopFrame.value \in Int /\ TopFrame.charged \in Int
        /\ fee.amount \in Int /\ held \in Int /\ withheld \in Int
    BY <1>0, <1>3, <2>1
  <2>4. held = withheld + (Due(Front(frames)) + (TopFrame.value - TopFrame.charged))
    BY <1>0, <1>3, <2>1, <2>2, Zenon
  <2>5. held - (TopFrame.value - fee.amount)
          = (withheld + (fee.amount - TopFrame.charged)) + (Due(Front(frames)) + 0)
    <3> DEFINE d == Due(Front(frames))
               v == TopFrame.value
               c == TopFrame.charged
               a == fee.amount
    <3>1. {d, v, c, a, held, withheld} \subseteq Int /\ held = withheld + (d + (v - c))
      BY <2>3, <2>4
    <3> HIDE DEF d, v, c, a
    <3>2. held - (v - a) = (withheld + (a - c)) + (d + 0)
      BY <3>1
    <3> QED
      BY <3>2 DEF d, v, c, a
  <2>6. held - 0 = held /\ Due(Front(frames)) + 0 = Due(Front(frames))
    BY <2>3
  <2>7. held' = withheld' + Due(frames')
    BY <2>1, <2>5, <2>6, Zenon
  <2> QED
    BY <1>3, <2>1, <2>7 DEF MoneyInv, RefundsExact
<1>8. ASSUME FinishCreate
      PROVE  MoneyInv'
  <2>1. /\ frames # << >> /\ frames' = Front(frames) /\ held' = held
        /\ withheld' = withheld /\ TopFrame.stage = "last"
    BY <1>8 DEF FinishCreate
  <2>2. Outstanding(TopFrame) = 0
    BY <2>1 DEF Outstanding
  <2>3. held' = withheld' + Due(frames')
    BY <1>0, <1>3, <2>1, <2>2
  <2> QED
    BY <1>3, <2>1, <2>3 DEF MoneyInv, RefundsExact
<1>9. ASSUME RevertCreate
      PROVE  MoneyInv'
  <2>1. /\ frames # << >> /\ frames' = Front(frames)
        /\ held' = TopFrame.saved.held /\ withheld' = TopFrame.saved.withheld
    BY <1>9 DEF RevertCreate, Restore
  <2> QED
    BY <1>3, <2>1 DEF MoneyInv, RefundsExact
<1>10. ASSUME NEW sender \in Accounts,
              \/ \E value \in 0..MaxValue : CreateFree(sender, value)
              \/ \E v \in Programs : UpdateProgramVKey(sender, v)
              \/ \E i \in Implementations : UpgradeImplementation(sender, i)
              \/ \E f \in FeeConfigs : SetFeeConfig(sender, f)
              \/ \E a \in Candidates : TransferOwnership(sender, a)
              \/ AcceptOwnership(sender)
       PROVE  MoneyInv'
  BY <1>1, <1>10 DEF CreateFree, UpdateProgramVKey, UpgradeImplementation, SetFeeConfig,
     TransferOwnership, AcceptOwnership
<1>11. CASE UNCHANGED factoryVars
  BY <1>1, <1>11 DEF factoryVars
<1> QED
  BY <1>4, <1>5, <1>6, <1>7, <1>8, <1>9, <1>10, <1>11 DEF FactoryNext

\* createRegistry, refundExcess: for any nesting of creations, of changes of the fee
\* inside them and of reverts, the factory holds exactly what is still to be paid back
\* and what a fee that was changed under way left in it.
THEOREM RefundsExactHolds == FactorySpec => []RefundsExact
<1>1. FactoryInv /\ MoneyInv /\ [FactoryNext]_factoryVars => MoneyInv'
  BY MoneyStepInv
<1>2. MoneyInv => RefundsExact
  BY DEF MoneyInv
<1> QED
  BY FactoryInvariance, MoneyInitInv, <1>1, <1>2, PTL DEF FactorySpec
=============================================================================
