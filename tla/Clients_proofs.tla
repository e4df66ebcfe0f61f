--------------------------- MODULE Clients_proofs ---------------------------
(***************************************************************************)
(* What the clients keep: the wallet session and the pages of one registry,*)
(* for every set of accounts and any number of loads, switches and messages;*)
(* the lists of registries, for any number of registries and accounts,     *)
(* changes on chain and failing calls; the desktop wizard, for every key   *)
(* store, every configuration of the registries and any number of commands;*)
(* and the prover server, for any accounts, certificates and ages and      *)
(* however often the certificates change their places.                     *)
(***************************************************************************)
EXTENDS Clients, Inductions

-----------------------------------------------------------------------------
(***************************************************************************)
(* The wallet session.  It is told of the wallet's account late, and reads *)
(* it again on its own; the argument is that the two can only differ as long*)
(* as a message that will start another load is on its way.                *)
(***************************************************************************)

Messages == [kind : {"answer", "event"}, acc : Accounts \cup {None}]

Loads == [n : Nat, acc : Accounts, step : {"signer", "network", "state"},
          signer : Accounts \cup {None}]

PortalTypeOK ==
  /\ wallet \in Accounts /\ granted \in BOOLEAN
  /\ queue \in Seq(Messages)
  /\ account \in Accounts \cup {None}
  /\ loads \in Nat
  /\ sessions \subseteq Loads

\* The last message is about the account the site may see; without one on its way the
\* session has that account, or none.
QueueTells ==
  /\ queue = << >> => account \in {None, Selected(granted)}
  /\ queue # << >> => queue[Len(queue)].acc = Selected(granted)

\* The answer that is ignored is only the first of all messages.
IgnoredFirst ==
  /\ \A i \in 1..Len(queue) : queue[i] = AccountsAnswer(None) => i = 1
  /\ queue # << >> /\ queue[1] = AccountsAnswer(None) => account = None

\* No message on its way will change the account.
Settled == \A i \in 1..Len(queue) : queue[i].acc = account

\* The loads and the session are of the account, once no message can change it.
LoadsOfAccount ==
  account # None /\ Settled /\ ~crossed /\ ~failed =>
    /\ \A s \in sessions :
         /\ s.acc = account
         /\ s.step # "signer" => s.signer = account
         /\ s.step = "state" => signer = account /\ contract = account
    /\ sessions = {} =>
         signer = account /\ contract = account /\ isOwner = (account = Owner)

SessionInv == PortalTypeOK /\ QueueTells /\ IgnoredFirst /\ LoadsOfAccount

\* A list reads for the account on screen, and shows its rows when it has them.
ListInv ==
  page # "registry" =>
    /\ fetches \subseteq {account}
    /\ provider # None /\ (page = "dashboard" \/ account # None) /\ ~loading /\ ~error =>
         cards = account

\* The form is there, no load failed or crossed another, no registration was mined unseen
\* since, and the loads of the session
\* that are on their way have passed the point where the identity is read again.
IdentityDue ==
  /\ Form /\ contract # None /\ ~failed /\ ~idCrossed /\ ~idFailed /\ ~idMissed
  /\ \A s \in sessions : s.step = "state"

\* The identity on screen or on its way is the account's.
IdentityOfAccount ==
  /\ \A f \in idFetches : f.acc = account /\ f.val = (account \in verified)
  /\ idFetches = {} => identity = [acc |-> account, val |-> account \in verified]

IdentityInv == IdentityDue => IdentityOfAccount

-----------------------------------------------------------------------------
\* Once no message can change the account it is the wallet's.
LEMMA SettledOnWallet ==
  ASSUME SessionInv, account # None, Settled
  PROVE  granted /\ account = wallet
<1>1. account = Selected(granted)
  BY EmptySeq DEF SessionInv, PortalTypeOK, QueueTells, Settled
<1> QED
  BY <1>1 DEF Selected, SessionInv, PortalTypeOK

\* A load that meets no other is the only one, at its start.
LEMMA LoadFromStart ==
  ASSUME SessionInv, NEW acc \in Accounts, LoadSession(acc)
  PROVE  /\ loads' \in Nat /\ sessions' \subseteq Loads
         /\ ~crossed' => \A s \in sessions' : s.acc = acc /\ s.step = "signer"
         /\ \E s \in sessions' : s.step = "signer"
<1> DEFINE new == [n |-> loads + 1, acc |-> acc, step |-> "signer", signer |-> None]
<1>1. /\ loads' = loads + 1 /\ sessions' = sessions \cup {new}
      /\ crossed' = (sessions # {})
  BY PortalAssumption DEF LoadSession, PortalAssumption
<1>2. new \in Loads /\ loads' \in Nat
  BY <1>1 DEF Loads, SessionInv, PortalTypeOK
<1>3. ~crossed' => sessions' = {new}
  BY <1>1
<1> QED
  BY <1>1, <1>2, <1>3 DEF SessionInv, PortalTypeOK

\* The messages after the first.
LEMMA QueueTail ==
  ASSUME SessionInv, queue # << >>
  PROVE  /\ Head(queue) = queue[1] /\ queue[1] \in Messages
         /\ Tail(queue) \in Seq(Messages)
         /\ Len(queue) \in Nat \ {0} /\ Len(Tail(queue)) = Len(queue) - 1
         /\ \A i \in 1..Len(Tail(queue)) : Tail(queue)[i] = queue[i + 1]
         /\ Tail(queue) = << >> => Len(queue) = 1
<1>1. queue \in Seq(Messages)
  BY DEF SessionInv, PortalTypeOK
<1>2. Len(queue) \in Nat \ {0} /\ Head(queue) = queue[1] /\ queue[1] \in Messages
  BY <1>1, EmptySeq
<1>3. /\ Tail(queue) \in Seq(Messages) /\ Len(Tail(queue)) = Len(queue) - 1
      /\ \A i \in 1..Len(Tail(queue)) : Tail(queue)[i] = queue[i + 1]
  BY <1>1, HeadTailProperties
<1>4. Tail(queue) = << >> => Len(queue) = 1
  <2>1. Tail(queue) = << >> => Len(Tail(queue)) = 0
    BY EmptySeq
  <2> QED
    BY <1>2, <1>3, <2>1
<1> QED
  BY <1>2, <1>3, <1>4
\* A load that goes on stays a load of the same account.
LEMMA LoadAdvanced ==
  ASSUME SessionInv, NEW s \in sessions, NEW stage \in {"network", "state"},
         NEW sgn \in Accounts \cup {None}, Advance(s, stage, sgn)
  PROVE  /\ sessions' \subseteq Loads /\ sessions' # {}
         /\ \A t \in sessions' :
              t \in sessions \/ (t.acc = s.acc /\ t.step = stage /\ t.signer = sgn)
         /\ \E t \in sessions' : t.step = stage
<1> DEFINE new == [s EXCEPT !.step = stage, !.signer = sgn]
<1>1. s \in Loads /\ sessions \subseteq Loads
  BY DEF SessionInv, PortalTypeOK
<1>2. new \in Loads /\ new.acc = s.acc /\ new.step = stage /\ new.signer = sgn
  BY <1>1 DEF Loads
<1>3. sessions' = (sessions \ {s}) \cup {new}
  BY DEF Advance
<1> HIDE DEF new
<1>4. sessions' \subseteq Loads /\ new \in sessions'
  BY <1>1, <1>2, <1>3
<1>5. \A t \in sessions' : t \in sessions \/ t = new
  BY <1>3
<1> QED
  BY <1>2, <1>4, <1>5

LEMMA SessionInitInv == PortalInit => SessionInv
<1> SUFFICES ASSUME PortalInit PROVE SessionInv
  OBVIOUS
<1> DEFINE first == AccountsAnswer(Selected(granted))
<1>1. first \in Messages /\ first.acc = Selected(granted)
  BY DEF PortalInit, Messages, AccountsAnswer, Selected
<1>2. queue = <<first>> /\ queue \in Seq(Messages) /\ Len(queue) = 1 /\ queue[1] = first
  BY <1>1 DEF PortalInit
<1>3. PortalTypeOK
  BY <1>2 DEF PortalInit, PortalTypeOK
<1>4. QueueTells /\ IgnoredFirst /\ LoadsOfAccount
  BY <1>1, <1>2 DEF PortalInit, QueueTells, IgnoredFirst, LoadsOfAccount
<1> QED
  BY <1>3, <1>4 DEF SessionInv

\* A message that the wallet appends tells its account.
LEMMA MessageAppended ==
  ASSUME SessionInv, NEW m \in Messages, queue' = Append(queue, m),
         wallet' \in Accounts, granted' \in BOOLEAN, m.acc = Selected(granted)',
         m # AccountsAnswer(None), UNCHANGED <<account, sessions, loads, crossed, failed,
                                               signer, contract, isOwner>>
  PROVE  SessionInv'
<1> DEFINE n == Len(queue)
<1>1. /\ queue \in Seq(Messages) /\ n \in Nat
      /\ queue' \in Seq(Messages) /\ Len(queue') = n + 1 /\ queue'[n + 1] = m
      /\ \A i \in 1..n : queue'[i] = queue[i]
      /\ queue' # << >>
  BY DEF SessionInv, PortalTypeOK
<1>2. PortalTypeOK'
  BY <1>1 DEF SessionInv, PortalTypeOK
<1>3. QueueTells'
  BY <1>1 DEF QueueTells, Selected
<1>4. IgnoredFirst'
  <2>1. \A i \in 1..Len(queue') : queue'[i] = AccountsAnswer(None) => i = 1 /\ queue # << >>
    BY <1>1 DEF SessionInv, IgnoredFirst, AccountsAnswer
  <2>2. queue # << >> => queue'[1] = queue[1]
    BY <1>1, EmptySeq
  <2> QED
    BY <1>1, <2>1, <2>2 DEF SessionInv, IgnoredFirst, AccountsAnswer
<1>5. LoadsOfAccount'
  <2>1. Settled' => Settled
    BY <1>1 DEF Settled
  <2> QED
    BY <2>1 DEF SessionInv, LoadsOfAccount
<1> QED
  BY <1>2, <1>3, <1>4, <1>5 DEF SessionInv

\* The first message is taken: whoever is told of another account loads it.
LEMMA MessageTaken == SessionInv /\ Message => SessionInv'
<1> SUFFICES ASSUME SessionInv, Message PROVE SessionInv'
  OBVIOUS
<1>1. /\ queue # << >> /\ queue' = Tail(queue)
      /\ UNCHANGED <<wallet, granted, provider, signer, contract, isOwner>>
  BY DEF Message
<1>2. /\ Head(queue) = queue[1] /\ queue[1] \in Messages
      /\ queue' \in Seq(Messages)
      /\ Len(queue) \in Nat \ {0} /\ Len(queue') = Len(queue) - 1
      /\ \A i \in 1..Len(queue') : queue'[i] = queue[i + 1]
      /\ queue' = << >> => Len(queue) = 1
  BY <1>1, QueueTail
<1>3. queue' # << >> => queue'[Len(queue')] = queue[Len(queue)] /\ Len(queue') > 0
  BY <1>2, EmptySeq
<1>4. \A i \in 1..Len(queue') : queue'[i] # AccountsAnswer(None)
  BY <1>2 DEF SessionInv, IgnoredFirst
<1>5. IgnoredFirst'
  BY <1>2, <1>3, <1>4 DEF IgnoredFirst, AccountsAnswer
<1>6. CASE queue[1] = AccountsAnswer(None)
  <2>1. account = None /\ UNCHANGED <<account, loadVars>>
    BY <1>1, <1>2, <1>6 DEF Message, SessionInv, IgnoredFirst
  <2>2. PortalTypeOK'
    BY <1>1, <1>2, <2>1 DEF SessionInv, PortalTypeOK, loadVars
  <2>3. QueueTells'
    BY <1>1, <1>2, <1>3, <2>1 DEF SessionInv, QueueTells, Selected
  <2>4. LoadsOfAccount'
    BY <2>1 DEF LoadsOfAccount
  <2> QED
    BY <1>5, <2>2, <2>3, <2>4 DEF SessionInv
<1>7. CASE queue[1] # AccountsAnswer(None)
  <2> DEFINE acc == queue[1].acc
  <2>1. SetAccount(acc) /\ account' = acc /\ acc \in Accounts \cup {None}
    BY <1>1, <1>2, <1>7 DEF Message, SetAccount, Messages
  <2>2. QueueTells'
    BY <1>1, <1>2, <1>3, <2>1 DEF SessionInv, QueueTells, Selected
  <2>3. CASE acc = account
    <3>1. UNCHANGED loadVars
      BY <2>1, <2>3 DEF SetAccount
    <3>2. PortalTypeOK'
      BY <1>1, <1>2, <2>1, <3>1 DEF SessionInv, PortalTypeOK, loadVars
    <3>3. Settled' => Settled
      <4> SUFFICES ASSUME Settled', NEW i \in 1..Len(queue) PROVE queue[i].acc = account
        BY DEF Settled
      <4>1. CASE i = 1
        BY <2>3, <4>1
      <4>2. CASE i # 1
        <5>1. i - 1 \in 1..Len(queue') /\ queue'[i - 1] = queue[i]
          BY <1>2, <4>2
        <5> QED
          BY <2>1, <2>3, <5>1 DEF Settled
      <4> QED
        BY <4>1, <4>2
    <3>4. LoadsOfAccount'
      BY <1>1, <2>1, <2>3, <3>1, <3>3 DEF SessionInv, LoadsOfAccount, loadVars
    <3> QED
      BY <1>5, <2>2, <3>2, <3>4 DEF SessionInv
  <2>4. CASE acc # account /\ acc = None
    <3>1. UNCHANGED loadVars
      BY <2>1, <2>4 DEF SetAccount, AfterAccount, LoadSession
    <3>2. PortalTypeOK'
      BY <1>1, <1>2, <2>1, <3>1 DEF SessionInv, PortalTypeOK, loadVars
    <3> QED
      BY <1>5, <2>1, <2>2, <2>4, <3>2 DEF SessionInv, LoadsOfAccount
  <2>5. CASE acc # account /\ acc # None
    <3>1. LoadSession(acc) /\ acc \in Accounts
      BY <2>1, <2>5 DEF SetAccount, AfterAccount
    <3>2. PortalTypeOK'
      BY <1>1, <1>2, <2>1, <3>1, LoadFromStart DEF SessionInv, PortalTypeOK
    <3>3. LoadsOfAccount'
      BY <2>1, <3>1, LoadFromStart DEF LoadsOfAccount
    <3> QED
      BY <1>5, <2>2, <3>2, <3>3 DEF SessionInv
  <2> QED
    BY <2>3, <2>4, <2>5
<1> QED
  BY <1>6, <1>7

LEMMA SessionStepInv ==
  ASSUME SessionInv, [PortalNext]_portalVars
  PROVE  SessionInv'
<1> USE DEF walletVars, sessionVars, loadVars, pageVars, idVars
<1>1. ASSUME Switch
      PROVE  SessionInv'
  <2> DEFINE m == AccountsEvent(Selected(granted)')
  <2>1. wallet' \in Accounts /\ granted' \in BOOLEAN /\ (~granted => ~granted')
    <3>1. wallet \in Accounts /\ granted \in BOOLEAN
      BY DEF SessionInv, PortalTypeOK
    <3>2. wallet' \in Accounts
      BY <1>1, <3>1 DEF Switch
    <3>3. granted' = granted \/ granted' = FALSE
      BY <1>1 DEF Switch
    <3>4. granted' \in BOOLEAN
      BY <3>1, <3>3
    <3>5. ~granted => ~granted'
      BY <3>3, Zenon
    <3> QED
      BY <3>2, <3>4, <3>5
  <2>2. UNCHANGED <<account, sessions, loads, crossed, failed, signer, contract, isOwner>>
    BY <1>1 DEF Switch
  <2>3. CASE granted
    <3>1. queue' = Append(queue, m)
      BY <1>1, <2>3 DEF Switch, Selected
    <3>2. m \in Messages /\ m.acc = Selected(granted)' /\ m # AccountsAnswer(None)
      BY <2>1 DEF Messages, AccountsEvent, AccountsAnswer, Selected
    <3> QED
      BY <2>1, <2>2, <3>1, <3>2, MessageAppended
  <2>4. CASE ~granted
    <3>1. queue' = queue /\ Selected(granted)' = Selected(granted)
      BY <1>1, <2>1, <2>4 DEF Switch, Selected
    <3> QED
      BY <2>1, <2>2, <3>1
      DEF SessionInv, PortalTypeOK, QueueTells, IgnoredFirst, LoadsOfAccount, Settled
  <2> QED
    BY <2>3, <2>4 DEF SessionInv, PortalTypeOK
<1>2. ASSUME ConnectWallet
      PROVE  SessionInv'
  <2> DEFINE m == AccountsAnswer(wallet)
  <2>1. /\ queue' = Append(queue, m) /\ granted' = TRUE /\ wallet' = wallet
        /\ UNCHANGED <<account, sessions, loads, crossed, failed, signer, contract, isOwner>>
    BY <1>2 DEF ConnectWallet
  <2>2. /\ wallet' \in Accounts /\ m \in Messages /\ m.acc = Selected(granted)'
        /\ m # AccountsAnswer(None)
    BY <2>1, PortalAssumption
    DEF PortalAssumption, SessionInv, PortalTypeOK, Messages, AccountsAnswer, Selected
  <2> QED
    BY <2>1, <2>2, MessageAppended
<1>3. ASSUME Message
      PROVE  SessionInv'
  BY <1>3, MessageTaken
<1>4. ASSUME Disconnect
      PROVE  SessionInv'
  BY <1>4 DEF Disconnect, SessionInv, PortalTypeOK, QueueTells, IgnoredFirst, LoadsOfAccount,
     Selected
<1>5. ASSUME Submit \/ Refused \/ WaitFails \/ Dismiss
      PROVE  SessionInv'
  BY <1>5 DEF Submit, Refused, WaitFails, Dismiss, SessionInv, PortalTypeOK, QueueTells, IgnoredFirst,
     LoadsOfAccount, Settled, Selected
<1>6. ASSUME Confirmed
      PROVE  SessionInv'
  <2>1. LoadSession(account) /\ UNCHANGED <<walletVars, sessionVars>>
    BY <1>6 DEF Confirmed, AfterConfirmed
  <2>2. QueueTells' /\ IgnoredFirst'
    BY <2>1 DEF SessionInv, QueueTells, IgnoredFirst, Selected
  <2>3. CASE account = None
    BY <2>1, <2>2, <2>3 DEF LoadSession, SessionInv, PortalTypeOK, LoadsOfAccount
  <2>4. CASE account # None
    <3>1. account \in Accounts
      BY <2>4 DEF SessionInv, PortalTypeOK
    <3>2. PortalTypeOK' /\ LoadsOfAccount'
      BY <2>1, <3>1, LoadFromStart DEF SessionInv, PortalTypeOK, LoadsOfAccount
    <3> QED
      BY <2>2, <3>2 DEF SessionInv
  <2> QED
    BY <2>3, <2>4
<1>7. ASSUME NEW s \in sessions, GotSigner(s)
      PROVE  SessionInv'
  <2>1. /\ Advance(s, "network", wallet) /\ granted
        /\ UNCHANGED <<walletVars, sessionVars, loads, crossed, failed>>
    BY <1>7 DEF GotSigner
  <2>2. /\ sessions' \subseteq Loads /\ sessions' # {}
        /\ \A t \in sessions' :
             t \in sessions \/ (t.acc = s.acc /\ t.step = "network" /\ t.signer = wallet)
    <3>1. wallet \in Accounts \cup {None} /\ "network" \in {"network", "state"}
      BY DEF SessionInv, PortalTypeOK
    <3> QED
      BY <2>1, <3>1, LoadAdvanced, Zenon
  <2>3. PortalTypeOK' /\ QueueTells' /\ IgnoredFirst'
    BY <2>1, <2>2 DEF SessionInv, PortalTypeOK, QueueTells, IgnoredFirst, Selected
  <2>4. LoadsOfAccount'
    <3> SUFFICES ASSUME account # None, Settled, ~crossed, ~failed
                 PROVE  \A t \in sessions' :
                          /\ t.acc = account
                          /\ t.step # "signer" => t.signer = account
                          /\ t.step = "state" => signer = account /\ contract = account
      BY <2>1, <2>2 DEF LoadsOfAccount, Settled
    <3>1. wallet = account
      BY SettledOnWallet
    <3> QED
      BY <2>2, <3>1 DEF SessionInv, LoadsOfAccount
  <2> QED
    BY <2>3, <2>4 DEF SessionInv
<1>8. ASSUME NEW s \in sessions, GotNetwork(s)
      PROVE  SessionInv'
  <2>1. /\ s.step = "network" /\ Advance(s, "state", s.signer)
        /\ signer' = s.signer /\ contract' = s.signer
        /\ UNCHANGED <<walletVars, account, isOwner, loads, crossed, failed>>
    BY <1>8 DEF GotNetwork
  <2>2. s.signer \in Accounts \cup {None}
    BY DEF SessionInv, PortalTypeOK, Loads
  <2>3. /\ sessions' \subseteq Loads /\ sessions' # {}
        /\ \A t \in sessions' :
             t \in sessions \/ (t.acc = s.acc /\ t.step = "state" /\ t.signer = s.signer)
    <3>1. "state" \in {"network", "state"}
      OBVIOUS
    <3> QED
      BY <2>1, <2>2, <3>1, LoadAdvanced, Zenon
  <2>4. PortalTypeOK' /\ QueueTells' /\ IgnoredFirst'
    BY <2>1, <2>3 DEF SessionInv, PortalTypeOK, QueueTells, IgnoredFirst, Selected
  <2>5. LoadsOfAccount'
    BY <2>1, <2>3 DEF SessionInv, LoadsOfAccount, Settled
  <2> QED
    BY <2>4, <2>5 DEF SessionInv
<1>9. ASSUME NEW s \in sessions, GotState(s)
      PROVE  SessionInv'
  <2>1. /\ s.step = "state" /\ sessions' = sessions \ {s}
        /\ UNCHANGED <<walletVars, account, signer, contract, loads, crossed>>
        /\ failed' \/ (isOwner' = (s.acc = Owner) /\ UNCHANGED failed)
    BY <1>9 DEF GotState
  <2>2. PortalTypeOK' /\ QueueTells' /\ IgnoredFirst'
    BY <2>1 DEF SessionInv, PortalTypeOK, QueueTells, IgnoredFirst, Selected
  <2>3. LoadsOfAccount'
    BY <2>1 DEF SessionInv, LoadsOfAccount, Settled
  <2> QED
    BY <2>2, <2>3 DEF SessionInv
<1>10. ASSUME NEW s \in sessions, SessionFails(s)
       PROVE  SessionInv'
  BY <1>10 DEF SessionFails, SessionInv, PortalTypeOK, QueueTells, IgnoredFirst,
     LoadsOfAccount, Selected
<1>11. ASSUME NEW acc, Fetched(acc)
       PROVE  SessionInv'
  BY <1>11 DEF Fetched, SessionInv, PortalTypeOK, QueueTells, IgnoredFirst, LoadsOfAccount,
     Settled, Selected
<1>12. ASSUME NEW f, IdFetched(f)
       PROVE  SessionInv'
  BY <1>12 DEF IdFetched, SessionInv, PortalTypeOK, QueueTells, IgnoredFirst, LoadsOfAccount,
     Settled, Selected
<1>13. CASE UNCHANGED portalVars
  BY <1>13 DEF portalVars, SessionInv, PortalTypeOK, QueueTells, IgnoredFirst, LoadsOfAccount,
     Settled, Selected
<1> QED
  BY <1>1, <1>2, <1>3, <1>4, <1>5, <1>6, <1>7, <1>8, <1>9, <1>10, <1>11, <1>12, <1>13
  DEF PortalNext

LEMMA SessionInvariance == PortalSpec => []SessionInv
<1>1. SessionInv /\ [PortalNext]_portalVars => SessionInv'
  BY SessionStepInv
<1> QED
  BY SessionInitInv, <1>1, PTL DEF PortalSpec

-----------------------------------------------------------------------------
\* The effect of a list that runs again for acc leaves only the read for acc.
LEMMA ListEffect ==
  ASSUME page # "registry", NEW acc, NEW hasProvider \in BOOLEAN, PageEffect(acc, hasProvider)
  PROVE  /\ fetches' \subseteq {acc}
         /\ hasProvider /\ (page = "dashboard" \/ acc # None) => loading'
  BY DEF PageEffect, OwnedEffect, IdentityEffect, DashboardEffect, AboutAccount, FetchesAfter

LEMMA ListStepInv ==
  ASSUME ListInv, [PortalNext]_portalVars
  PROVE  ListInv'
<1> USE DEF walletVars, sessionVars, loadVars, pageVars, idVars
<1>1. ASSUME Message
      PROVE  ListInv'
  <2>1. UNCHANGED <<page, provider>>
    BY <1>1 DEF Message
  <2>2. CASE UNCHANGED <<account, pageVars>>
    BY <2>1, <2>2 DEF ListInv
  <2>3. CASE ~UNCHANGED <<account, pageVars>>
    <3> DEFINE acc == Head(queue).acc
               hasProvider == provider # None
    <3>1. \/ account' = acc /\ PageEffect(acc, hasProvider)
          \/ UNCHANGED <<account, pageVars>>
      BY <1>1 DEF Message, SetAccount
    <3>2. account' = acc /\ PageEffect(acc, hasProvider)
      BY <2>3, <3>1
    <3>3. hasProvider \in BOOLEAN
      OBVIOUS
    <3>4. page # "registry" =>
            /\ fetches' \subseteq {acc}
            /\ hasProvider /\ (page = "dashboard" \/ acc # None) => loading'
      <4> HIDE DEF acc, hasProvider
      <4> QED
        BY <3>2, <3>3, ListEffect
    <3> QED
      BY <2>1, <3>2, <3>4 DEF ListInv
  <2> QED
    BY <2>2, <2>3
<1>2. ASSUME Disconnect
      PROVE  ListInv'
  <2>1. account' = None /\ provider' = None /\ page' = page /\ PageEffect(None, FALSE)
    BY <1>2 DEF Disconnect
  <2>2. page # "registry" => fetches' \subseteq {None}
    BY <2>1, ListEffect
  <2> QED
    BY <2>1, <2>2 DEF ListInv
<1>3. ASSUME NEW s, GotNetwork(s)
      PROVE  ListInv'
  <2>1. account' = account /\ page' = page
    BY <1>3 DEF GotNetwork
  <2>2. CASE provider = None
    <3>1. PageEffect(account, TRUE)
      BY <1>3, <2>2 DEF GotNetwork
    <3>2. page # "registry" => /\ fetches' \subseteq {account}
                               /\ page = "dashboard" \/ account # None => loading'
      BY <3>1, ListEffect
    <3> QED
      BY <2>1, <3>2 DEF ListInv
  <2>3. CASE provider # None
    BY <1>3, <2>1, <2>3 DEF GotNetwork, ListInv
  <2> QED
    BY <2>2, <2>3
<1>4. ASSUME NEW acc \in fetches, Fetched(acc)
      PROVE  ListInv'
  <2>1. /\ fetches' = fetches \ {acc} /\ UNCHANGED <<page, account, provider>>
        /\ cards' = acc \/ error'
    BY <1>4 DEF Fetched
  <2> QED
    BY <2>1 DEF ListInv
<1>5. CASE UNCHANGED <<page, account, provider, pageVars>>
  BY <1>5 DEF ListInv
<1>6. Switch \/ ConnectWallet \/ Submit \/ Confirmed \/ Refused \/ WaitFails \/ Dismiss
        => UNCHANGED <<page, account, provider, pageVars>>
  BY DEF Switch, ConnectWallet, Submit, Confirmed, Refused, WaitFails, Dismiss
<1>7. ASSUME NEW s, GotSigner(s) \/ GotState(s) \/ SessionFails(s)
      PROVE  UNCHANGED <<page, account, provider, pageVars>>
  BY <1>7 DEF GotSigner, GotState, SessionFails
<1>8. ASSUME NEW f, IdFetched(f)
      PROVE  UNCHANGED <<page, account, provider, pageVars>>
  BY <1>8 DEF IdFetched
<1>9. CASE UNCHANGED portalVars
  BY <1>9 DEF portalVars, ListInv
<1> QED
  BY <1>1, <1>2, <1>3, <1>4, <1>5, <1>6, <1>7, <1>8, <1>9 DEF PortalNext

LEMMA ListInvariance == PortalSpec => []ListInv
<1>1. PortalInit => ListInv
  BY DEF PortalInit, ListInv
<1>2. ListInv /\ [PortalNext]_portalVars => ListInv'
  BY ListStepInv
<1> QED
  BY <1>1, <1>2, PTL DEF PortalSpec

-----------------------------------------------------------------------------
\* Reading the identity again leaves one read, of the account.
LEMMA IdentityRead ==
  ASSUME page = "registry", account' # None, NEW con, con # None,
         IdEffect(account', con, TRUE), verified' = verified, ~idCrossed'
  PROVE  IdentityOfAccount'
<1> DEFINE new == [n |-> loads, acc |-> account', val |-> account' \in verified]
<1>1. idFetches' = idFetches \cup {new} /\ idCrossed' = (idFetches # {})
  BY DEF IdEffect
<1>2. idFetches' = {new}
  BY <1>1
<1>3. new.acc = account' /\ new.val = (account' \in verified')
  OBVIOUS
<1> HIDE DEF new
<1> QED
  BY <1>2, <1>3 DEF IdentityOfAccount

LEMMA IdentityStepInv ==
  ASSUME SessionInv, IdentityInv, [PortalNext]_portalVars
  PROVE  IdentityInv'
<1> SUFFICES ASSUME IdentityDue' PROVE IdentityOfAccount'
  BY DEF IdentityInv
<1> USE DEF walletVars, sessionVars, loadVars, pageVars, idVars
<1>1. CASE /\ IdentityDue
           /\ UNCHANGED <<idFetches, identity, account, verified>>
  BY <1>1 DEF IdentityInv, IdentityOfAccount
<1>2. ASSUME Message
      PROVE  IdentityOfAccount'
  <2> DEFINE acc == Head(queue).acc
  <2>1. UNCHANGED <<page, contract, verified>> /\ page = "registry" /\ account' # None
    BY <1>2 DEF Message, IdentityDue, Form
  <2>2. CASE UNCHANGED <<account, loadVars, pageVars, idVars>>
    BY <1>1, <2>1, <2>2 DEF IdentityDue, Form, Shown
  <2>3. CASE ~UNCHANGED <<account, loadVars, pageVars, idVars>>
    <3>1. /\ account' = acc /\ AfterAccount(acc) /\ PageEffect(acc, provider # None)
          /\ IdEffect(acc, contract, Shown)
      BY <1>2, <2>3 DEF Message, SetAccount
    <3>2. UNCHANGED <<loading, error>>
      BY <2>1, <3>1 DEF PageEffect, RegistryEffect
    <3>3. Shown /\ contract # None /\ ~idCrossed'
      BY <2>1, <3>2 DEF IdentityDue, Form, Shown
    <3>4. IdEffect(account', contract, TRUE)
      BY <3>1, <3>3 DEF IdEffect
    <3> QED
      BY <2>1, <3>3, <3>4, IdentityRead
  <2> QED
    BY <2>2, <2>3
<1>3. ASSUME Disconnect
      PROVE  IdentityOfAccount'
  BY <1>3 DEF Disconnect, IdentityDue, Form
<1>4. ASSUME NEW s \in sessions, GotSigner(s)
      PROVE  IdentityOfAccount'
  <2>1. wallet \in Accounts \cup {None} /\ "network" \in {"network", "state"}
    BY DEF SessionInv, PortalTypeOK
  <2>2. Advance(s, "network", wallet)
    BY <1>4 DEF GotSigner
  <2>3. \E t \in sessions' : t.step = "network"
    BY <2>1, <2>2, LoadAdvanced, Zenon
  <2> QED
    BY <2>3 DEF IdentityDue
<1>5. ASSUME NEW s \in sessions, GotNetwork(s)
      PROVE  IdentityOfAccount'
  <2>1. /\ UNCHANGED <<page, account, verified>> /\ contract' = s.signer
        /\ IdEffect(account, s.signer, Shown)
        /\ PageEffect(account, TRUE) \/ UNCHANGED pageVars
    BY <1>5 DEF GotNetwork
  <2>2. page = "registry" /\ account' # None /\ s.signer # None /\ ~idCrossed'
    BY <2>1 DEF IdentityDue, Form
  <2>3. UNCHANGED <<loading, error>>
    BY <2>1, <2>2 DEF PageEffect, RegistryEffect
  <2>4. Shown
    BY <2>3 DEF IdentityDue, Form, Shown
  <2>5. IdEffect(account', s.signer, TRUE)
    BY <2>1, <2>4 DEF IdEffect
  <2> QED
    BY <2>1, <2>2, <2>5, IdentityRead
<1>6. ASSUME NEW s \in sessions, GotState(s)
      PROVE  IdentityOfAccount'
  <2>1. /\ s.step = "state" /\ sessions' = sessions \ {s}
        /\ failed' = TRUE \/ UNCHANGED failed
        /\ UNCHANGED <<page, account, contract, loading, error, verified, idVars>>
    BY <1>6 DEF GotState
  <2> QED
    BY <1>1, <2>1 DEF IdentityDue, Form, Shown
<1>7. ASSUME NEW s \in sessions, SessionFails(s)
      PROVE  IdentityOfAccount'
  BY <1>7 DEF SessionFails, IdentityDue
<1>8. ASSUME NEW acc \in fetches, Fetched(acc)
      PROVE  IdentityOfAccount'
  <2>1. /\ UNCHANGED <<page, account, contract, failed, sessions, verified>>
        /\ page = "registry" /\ account # None /\ contract # None /\ ~error' /\ ~idCrossed'
    BY <1>8 DEF Fetched, IdentityDue, Form, Shown
  <2>2. UNCHANGED error /\ IdEffect(account, contract, loading /\ ~error /\ account # None)
    BY <1>8, <2>1 DEF Fetched
  <2>3. CASE loading
    <3>1. IdEffect(account', contract, TRUE)
      BY <2>1, <2>2, <2>3 DEF IdEffect
    <3> QED
      BY <2>1, <3>1, IdentityRead
  <2>4. CASE ~loading
    <3>1. UNCHANGED idVars
      BY <2>2, <2>4 DEF IdEffect
    <3> QED
      BY <1>1, <2>1, <2>2, <2>4, <3>1 DEF IdentityDue, Form, Shown
  <2> QED
    BY <2>3, <2>4
<1>9. ASSUME NEW f \in idFetches, IdFetched(f)
      PROVE  IdentityOfAccount'
  <2>1. /\ idFetches' = idFetches \ {f} /\ identity' = [acc |-> f.acc, val |-> f.val]
        /\ UNCHANGED <<page, account, contract, loading, error, failed, sessions, verified,
                       idCrossed, idFailed, idMissed>>
    BY <1>9 DEF IdFetched, IdentityDue
  <2>2. IdentityOfAccount
    BY <2>1 DEF IdentityInv, IdentityDue, Form, Shown
  <2> QED
    BY <2>1, <2>2 DEF IdentityOfAccount
<1>10. ASSUME Confirmed
       PROVE  IdentityOfAccount'
  <2>1. LoadSession(account) /\ account' = account
    BY <1>10 DEF Confirmed, AfterConfirmed
  <2>2. account \in Accounts
    BY <2>1 DEF IdentityDue, Form, SessionInv, PortalTypeOK
  <2>3. \E s \in sessions' : s.step = "signer"
    BY <2>1, <2>2, LoadFromStart
  <2> QED
    BY <2>3 DEF IdentityDue
<1>11. Switch \/ ConnectWallet \/ Submit \/ Refused \/ Dismiss
         => UNCHANGED <<page, account, contract, pageVars, idVars, failed, sessions, verified>>
  BY DEF Switch, ConnectWallet, Submit, Refused, Dismiss
<1>12. CASE UNCHANGED <<page, account, contract, pageVars, idVars, failed, sessions, verified>>
  BY <1>1, <1>12 DEF IdentityDue, Form, Shown
<1>13. CASE UNCHANGED portalVars
  BY <1>12, <1>13 DEF portalVars
<1>14. ASSUME WaitFails
       PROVE  IdentityOfAccount'
  BY <1>14 DEF WaitFails, IdentityDue
<1> QED
  BY <1>2, <1>3, <1>4, <1>5, <1>6, <1>7, <1>8, <1>9, <1>10, <1>11, <1>12, <1>13, <1>14
  DEF PortalNext

LEMMA IdentityInvariance == PortalSpec => []IdentityInv
<1>1. PortalInit => IdentityInv
  BY DEF PortalInit, IdentityInv, IdentityDue
<1>2. SessionInv /\ IdentityInv /\ [PortalNext]_portalVars => IdentityInv'
  BY IdentityStepInv
<1> QED
  BY <1>1, <1>2, SessionInvariance, PTL DEF PortalSpec

-----------------------------------------------------------------------------
\* lib/wallet.tsx: once the wallet is quiet, the account on screen signs and is the owner
\* if the registry says so, unless two loads crossed or one failed.
THEOREM SessionOfAccountHolds == PortalSpec => []SessionOfAccount
<1>1. SessionInv => SessionOfAccount
  BY EmptySeq DEF SessionInv, LoadsOfAccount, SessionOfAccount, Quiet, Settled
<1> QED
  BY SessionInvariance, <1>1, PTL

\* app/admin, app/identity, app/dashboard: a list never shows the answer for an account
\* that is not the one on screen.
THEOREM ListOfAccountHolds == PortalSpec => []ListOfAccount
<1>1. ListInv => ListOfAccount
  BY DEF ListInv, ListOfAccount, OwnedShown, IdentityShown, DashboardShown
<1> QED
  BY ListInvariance, <1>1, PTL

\* components/DashboardContent.tsx: the form ends up with the identity of the account on
\* screen, also when the account changed under a registration; unless a read failed or
\* crossed another, or a registration was mined unseen since the last read.
THEOREM IdentityCatchesUpHolds == PortalSpec => []IdentityCatchesUp
<1>1. IdentityInv => IdentityCatchesUp
  BY DEF IdentityInv, IdentityDue, IdentityOfAccount, IdentityCatchesUp, Quiet
<1> QED
  BY IdentityInvariance, <1>1, PTL

-----------------------------------------------------------------------------
(***************************************************************************)
(* The lists of registries.                                                *)
(***************************************************************************)

-----------------------------------------------------------------------------
(* The inductive invariant. *)

Facts == {"paused", "verified", "until", "owner"}
CallNames == {"isVerified", "verifiedUntil", "registryInfo", "getCaCount", "paused",
              "requiredCountry", "requiredOrg", "requiredOrgUnit", "requiredCommonName"}
Answers == Accounts \cup Registries \cup BOOLEAN \cup Times \cup {Failed, Pending}
Results == [of : Registries, fn : CallNames, val : Answers]
Reads == [kind : Kinds, acct : {Wallet, None},
          step : {"addresses", "batch", "answers", "shown"},
          targets : Seq(Registries), listed : (SUBSET Registries) \cup {Pending},
          results : Seq(Results), split : BOOLEAN]

CallsMade == CallsOf(read.kind, read.acct)
Batched == read.step \in {"answers", "shown"}
OnScreen == read.step = "shown"

ReaderTypeOK ==
  /\ made \in Seq(Registries) /\ now \in Nat /\ fails \in Nat
  /\ chain \in [Registries -> RegistryState]
  /\ listed \subseteq Registries
  /\ read \in Reads
  /\ DOMAIN was = Registries /\ \A r \in Registries : DOMAIN was[r] = Facts
  /\ steady \subseteq Registries

\* The histories: what is true now has been seen, and a steady registry is verified
\* and visible, since the batch began in every answer.
Remembered ==
  /\ \A r \in Registries : \A x \in Facts : Now(r)[x] \subseteq was[r][x]
  /\ \A r \in steady : IsVerified(r) /\ Visible(r, read.kind)
  /\ Batched => \A r \in steady : was[r].verified \subseteq {TRUE}

\* A steady registry is among the addresses once they are read, and on the list of the
\* dashboard once that is read.
SteadyRead ==
  /\ read.kind # "status" =>
       \/ read.step = "addresses" /\ read.targets = << >>
       \/ steady \subseteq Range(read.targets)
  /\ read.kind = "dashboard" =>
       \/ read.step = "addresses" /\ read.listed = Pending
       \/ steady \subseteq read.listed

\* What a call may have answered, with these states and histories of the registries.
Possible(result, regs, seen) ==
  \/ result.val \in {Pending, Failed}
  \/ /\ result.fn = "registryInfo" => result.val = regs[result.of].creator
     /\ result.fn = "paused" => result.val \in BOOLEAN \cap seen[result.of].paused
     /\ result.fn = "isVerified" => result.val \in BOOLEAN \cap seen[result.of].verified
     /\ result.fn = "verifiedUntil" => result.val \in seen[result.of].until

\* Every position holds an answer to its own call.
Positioned ==
  Batched =>
    /\ Len(read.results) = Len(read.targets) * Len(CallsMade)
    /\ \A i \in DOMAIN read.results :
         /\ read.results[i].of = read.targets[((i - 1) \div Len(CallsMade)) + 1]
         /\ read.results[i].fn = CallsMade[((i - 1) % Len(CallsMade)) + 1]
         /\ Possible(read.results[i], chain, was)
         /\ fails = 0 => read.results[i].val # Failed
         /\ OnScreen => read.results[i].val # Pending

\* The rows are those of the targets that the list shows.
RowsOfTargets ==
  IF OnScreen THEN \A row : row \in ShownRows <=>
                   \E k \in DOMAIN read.targets : row = Row(k) /\ Shows(row)
           ELSE rows = << >>

ReaderInv == ReaderTypeOK /\ Remembered /\ SteadyRead /\ Positioned /\ RowsOfTargets

-----------------------------------------------------------------------------
(* The calls of a registry and the positions of their results. *)

LEMMA CallsShape ==
  ASSUME NEW kind \in Kinds, NEW acct
  PROVE  /\ CallsOf(kind, acct) \in Seq(CallNames)
         /\ Len(CallsOf(kind, acct)) \in {2, 3, 7, 9}
<1> DEFINE two == <<"isVerified", "verifiedUntil">>
           seven == <<"registryInfo", "getCaCount", "paused", "requiredCountry",
                      "requiredOrg", "requiredOrgUnit", "requiredCommonName">>
<1>1. two \in Seq(CallNames) /\ Len(two) = 2
  BY DEF CallNames
<1>2. seven \in Seq(CallNames) /\ Len(seven) = 7
  BY DEF CallNames
<1>3. CASE kind = "owned"
  BY <1>3 DEF CallsOf, CallNames
<1>4. CASE kind = "identity"
  <2>1. CallsOf(kind, acct) = Append(two, "registryInfo")
    BY <1>4 DEF CallsOf, Verification
  <2>2. "registryInfo" \in CallNames
    BY DEF CallNames
  <2> HIDE DEF two
  <2>3. Append(two, "registryInfo") \in Seq(CallNames)
    BY <1>1, <2>2, AppendProperties
  <2>4. Len(Append(two, "registryInfo")) = Len(two) + 1
    BY <1>1, <2>2, AppendProperties
  <2>5. Len(CallsOf(kind, acct)) = 3
    BY <1>1, <2>1, <2>4
  <2> QED
    BY <2>1, <2>3, <2>5
<1>5. CASE kind = "dashboard"
  <2>1. CallsOf(kind, acct) = seven \o (IF acct = None THEN << >> ELSE two)
    BY <1>5 DEF CallsOf, Verification
  <2>2. << >> \in Seq(CallNames) /\ Len(<< >>) = 0
    OBVIOUS
  <2> HIDE DEF two, seven
  <2>3. CASE acct = None
    BY <1>2, <2>1, <2>2, <2>3
  <2>4. CASE acct # None
    <3>1. CallsOf(kind, acct) = seven \o two
      BY <2>1, <2>4
    <3>2. seven \o two \in Seq(CallNames) /\ Len(seven \o two) = Len(seven) + Len(two)
      <4> HIDE DEF seven
      <4> QED
        BY <1>1, <1>2, ConcatProperties
    <3>3. Len(CallsOf(kind, acct)) = 9
      BY <1>1, <1>2, <3>1, <3>2
    <3> QED
      BY <3>1, <3>2, <3>3
  <2> QED
    BY <2>3, <2>4
<1>6. CASE kind = "status"
  <2> CallsOf(kind, acct) = two
    BY <1>6 DEF CallsOf, Verification
  <2> QED
    BY <1>1
<1> QED
  BY <1>3, <1>4, <1>5, <1>6 DEF Kinds

\* isVerified is among the calls for an account.
LEMMA VerificationCalled ==
  /\ "isVerified" \in Range(CallsOf("identity", Wallet))
  /\ "registryInfo" \in Range(CallsOf("identity", Wallet))
  /\ Wallet # None => "isVerified" \in Range(CallsOf("dashboard", Wallet))
  /\ Wallet # None => "registryInfo" \in Range(CallsOf("dashboard", Wallet))
<1> DEFINE two == <<"isVerified", "verifiedUntil">>
           seven == <<"registryInfo", "getCaCount", "paused", "requiredCountry",
                      "requiredOrg", "requiredOrgUnit", "requiredCommonName">>
           id == CallsOf("identity", Wallet)
           db == CallsOf("dashboard", Wallet)
<1>1. two \in Seq(CallNames) /\ Len(two) = 2 /\ two[1] = "isVerified"
  BY DEF CallNames
<1>2. seven \in Seq(CallNames) /\ Len(seven) = 7 /\ seven[1] = "registryInfo"
  BY DEF CallNames
<1>3. "registryInfo" \in CallNames
  BY DEF CallNames
<1>4. id = Append(two, "registryInfo")
  BY DEF CallsOf, Verification
<1>5. Wallet # None => db = seven \o two
  BY DEF CallsOf, Verification
<1> HIDE DEF two, seven, id, db
<1>6. id[1] = "isVerified" /\ id[3] = "registryInfo" /\ {1, 3} \subseteq DOMAIN id
  <2>1. id \in Seq(CallNames) /\ Len(id) = 2 + 1 /\ id[2 + 1] = "registryInfo"
    BY <1>1, <1>3, <1>4, AppendProperties
  <2>2. id[1] = two[1]
    BY <1>1, <1>3, <1>4, AppendProperties
  <2> QED
    BY <1>1, <2>1, <2>2
<1>7. ASSUME Wallet # None
      PROVE  db[8] = "isVerified" /\ db[1] = "registryInfo" /\ {1, 8} \subseteq DOMAIN db
  <2>1. /\ db \in Seq(CallNames) /\ Len(db) = Len(seven) + Len(two)
        /\ \A i \in 1..Len(seven) + Len(two) :
             db[i] = IF i <= Len(seven) THEN seven[i] ELSE two[i - Len(seven)]
    <3>1. two \in Seq(CallNames) /\ seven \in Seq(CallNames) /\ db = seven \o two
      BY <1>1, <1>2, <1>5, <1>7
    <3>2. /\ seven \o two \in Seq(CallNames) /\ Len(seven \o two) = Len(seven) + Len(two)
          /\ \A i \in 1..Len(seven) + Len(two) :
               (seven \o two)[i] = IF i <= Len(seven) THEN seven[i] ELSE two[i - Len(seven)]
      BY <3>1, ConcatProperties
    <3> QED
      BY <3>1, <3>2, Zenon
  <2>2. Len(db) = 9 /\ db[8] = two[8 - 7] /\ db[1] = seven[1]
    BY <1>1, <1>2, <2>1
  <2> QED
    BY <1>1, <1>2, <2>1, <2>2
<1> QED
  BY <1>6, <1>7 DEF Range, id, db

\* A position of the flat results belongs to one call of one target.
LEMMA Cut ==
  ASSUME NEW n \in {2, 3, 7, 9}, NEW m \in Nat, NEW i \in 1..(m * n)
  PROVE  /\ ((i - 1) \div n) + 1 \in 1..m
         /\ ((i - 1) % n) + 1 \in 1..n
<1>1. CASE n = 2
  BY <1>1
<1>2. CASE n = 3
  BY <1>2
<1>3. CASE n = 7
  BY <1>3
<1>4. CASE n = 9
  BY <1>4
<1> QED
  BY <1>1, <1>2, <1>3, <1>4

Widths == {2, 3, 7, 9}
Glued(i, m, n, k, j) ==
  i \in 1..(m * n) /\ ((i - 1) \div n) + 1 = k /\ ((i - 1) % n) + 1 = j

LEMMA Glue ==
  ASSUME NEW n \in Widths, NEW m \in Nat, NEW k \in 1..m, NEW j \in 1..n,
         NEW i, i = (k - 1) * n + j
  PROVE  Glued(i, m, n, k, j)
<1>1. CASE n = 2
  BY <1>1 DEF Glued
<1>2. CASE n = 3
  BY <1>2 DEF Glued
<1>3. CASE n = 7
  BY <1>3 DEF Glued
<1>4. CASE n = 9
  BY <1>4 DEF Glued
<1> QED
  BY <1>1, <1>2, <1>3, <1>4 DEF Widths

-----------------------------------------------------------------------------
(* What the calls give, and what the chain may do meanwhile. *)

LEMMA ValueSound ==
  ASSUME ReaderTypeOK, NEW r \in Registries, NEW fn \in CallNames
  PROVE  /\ Value(r, fn) \in Results
         /\ Value(r, fn).of = r /\ Value(r, fn).fn = fn
         /\ Value(r, fn).val \notin {Failed, Pending}
         /\ fn = "registryInfo" => Value(r, fn).val = chain[r].creator
         /\ fn = "paused" => Value(r, fn).val \in BOOLEAN \cap Now(r).paused
         /\ fn = "isVerified" => Value(r, fn).val \in BOOLEAN \cap Now(r).verified
         /\ fn = "verifiedUntil" => Value(r, fn).val \in Now(r).until
<1> DEFINE v == CASE fn = "registryInfo" -> chain[r].creator
                  [] fn = "paused" -> chain[r].paused
                  [] fn = "isVerified" -> IsVerified(r)
                  [] fn = "verifiedUntil" -> chain[r].until
                  [] OTHER -> r
<1>1. /\ chain[r].creator \in Accounts /\ chain[r].paused \in BOOLEAN
      /\ chain[r].until \in Times /\ IsVerified(r) \in BOOLEAN
  BY DEF ReaderTypeOK, RegistryState, IsVerified
<1>2. /\ fn = "registryInfo" => v = chain[r].creator
      /\ fn = "paused" => v = chain[r].paused
      /\ fn = "isVerified" => v = IsVerified(r)
      /\ fn = "verifiedUntil" => v = chain[r].until
      /\ fn \notin {"registryInfo", "paused", "isVerified", "verifiedUntil"} => v = r
  OBVIOUS
<1>3. Value(r, fn) = [of |-> r, fn |-> fn, val |-> v]
  BY DEF Value
<1> HIDE DEF v
<1>4. v \in Accounts \/ v \in Registries \/ v \in BOOLEAN \/ v \in Times
  BY <1>1, <1>2, Zenon
<1>5. v \in Answers /\ v \notin {Failed, Pending}
  BY <1>4, ReaderAssumption, Zenon DEF Answers
<1>6. /\ Now(r).paused = {chain[r].paused} /\ Now(r).verified = {IsVerified(r)}
      /\ Now(r).until = {chain[r].until}
  BY DEF Now
<1>7. /\ Value(r, fn).of = r /\ Value(r, fn).fn = fn /\ Value(r, fn).val = v
      /\ Value(r, fn) \in Results
  BY <1>3, <1>5 DEF Results
<1> QED
  BY <1>1, <1>2, <1>5, <1>6, <1>7, Zenon

\* Whatever changes on chain, creators stay, and registries are only added.
LEMMA ChangeWorld ==
  ASSUME ReaderTypeOK, Change
  PROVE  /\ made' \in Seq(Registries) /\ now' \in Nat
         /\ chain' \in [Registries -> RegistryState] /\ listed' \subseteq Registries
         /\ \A r \in Registries : chain'[r].creator = chain[r].creator
         /\ UNCHANGED <<read, rows, fails>> /\ ~OnScreen
         /\ Remember
<1>1. /\ UNCHANGED <<read, rows, fails>> /\ ~OnScreen /\ Remember
  BY DEF Change, OnScreen
<1>2. ASSUME NEW r \in Registries, made' = Append(made, r), UNCHANGED <<chain, now, listed>>
      PROVE  /\ made' \in Seq(Registries) /\ now' \in Nat
             /\ chain' \in [Registries -> RegistryState] /\ listed' \subseteq Registries
             /\ \A q \in Registries : chain'[q].creator = chain[q].creator
  BY <1>2 DEF ReaderTypeOK
<1>3. \A r \in Range(made) : r \in Registries
  BY DEF ReaderTypeOK, Range
<1>4. ASSUME NEW r \in Range(made), UNCHANGED <<made, now, listed>>,
             \/ \E o \in Accounts : chain' = [chain EXCEPT ![r].owner = o]
             \/ chain' = [chain EXCEPT ![r].paused = ~@]
             \/ \E t \in Times : chain' = [chain EXCEPT ![r].until = t]
      PROVE  /\ made' \in Seq(Registries) /\ now' \in Nat
             /\ chain' \in [Registries -> RegistryState] /\ listed' \subseteq Registries
             /\ \A q \in Registries : chain'[q].creator = chain[q].creator
  <2>1. r \in Registries /\ chain[r] \in RegistryState
    BY <1>3 DEF ReaderTypeOK
  <2>2. ASSUME NEW s \in RegistryState, s.creator = chain[r].creator,
               chain' = [chain EXCEPT ![r] = s]
        PROVE  /\ chain' \in [Registries -> RegistryState]
               /\ \A q \in Registries : chain'[q].creator = chain[q].creator
    BY <2>2 DEF ReaderTypeOK
  <2>3. ASSUME NEW o \in Accounts, chain' = [chain EXCEPT ![r].owner = o]
        PROVE  /\ chain' \in [Registries -> RegistryState]
               /\ \A q \in Registries : chain'[q].creator = chain[q].creator
    <3> DEFINE s == [chain[r] EXCEPT !.owner = o]
    <3>1. s \in RegistryState /\ s.creator = chain[r].creator
      BY <2>1 DEF RegistryState
    <3>2. chain' = [chain EXCEPT ![r] = s]
      BY <2>3
    <3> HIDE DEF s
    <3> QED
      BY <2>2, <3>1, <3>2
  <2>4. ASSUME chain' = [chain EXCEPT ![r].paused = ~@]
        PROVE  /\ chain' \in [Registries -> RegistryState]
               /\ \A q \in Registries : chain'[q].creator = chain[q].creator
    <3> DEFINE s == [chain[r] EXCEPT !.paused = ~@]
    <3>1. s \in RegistryState /\ s.creator = chain[r].creator
      BY <2>1 DEF RegistryState
    <3>2. chain' = [chain EXCEPT ![r] = s]
      BY <2>4
    <3> HIDE DEF s
    <3> QED
      BY <2>2, <3>1, <3>2
  <2>5. ASSUME NEW t \in Times, chain' = [chain EXCEPT ![r].until = t]
        PROVE  /\ chain' \in [Registries -> RegistryState]
               /\ \A q \in Registries : chain'[q].creator = chain[q].creator
    <3> DEFINE s == [chain[r] EXCEPT !.until = t]
    <3>1. s \in RegistryState /\ s.creator = chain[r].creator
      BY <2>1 DEF RegistryState
    <3>2. chain' = [chain EXCEPT ![r] = s]
      BY <2>5
    <3> HIDE DEF s
    <3> QED
      BY <2>2, <3>1, <3>2
  <2> QED
    BY <1>4, <2>3, <2>4, <2>5 DEF ReaderTypeOK
<1>5. ASSUME NEW r \in Range(made),
             listed' = (IF r \in listed THEN listed \ {r} ELSE listed \cup {r}),
             UNCHANGED <<made, chain, now>>
      PROVE  /\ made' \in Seq(Registries) /\ now' \in Nat
             /\ chain' \in [Registries -> RegistryState] /\ listed' \subseteq Registries
             /\ \A q \in Registries : chain'[q].creator = chain[q].creator
  BY <1>3, <1>5 DEF ReaderTypeOK
<1>6. ASSUME now' = now + 1, UNCHANGED <<made, chain, listed>>
      PROVE  /\ made' \in Seq(Registries) /\ now' \in Nat
             /\ chain' \in [Registries -> RegistryState] /\ listed' \subseteq Registries
             /\ \A q \in Registries : chain'[q].creator = chain[q].creator
  BY <1>6 DEF ReaderTypeOK
<1> QED
  BY <1>1, <1>2, <1>4, <1>5, <1>6 DEF Change

\* The histories follow a change.
LEMMA RememberSound ==
  ASSUME ReaderTypeOK, Remembered, Remember, read' = read
  PROVE  /\ DOMAIN was' = Registries /\ \A r \in Registries : DOMAIN was'[r] = Facts
         /\ \A r \in Registries : \A x \in Facts : was[r][x] \subseteq was'[r][x]
         /\ steady' \subseteq steady
         /\ Remembered'
<1>1. /\ DOMAIN was' = Registries
      /\ \A r \in Registries :
           /\ DOMAIN was'[r] = Facts
           /\ \A x \in Facts : was'[r][x] = was[r][x] \cup Now(r)'[x]
  BY DEF Remember, ReaderTypeOK
<1>2. /\ steady' \subseteq steady
      /\ \A r \in steady' : IsVerified(r)' /\ Visible(r, read.kind)'
  <2> DEFINE P(r) == IsVerified(r)' /\ Visible(r, read.kind)'
  <2>1. steady' = {r \in steady : P(r)}
    BY DEF Remember
  <2> HIDE DEF P
  <2>2. steady' \subseteq steady /\ \A r \in steady' : P(r)
    BY <2>1
  <2> USE DEF P
  <2> QED
    BY <2>2, Zenon
<1>3. ASSUME Batched', NEW r \in steady'
      PROVE  was'[r].verified \subseteq {TRUE}
  <2>1. r \in Registries /\ r \in steady /\ Batched
    BY <1>2, <1>3 DEF ReaderTypeOK, Batched
  <2>2. was[r].verified \subseteq {TRUE}
    BY <2>1 DEF Remembered
  <2>3. was'[r]["verified"] = was[r]["verified"] \cup Now(r)'["verified"]
    BY <1>1, <2>1 DEF Facts
  <2>4. Now(r)'["verified"] = {IsVerified(r)'}
    BY DEF Now
  <2>5. IsVerified(r)' = TRUE
    BY <1>2 DEF IsVerified
  <2> QED
    BY <2>2, <2>3, <2>4, <2>5
<1>4. \A r \in Registries : \A x \in Facts :
        was[r][x] \subseteq was'[r][x] /\ Now(r)'[x] \subseteq was'[r][x]
  <2> SUFFICES ASSUME NEW r \in Registries, NEW x \in Facts
               PROVE  was[r][x] \subseteq was'[r][x] /\ Now(r)'[x] \subseteq was'[r][x]
    OBVIOUS
  <2> DEFINE n == Now(r)'[x]
  <2>1. was'[r][x] = was[r][x] \cup n
    BY <1>1
  <2> HIDE DEF n
  <2>2. was[r][x] \subseteq was'[r][x] /\ n \subseteq was'[r][x]
    BY <2>1
  <2> QED
    BY <2>2 DEF n
<1>5. Remembered'
  BY <1>2, <1>3, <1>4, Zenon DEF Remembered
<1> QED
  BY <1>1, <1>2, <1>4, <1>5, Zenon

-----------------------------------------------------------------------------
(* The steps. *)

LEMMA ReaderInitInv == ReaderInit => ReaderInv
<1> SUFFICES ASSUME ReaderInit
             PROVE  ReaderInv
  OBVIOUS
<1>1. PICK kind \in Kinds, acct \in {Wallet, None} :
        /\ read = [kind |-> kind, acct |-> acct, step |-> "addresses", targets |-> << >>,
                   listed |-> Pending, results |-> << >>, split |-> FALSE]
        /\ steady = {r \in Registries : IsVerified(r) /\ Visible(r, kind)}
  BY DEF ReaderInit
<1>2. /\ made \in MadeAtStart /\ now = 1 /\ chain \in ChainsAtStart
      /\ listed \in SUBSET Range(made) /\ rows = << >> /\ fails = 0
      /\ was = [r \in Registries |-> Now(r)]
  BY DEF ReaderInit
<1>3. made \in Seq(Registries) /\ chain \in [Registries -> RegistryState]
  BY <1>2, ReaderAssumption
<1>4. Range(made) \subseteq Registries
  BY <1>3 DEF Range
<1>5. << >> \in Seq(Registries) /\ << >> \in Seq(Results)
  OBVIOUS
<1>6. /\ read \in Reads /\ read.kind = kind /\ read.step = "addresses"
      /\ read.targets = << >> /\ read.listed = Pending
  BY <1>1, <1>5 DEF Reads
<1>7. \A r \in Registries : DOMAIN Now(r) = Facts
  BY DEF Now, Facts
<1>8. ReaderTypeOK
  BY <1>1, <1>2, <1>3, <1>4, <1>6, <1>7 DEF ReaderTypeOK
<1>9. ~Batched /\ ~OnScreen
  BY <1>6 DEF Batched, OnScreen
<1>10. Remembered
  <2>1. \A r \in Registries : \A x \in Facts : Now(r)[x] \subseteq was[r][x]
    BY <1>2
  <2>2. \A r \in steady : IsVerified(r) /\ Visible(r, read.kind)
    BY <1>1, <1>6
  <2> QED
    BY <1>9, <2>1, <2>2 DEF Remembered
<1>11. SteadyRead /\ Positioned /\ RowsOfTargets
  BY <1>2, <1>6, <1>9 DEF SteadyRead, Positioned, RowsOfTargets
<1> QED
  BY <1>8, <1>10, <1>11 DEF ReaderInv

LEMMA ChangeInv ==
  ASSUME ReaderInv, Change
  PROVE  ReaderInv'
<1> USE DEF ReaderInv
<1>1. /\ made' \in Seq(Registries) /\ now' \in Nat
      /\ chain' \in [Registries -> RegistryState] /\ listed' \subseteq Registries
      /\ \A r \in Registries : chain'[r].creator = chain[r].creator
      /\ read' = read /\ rows' = rows /\ fails' = fails /\ ~OnScreen /\ Remember
  BY ChangeWorld
<1>2. /\ DOMAIN was' = Registries /\ \A r \in Registries : DOMAIN was'[r] = Facts
      /\ \A r \in Registries : \A x \in Facts : was[r][x] \subseteq was'[r][x]
      /\ steady' \subseteq steady /\ Remembered'
  BY <1>1, RememberSound
<1>3. ReaderTypeOK'
  BY <1>1, <1>2 DEF ReaderTypeOK
<1>4. SteadyRead'
  BY <1>1, <1>2 DEF SteadyRead
<1>5. RowsOfTargets'
  BY <1>1 DEF RowsOfTargets, OnScreen
<1>6. Positioned'
  <2> SUFFICES ASSUME Batched
               PROVE  Positioned'
    BY <1>1 DEF Positioned, Batched
  <2>1. ASSUME NEW i \in DOMAIN read.results
        PROVE  Possible(read.results[i], chain', was')
    <3>1. Possible(read.results[i], chain, was)
      BY DEF Positioned
    <3>2. read.results[i].of \in Registries
      <4>1. read.results \in Seq(Results)
        BY DEF ReaderTypeOK, Reads
      <4>2. read.results[i] \in Results
        BY <4>1
      <4> QED
        BY <4>2 DEF Results
    <3> QED
      BY <1>1, <1>2, <3>1, <3>2 DEF Possible, Facts
  <2>2. Len(read.results) = Len(read.targets) * Len(CallsMade)
    BY DEF Positioned
  <2> QED
    BY <1>1, <2>1, <2>2 DEF Positioned, CallsMade, OnScreen
<1> QED
  BY <1>2, <1>3, <1>4, <1>5, <1>6

\* The steps that fetch what the batch is to ask.
LEMMA FetchInv ==
  ASSUME ReaderInv, UNCHANGED <<worldVars, rows, fails, was, steady>>,
         read' \in Reads, ~Batched, ~Batched', read'.kind = read.kind,
         read'.kind # "status" =>
           \/ read'.step = "addresses" /\ read'.targets = << >>
           \/ steady \subseteq Range(read'.targets),
         read'.kind = "dashboard" =>
           \/ read'.step = "addresses" /\ read'.listed = Pending
           \/ steady \subseteq read'.listed
  PROVE  ReaderInv'
<1> USE DEF ReaderInv, worldVars
<1>1. ReaderTypeOK'
  BY DEF ReaderTypeOK
<1>2. Remembered'
  BY DEF Remembered, IsVerified, Visible, Now
<1>3. SteadyRead'
  BY DEF SteadyRead
<1>4. Positioned'
  BY DEF Positioned
<1>5. RowsOfTargets'
  BY DEF RowsOfTargets, Batched, OnScreen
<1> QED
  BY <1>1, <1>2, <1>3, <1>4, <1>5

LEMMA AddressesInv ==
  ASSUME ReaderInv, GotAddresses \/ GotListed \/ GotRegistry
  PROVE  ReaderInv'
<1> USE DEF ReaderInv
<1>1. read \in Reads /\ made \in Seq(Registries) /\ listed \subseteq Registries
  BY DEF ReaderTypeOK
<1>2. \A r \in steady : Visible(r, read.kind) /\ r \in Registries
  BY DEF Remembered, ReaderTypeOK
<1>3. CASE GotAddresses
  <2>1. /\ read' = [read EXCEPT !.targets = made,
                     !.step = IF read.kind = "dashboard" /\ read.listed = Pending
                              THEN @ ELSE "batch"]
        /\ UNCHANGED <<worldVars, rows, fails, was, steady>>
        /\ read.step = "addresses" /\ read.kind # "status"
    BY <1>3 DEF GotAddresses
  <2>2. read' \in Reads /\ read'.kind = read.kind /\ read'.targets = made
        /\ read'.listed = read.listed
        /\ read'.step = IF read.kind = "dashboard" /\ read.listed = Pending
                        THEN "addresses" ELSE "batch"
    BY <1>1, <2>1 DEF Reads
  <2>3. steady \subseteq Range(read'.targets)
    BY <1>2, <2>2 DEF Visible
  <2>4. read.kind = "dashboard" => \/ read.listed = Pending
                                  \/ steady \subseteq read.listed
    BY DEF SteadyRead
  <2> QED
    BY <2>1, <2>2, <2>3, <2>4, FetchInv DEF Batched
<1>4. CASE GotListed
  <2>1. PICK answer \in {listed, Registries} :
          read' = [read EXCEPT !.listed = answer,
                               !.step = IF read.targets = << >> THEN @ ELSE "batch"]
    BY <1>4 DEF GotListed
  <2>2. /\ UNCHANGED <<worldVars, rows, fails, was, steady>>
        /\ read.step = "addresses" /\ read.kind = "dashboard"
    BY <1>4 DEF GotListed
  <2>3. read' \in Reads /\ read'.kind = read.kind /\ read'.targets = read.targets
        /\ read'.listed = answer
        /\ read'.step = IF read.targets = << >> THEN "addresses" ELSE "batch"
    BY <1>1, <2>1, <2>2 DEF Reads
  <2>4. steady \subseteq answer
    BY <1>2, <2>2 DEF Visible
  <2>5. read.targets = << >> \/ steady \subseteq Range(read.targets)
    BY <2>2 DEF SteadyRead
  <2> QED
    BY <2>2, <2>3, <2>4, <2>5, FetchInv DEF Batched
<1>5. CASE GotRegistry
  <2>1. PICK r \in Range(made) : read' = [read EXCEPT !.targets = <<r>>, !.step = "batch"]
    BY <1>5 DEF GotRegistry
  <2>2. /\ UNCHANGED <<worldVars, rows, fails, was, steady>>
        /\ read.step = "addresses" /\ read.kind = "status"
    BY <1>5 DEF GotRegistry
  <2>3. <<r>> \in Seq(Registries)
    BY <1>1 DEF Range
  <2>4. read' \in Reads /\ read'.kind = "status" /\ read'.step = "batch"
    BY <1>1, <2>1, <2>2, <2>3 DEF Reads
  <2> QED
    BY <2>2, <2>4, FetchInv DEF Batched
<1> QED
  BY <1>3, <1>4, <1>5

\* Only listed addresses become rows of the dashboard, and all others everywhere.
LEMMA RowTargetsSound ==
  ASSUME ReaderInv
  PROVE  /\ RowTargets \in Seq(Registries)
         /\ read.step = "batch" /\ read.kind # "status" => steady \subseteq Range(RowTargets)
<1>1. read.targets \in Seq(Registries)
  BY DEF ReaderInv, ReaderTypeOK, Reads
<1>2. /\ Keep(read.targets, read.listed) \in Seq(Registries)
      /\ Range(Keep(read.targets, read.listed)) = Range(read.targets) \cap read.listed
  BY <1>1, KeepSound
<1>3. ASSUME read.step = "batch", read.kind # "status"
      PROVE  /\ steady \subseteq Range(read.targets)
             /\ read.kind = "dashboard" => steady \subseteq read.listed
  BY <1>3 DEF ReaderInv, SteadyRead
<1> QED
  BY <1>1, <1>2, <1>3 DEF RowTargets

LEMMA BatchInv ==
  ASSUME ReaderInv, Batch
  PROVE  ReaderInv'
<1> USE DEF ReaderInv
<1> DEFINE m == Len(RowTargets)
           n == Len(CallsMade)
<1>1. PICK split \in BOOLEAN :
        read' = [read EXCEPT
         !.step = "answers", !.targets = RowTargets, !.split = split,
         !.results = [i \in 1..(Len(CallTargets) * Len(CallsOf(read.kind, read.acct))) |->
            LET call == CallAt(CallTargets, i)
            IN  IF split /\ Moves(call.fn) THEN call ELSE Value(call.of, call.fn)]]
  BY DEF Batch
<1> DEFINE e(i) == LET call == CallAt(RowTargets, i)
                   IN IF split /\ Moves(call.fn) THEN call ELSE Value(call.of, call.fn)
           es == [i \in 1..(m * n) |-> e(i)]
<1>2. /\ read.step = "batch" /\ was' = [r \in Registries |-> Now(r)]
      /\ UNCHANGED <<worldVars, rows, fails, steady>>
      /\ read \in Reads /\ RowTargets \in Seq(Registries) /\ m \in Nat
  BY RowTargetsSound DEF Batch, ReaderTypeOK
<1>3. read' = [read EXCEPT !.step = "answers", !.targets = RowTargets, !.split = split,
                           !.results = es]
  BY <1>1 DEF CallTargets, CallsMade
<1>4. read.kind \in Kinds /\ n \in {2, 3, 7, 9} /\ CallsMade \in Seq(CallNames)
  BY <1>2, CallsShape DEF CallsMade, Reads
<1>5. ASSUME NEW i \in 1..(m * n)
      PROVE  /\ CallAt(RowTargets, i).of \in Registries /\ CallAt(RowTargets, i).fn \in CallNames
             /\ CallAt(RowTargets, i) \in Results /\ CallAt(RowTargets, i).val = Pending
             /\ CallAt(RowTargets, i).of = RowTargets[((i - 1) \div n) + 1]
             /\ CallAt(RowTargets, i).fn = CallsMade[((i - 1) % n) + 1]
  <2>1. /\ ((i - 1) \div n) + 1 \in 1..m
        /\ ((i - 1) % n) + 1 \in 1..n
    <3> HIDE DEF m, n
    <3> QED
      BY <1>2, <1>4, Cut
  <2> DEFINE t == RowTargets[((i - 1) \div n) + 1]
             f == CallsMade[((i - 1) % n) + 1]
  <2>2. t \in Registries /\ f \in CallNames
    <3>1. \A k \in 1..m : RowTargets[k] \in Registries
      BY <1>2
    <3>2. \A k \in 1..n : CallsMade[k] \in CallNames
      BY <1>4
    <3> HIDE DEF m, n
    <3> QED
      BY <2>1, <3>1, <3>2
  <2>3. CallAt(RowTargets, i) = [of |-> t, fn |-> f, val |-> Pending]
    BY DEF CallAt, CallsMade
  <2> HIDE DEF t, f
  <2>4. /\ CallAt(RowTargets, i) \in Results /\ CallAt(RowTargets, i).val = Pending
        /\ CallAt(RowTargets, i).of = t /\ CallAt(RowTargets, i).fn = f
    BY <2>2, <2>3 DEF Results, Answers
  <2> QED
    BY <2>2, <2>4, Zenon DEF t, f
<1>6. ASSUME NEW i \in 1..(m * n)
      PROVE  /\ e(i) \in Results
             /\ e(i).of = CallAt(RowTargets, i).of /\ e(i).fn = CallAt(RowTargets, i).fn
             /\ e(i).val # Failed
             /\ Possible(e(i), chain', was')
  <2> DEFINE call == CallAt(RowTargets, i)
             v == Value(call.of, call.fn)
  <2>1. /\ call.of \in Registries /\ call.fn \in CallNames /\ call \in Results
        /\ call.val = Pending
    BY <1>5
  <2>2. e(i) = IF split /\ Moves(call.fn) THEN call ELSE v
    OBVIOUS
  <2> HIDE DEF call
  <2>3. /\ v \in Results /\ v.of = call.of /\ v.fn = call.fn
        /\ v.val \notin {Failed, Pending}
        /\ call.fn = "registryInfo" => v.val = chain[call.of].creator
        /\ call.fn = "paused" => v.val \in BOOLEAN \cap Now(call.of).paused
        /\ call.fn = "isVerified" => v.val \in BOOLEAN \cap Now(call.of).verified
        /\ call.fn = "verifiedUntil" => v.val \in Now(call.of).until
    BY <2>1, ValueSound
  <2>4. chain' = chain /\ was'[call.of] = Now(call.of)
    BY <1>2, <2>1 DEF worldVars
  <2> DEFINE x == e(i)
  <2> HIDE DEF v, e, x
  <2>5. x = call \/ x = v
    BY <2>2 DEF x
  <2>6. /\ x \in Results /\ x.of = call.of /\ x.fn = call.fn /\ x.val # Failed
    BY <2>1, <2>3, <2>5, ReaderAssumption
  <2>7. /\ x.val = Pending
        \/ /\ x.fn = "registryInfo" => x.val = chain'[x.of].creator
           /\ x.fn = "paused" => x.val \in BOOLEAN \cap was'[x.of].paused
           /\ x.fn = "isVerified" => x.val \in BOOLEAN \cap was'[x.of].verified
           /\ x.fn = "verifiedUntil" => x.val \in was'[x.of].until
    <3>1. CASE x = call
      BY <2>1, <3>1, Zenon
    <3>2. CASE x = v
      BY <2>3, <2>4, <3>2, Zenon
    <3> QED
      BY <2>5, <3>1, <3>2
  <2>8. Possible(x, chain', was')
    BY <2>7, Zenon DEF Possible
  <2> QED
    BY <2>6, <2>8, Zenon DEF x, call
<1>7. es \in Seq(Results) /\ Len(es) = m * n /\ \A i \in 1..(m * n) : es[i] = e(i)
  <2>1. m * n \in Nat
    <3> HIDE DEF m, n
    <3> QED
      BY <1>2, <1>4
  <2>2. \A i \in 1..(m * n) : e(i) \in Results
    BY <1>6, Zenon
  <2> HIDE DEF e, m, n
  <2> QED
    BY <2>1, <2>2
<1> HIDE DEF es
<1>8. /\ read' \in Reads /\ read'.kind = read.kind /\ read'.acct = read.acct
      /\ read'.step = "answers" /\ read'.targets = RowTargets /\ read'.results = es
      /\ read'.listed = read.listed
  BY <1>2, <1>3, <1>7 DEF Reads
<1>9. ReaderTypeOK'
  <2> \A r \in Registries : DOMAIN Now(r) = Facts
    BY DEF Now, Facts
  <2> QED
    BY <1>2, <1>8 DEF ReaderTypeOK, worldVars
<1>10. Remembered'
  <2>1. \A r \in Registries : \A x \in Facts : Now(r)'[x] \subseteq was'[r][x]
    BY <1>2 DEF Now, IsVerified, worldVars
  <2>2. \A r \in steady : IsVerified(r)' /\ Visible(r, read.kind)'
    BY <1>2, <1>8 DEF Remembered, IsVerified, Visible, worldVars
  <2>3. \A r \in steady : was'[r].verified \subseteq {TRUE}
    <3> SUFFICES ASSUME NEW r \in steady
                 PROVE  was'[r].verified \subseteq {TRUE}
      OBVIOUS
    <3>1. r \in Registries /\ IsVerified(r) = TRUE
      BY DEF ReaderTypeOK, Remembered, IsVerified
    <3>2. was'[r].verified = {IsVerified(r)}
      BY <1>2, <3>1 DEF Now
    <3> QED
      BY <3>1, <3>2
  <2> QED
    BY <1>2, <1>8, <2>1, <2>2, <2>3 DEF Remembered
<1>11. SteadyRead'
  <2>1. read.kind # "status" => steady \subseteq Range(RowTargets)
    BY <1>2, RowTargetsSound
  <2>2. read.kind = "dashboard" => steady \subseteq read.listed
    BY <1>2 DEF SteadyRead
  <2> QED
    BY <1>2, <1>8, <2>1, <2>2 DEF SteadyRead
<1>12. Positioned'
  <2> HIDE DEF m, n, e
  <2>1. DOMAIN es = 1..(m * n) /\ Len(es) = m * n
    BY <1>7
  <2>3. ASSUME NEW i \in 1..(m * n)
        PROVE  /\ es[i].of = RowTargets[((i - 1) \div n) + 1]
               /\ es[i].fn = CallsMade[((i - 1) % n) + 1]
               /\ Possible(es[i], chain', was') /\ es[i].val # Failed
    BY <1>5, <1>6, <1>7, Zenon
  <2>4. ~OnScreen'
    BY <1>8 DEF OnScreen
  <2>5. CallsMade' = CallsMade
    BY <1>8 DEF CallsMade
  <2>6. n = Len(CallsMade) /\ m = Len(RowTargets)
    BY DEF m, n
  <2> QED
    BY <1>8, <2>1, <2>3, <2>4, <2>5, <2>6, Zenon DEF Positioned
<1>13. RowsOfTargets'
  BY <1>2, <1>8 DEF RowsOfTargets, OnScreen
<1> QED
  BY <1>9, <1>10, <1>11, <1>12, <1>13

\* One call is answered, or fails.
LEMMA ReplaceInv ==
  ASSUME ReaderInv, read.step = "answers", UNCHANGED <<worldVars, rows, was, steady>>,
         NEW i \in DOMAIN read.results, NEW x \in Results,
         x.of = read.results[i].of, x.fn = read.results[i].fn, Possible(x, chain, was),
         read' = [read EXCEPT !.results = [read.results EXCEPT ![i] = x]],
         fails' \in Nat, (fails' = fails /\ x.val # Failed) \/ fails' # 0
  PROVE  ReaderInv'
<1> USE DEF ReaderInv, worldVars
<1> DEFINE es == [read.results EXCEPT ![i] = x]
<1>1. /\ es \in Seq(Results) /\ DOMAIN es = DOMAIN read.results
      /\ Len(es) = Len(read.results)
      /\ \A j \in DOMAIN es : es[j] = IF j = i THEN x ELSE read.results[j]
  BY DEF ReaderTypeOK, Reads
<1>2. read' = [read EXCEPT !.results = es]
  OBVIOUS
<1> HIDE DEF es
<1>3. /\ read' \in Reads /\ read'.kind = read.kind /\ read'.acct = read.acct
      /\ read'.step = "answers" /\ read'.targets = read.targets /\ read'.results = es
      /\ read'.listed = read.listed
  BY <1>1, <1>2 DEF ReaderTypeOK, Reads
<1>4. ReaderTypeOK'
  BY <1>3 DEF ReaderTypeOK
<1>5. Remembered'
  BY <1>3 DEF Remembered, IsVerified, Visible, Now, Batched
<1>6. SteadyRead'
  BY <1>3 DEF SteadyRead
<1>7. RowsOfTargets'
  BY <1>3 DEF RowsOfTargets, OnScreen
<1>8. Positioned'
  <2>1. CallsMade' = CallsMade /\ ~OnScreen'
    BY <1>3 DEF CallsMade, OnScreen
  <2>2. /\ Len(read.results) = Len(read.targets) * Len(CallsMade)
        /\ \A j \in DOMAIN read.results :
             /\ read.results[j].of = read.targets[((j - 1) \div Len(CallsMade)) + 1]
             /\ read.results[j].fn = CallsMade[((j - 1) % Len(CallsMade)) + 1]
             /\ Possible(read.results[j], chain, was)
             /\ fails = 0 => read.results[j].val # Failed
    BY DEF Positioned, Batched
  <2>3. ASSUME NEW j \in DOMAIN es
        PROVE  /\ es[j].of = read.targets[((j - 1) \div Len(CallsMade)) + 1]
               /\ es[j].fn = CallsMade[((j - 1) % Len(CallsMade)) + 1]
               /\ Possible(es[j], chain, was)
               /\ fails' = 0 => es[j].val # Failed
    <3>1. CASE j = i
      <4> es[j] = x
        BY <1>1, <3>1
      <4> QED
        BY <2>2, <3>1, Zenon
    <3>2. CASE j # i
      <4> es[j] = read.results[j] /\ j \in DOMAIN read.results
        BY <1>1, <3>2
      <4> QED
        BY <2>2, Zenon
    <3> QED
      BY <3>1, <3>2
  <2>4. chain' = chain /\ was' = was
    OBVIOUS
  <2>5. Len(read'.results) = Len(read'.targets) * Len(CallsMade')
    BY <1>1, <1>3, <2>1, <2>2, Zenon
  <2>6. ASSUME NEW j \in DOMAIN read'.results
        PROVE  /\ read'.results[j].of = read'.targets[((j - 1) \div Len(CallsMade')) + 1]
               /\ read'.results[j].fn = CallsMade'[((j - 1) % Len(CallsMade')) + 1]
               /\ Possible(read'.results[j], chain', was')
               /\ fails' = 0 => read'.results[j].val # Failed
               /\ OnScreen' => read'.results[j].val # Pending
    BY <1>3, <2>1, <2>3, <2>4, Zenon
  <2> QED
    BY <2>5, <2>6, Zenon DEF Positioned
<1> QED
  BY <1>4, <1>5, <1>6, <1>7, <1>8

LEMMA AnsweredInv ==
  ASSUME ReaderInv, NEW i \in DOMAIN read.results, Answered(i)
  PROVE  ReaderInv'
<1> DEFINE e == read.results[i]
<1>1. /\ read.step = "answers" /\ UNCHANGED <<worldVars, rows, was, steady>>
      /\ fails \in Nat /\ read \in Reads
  BY DEF Answered, ReaderInv, ReaderTypeOK
<1>2. e \in Results
  <2> read.results \in Seq(Results)
    BY <1>1 DEF Reads
  <2> QED
    OBVIOUS
<1>3. CASE /\ read' = [read EXCEPT !.results[i] = Value(@.of, @.fn)]
           /\ UNCHANGED fails
  <2> DEFINE x == Value(e.of, e.fn)
  <2>1. e.of \in Registries /\ e.fn \in CallNames
    BY <1>2 DEF Results
  <2>2. /\ x \in Results /\ x.of = e.of /\ x.fn = e.fn
        /\ x.val \notin {Failed, Pending}
        /\ e.fn = "registryInfo" => x.val = chain[e.of].creator
        /\ e.fn = "paused" => x.val \in BOOLEAN \cap Now(e.of).paused
        /\ e.fn = "isVerified" => x.val \in BOOLEAN \cap Now(e.of).verified
        /\ e.fn = "verifiedUntil" => x.val \in Now(e.of).until
    BY <2>1, ValueSound DEF ReaderInv
  <2>3. read' = [read EXCEPT !.results = [read.results EXCEPT ![i] = x]]
    BY <1>3
  <2> HIDE DEF x, e
  <2>4. /\ Now(e.of).paused \subseteq was[e.of].paused
        /\ Now(e.of).verified \subseteq was[e.of].verified
        /\ Now(e.of).until \subseteq was[e.of].until
    <3>1. \A f \in Facts : Now(e.of)[f] \subseteq was[e.of][f]
      BY <2>1 DEF ReaderInv, Remembered
    <3>2. {"paused", "verified", "until"} \subseteq Facts
      BY DEF Facts
    <3> QED
      BY <3>1, <3>2
  <2>5. Possible(x, chain, was)
    BY <2>2, <2>4 DEF Possible
  <2>6. x.of = read.results[i].of /\ x.fn = read.results[i].fn
    BY <2>2, Zenon DEF e
  <2> QED
    BY <1>1, <1>3, <2>2, <2>3, <2>5, <2>6, ReplaceInv
<1>4. CASE fails' = fails + 1 /\ read' = [read EXCEPT !.results[i].val = Failed]
  <2> DEFINE x == [e EXCEPT !.val = Failed]
  <2>1. x \in Results /\ x.of = e.of /\ x.fn = e.fn /\ x.val = Failed
    BY <1>2 DEF Results, Answers
  <2>2. read' = [read EXCEPT !.results = [read.results EXCEPT ![i] = x]]
    BY <1>4
  <2> HIDE DEF x
  <2>3. Possible(x, chain, was) /\ fails' \in Nat /\ fails' # 0
    BY <1>1, <1>4, <2>1 DEF Possible
  <2> QED
    BY <1>1, <2>1, <2>2, <2>3, ReplaceInv
<1> QED
  BY <1>3, <1>4 DEF Answered

LEMMA ShowInv ==
  ASSUME ReaderInv, Show
  PROVE  ReaderInv'
<1> USE DEF ReaderInv
<1> DEFINE all == [k \in DOMAIN read.targets |-> Row(k)]
<1>1. /\ read.step = "answers" /\ \A i \in DOMAIN read.results : read.results[i].val # Pending
      /\ rows' = Keep(all, {row \in Range(all) : Shows(row)})
      /\ read' = [read EXCEPT !.step = "shown"]
      /\ UNCHANGED <<made, chain, now, listed, fails, was, steady>>
      /\ read \in Reads
  BY DEF Show, worldVars, ReaderTypeOK
<1>2. /\ read' \in Reads /\ read'.kind = read.kind /\ read'.acct = read.acct
      /\ read'.step = "shown" /\ read'.targets = read.targets
      /\ read'.results = read.results /\ read'.listed = read.listed
  BY <1>1 DEF Reads
<1>3. ReaderTypeOK'
  BY <1>1, <1>2 DEF ReaderTypeOK
<1>4. Remembered'
  BY <1>1, <1>2 DEF Remembered, IsVerified, Visible, Now, Batched
<1>5. SteadyRead'
  BY <1>1, <1>2 DEF SteadyRead
<1>6. Positioned'
  <2>1. CallsMade' = CallsMade
    BY <1>2 DEF CallsMade
  <2> QED
    BY <1>1, <1>2, <2>1 DEF Positioned, Batched
<1>7. RowsOfTargets'
  <2>1. read.targets \in Seq(Registries)
    BY <1>1 DEF Reads
  <2>2. all \in Seq(Range(all))
    BY <2>1 DEF Range
  <2>3. Range(all) = {Row(k) : k \in DOMAIN read.targets}
    BY DEF Range
  <2> HIDE DEF all
  <2>4. Range(rows') = Range(all) \cap {row \in Range(all) : Shows(row)}
    BY <1>1, <2>2, KeepSound
  <2>5. ASSUME NEW row
        PROVE  row \in Range(rows') <=> \E k \in DOMAIN read.targets : row = Row(k) /\ Shows(row)
    BY <2>3, <2>4
  <2>6. ASSUME NEW k
        PROVE  Row(k)' = Row(k)
    BY <1>2 DEF Row, Decoded, Position
  <2>7. ASSUME NEW row
        PROVE  Shows(row)' <=> Shows(row)
    BY <1>2 DEF Shows, OwnedRow, IdentityRow, DashboardRow, StatusRow
  <2> QED
    BY <1>2, <2>5, <2>6, <2>7, Zenon DEF RowsOfTargets, OnScreen, ShownRows
<1> QED
  BY <1>3, <1>4, <1>5, <1>6, <1>7

LEMMA ReaderStutter ==
  ASSUME ReaderInv, UNCHANGED readerVars
  PROVE  ReaderInv'
<1>1. /\ made' = made /\ chain' = chain /\ now' = now /\ listed' = listed /\ read' = read
      /\ rows' = rows /\ fails' = fails /\ was' = was /\ steady' = steady
  BY DEF readerVars, worldVars
<1>2. ReaderTypeOK' /\ Remembered' /\ SteadyRead' /\ Positioned'
  BY <1>1 DEF ReaderInv, ReaderTypeOK, Remembered, SteadyRead, Positioned, CallsMade,
     Batched, OnScreen, IsVerified, Visible, Now
<1>3. RowsOfTargets'
  <2>1. ASSUME NEW k
        PROVE  Row(k)' = Row(k)
    BY <1>1 DEF Row, Decoded, Position
  <2>2. ASSUME NEW row
        PROVE  Shows(row)' <=> Shows(row)
    BY <1>1 DEF Shows, OwnedRow, IdentityRow, DashboardRow, StatusRow
  <2> QED
    BY <1>1, <2>1, <2>2, Zenon DEF ReaderInv, RowsOfTargets, OnScreen, ShownRows
<1> QED
  BY <1>2, <1>3 DEF ReaderInv

THEOREM ReaderInvariance == ReaderSpec => []ReaderInv
<1>1. ASSUME ReaderInv, [ReaderNext]_readerVars
      PROVE  ReaderInv'
  BY <1>1, ChangeInv, AddressesInv, BatchInv, AnsweredInv, ShowInv, ReaderStutter
     DEF ReaderNext
<1> QED
  BY ReaderInitInv, <1>1, PTL DEF ReaderSpec

-----------------------------------------------------------------------------
(* What the rows say. *)

\* What decodeResult finds for a row is the answer of the row's own registry.
LEMMA DecodedSound ==
  ASSUME ReaderInv, OnScreen, NEW k \in DOMAIN read.targets, NEW fn, NEW fallback
  PROVE  \/ /\ Decoded(k, fn, fallback) = fallback
            /\ fails = 0 => fn \notin Range(CallsMade)
         \/ \E result :
              /\ Decoded(k, fn, fallback) = result.val
              /\ result.of = read.targets[k] /\ result.fn = fn
              /\ result.val \notin {Pending, Failed}
              /\ Possible(result, chain, was)
<1> DEFINE n == Len(CallsMade)
           m == Len(read.targets)
           j == CHOOSE j \in DOMAIN CallsMade : CallsMade[j] = fn
           i == (k - 1) * n + j
           result == read.results[i]
<1>1. CASE fn \notin Range(CallsMade)
  <2> Decoded(k, fn, fallback) = fallback
    BY <1>1 DEF Decoded, CallsMade
  <2> QED
    BY <1>1
<1>2. CASE fn \in Range(CallsMade)
  <2>1. read.kind \in Kinds /\ read.targets \in Seq(Registries) /\ read.results \in Seq(Results)
    BY DEF ReaderInv, ReaderTypeOK, Reads
  <2>2. n \in {2, 3, 7, 9} /\ DOMAIN CallsMade = 1..n
    BY <2>1, CallsShape DEF CallsMade
  <2>3. j \in 1..n /\ CallsMade[j] = fn
    <3> \E l \in DOMAIN CallsMade : CallsMade[l] = fn
      BY <1>2 DEF Range
    <3> HIDE DEF n
    <3> QED
      BY <2>2
  <2>4. k \in 1..m /\ m \in Nat
    BY <2>1
  <2>5. Position(k, fn) = i
    BY DEF Position, CallsMade
  <2> HIDE DEF n, m, j
  <2>6. i \in 1..(m * n) /\ ((i - 1) \div n) + 1 = k /\ ((i - 1) % n) + 1 = j
    <3>1. n \in Widths /\ j \in 1..n
      BY <2>2, <2>3 DEF Widths
    <3>2. i = (k - 1) * n + j
      OBVIOUS
    <3> HIDE DEF i, result
    <3>3. Glued(i, m, n, k, j)
      BY <2>4, <3>1, <3>2, Glue
    <3> QED
      BY <3>3 DEF Glued
  <2> HIDE DEF i
  <2>7. /\ DOMAIN read.results = 1..(m * n)
        /\ result.of = read.targets[((i - 1) \div n) + 1]
        /\ result.fn = CallsMade[((i - 1) % n) + 1]
        /\ Possible(result, chain, was)
        /\ fails = 0 => result.val # Failed
        /\ result.val # Pending
    <3>1. /\ Len(read.results) = m * n
          /\ \A l \in DOMAIN read.results :
               /\ read.results[l].of = read.targets[((l - 1) \div n) + 1]
               /\ read.results[l].fn = CallsMade[((l - 1) % n) + 1]
               /\ Possible(read.results[l], chain, was)
               /\ fails = 0 => read.results[l].val # Failed
               /\ read.results[l].val # Pending
      BY DEF ReaderInv, Positioned, Batched, OnScreen, m, n
    <3>2. DOMAIN read.results = 1..(m * n)
      BY <2>1, <3>1
    <3> QED
      BY <2>6, <3>1, <3>2, Zenon
  <2>8. result.of = read.targets[k] /\ result.fn = fn
    BY <2>3, <2>6, <2>7, Zenon
  <2>9. Decoded(k, fn, fallback) = IF result.val = Failed THEN fallback ELSE result.val
    BY <1>2, <2>5, <2>8 DEF Decoded, CallsMade
  <2> HIDE DEF result
  <2>10. CASE result.val = Failed
    BY <2>7, <2>9, <2>10
  <2>11. CASE result.val # Failed
    BY <2>7, <2>8, <2>9, <2>11
  <2> QED
    BY <2>10, <2>11
<1> QED
  BY <1>1, <1>2

LEMMA RowsTrue ==
  ASSUME ReaderInv
  PROVE  RowsAreTrue
<1> SUFFICES ASSUME NEW row \in ShownRows
             PROVE  /\ row.creator \in {chain[row.reg].creator, None}
                    /\ row.paused => TRUE \in was[row.reg].paused
                    /\ row.verified => TRUE \in was[row.reg].verified
                    /\ row.until \in was[row.reg].until \cup {0}
  BY DEF RowsAreTrue
<1>1. OnScreen
  <2> rows = << >> => ShownRows = {}
    BY DEF ShownRows, Range
  <2> QED
    BY DEF ReaderInv, RowsOfTargets
<1>2. PICK k \in DOMAIN read.targets : row = Row(k)
  BY <1>1 DEF ReaderInv, RowsOfTargets
<1> DEFINE r == read.targets[k]
           no == FALSE
<1>3. /\ row.reg = r
      /\ row.creator = Decoded(k, "registryInfo", None)
      /\ row.paused = Decoded(k, "paused", no)
      /\ row.verified = Decoded(k, "isVerified", no)
      /\ row.until = Decoded(k, "verifiedUntil", 0)
  BY <1>2 DEF Row
<1> HIDE DEF r, no
<1>4. row.creator \in {chain[r].creator, None}
  BY <1>1, <1>3, DecodedSound DEF Possible, r
<1>5. row.paused \in {no} \cup (BOOLEAN \cap was[r].paused)
  BY <1>1, <1>3, DecodedSound DEF Possible, r
<1>6. row.verified \in {no} \cup (BOOLEAN \cap was[r].verified)
  BY <1>1, <1>3, DecodedSound DEF Possible, r
<1>7. row.until \in was[r].until \cup {0}
  BY <1>1, <1>3, DecodedSound DEF Possible, r
<1>8. row.paused = TRUE => TRUE \in was[r].paused
  BY <1>5 DEF no
<1>9. row.verified = TRUE => TRUE \in was[r].verified
  BY <1>6 DEF no
<1>10. row.paused \in BOOLEAN /\ row.verified \in BOOLEAN
  BY <1>5, <1>6 DEF no
<1> QED
  BY <1>3, <1>4, <1>7, <1>8, <1>9, <1>10

\* Whoever reads the lists while the chain goes on: every row shows values of its own
\* registry that were true at some moment since the batch began, or the safe fallback
\* (decodeResult), for any number of registries and any calls that fail.
THEOREM RowsAreTrueHolds == ReaderSpec => []RowsAreTrue
  BY ReaderInvariance, RowsTrue, PTL

LEMMA VerifiedVisible ==
  ASSUME ReaderInv
  PROVE  VerifiedStayVisible
<1> SUFFICES ASSUME OnScreen, read.kind \in {"identity", "dashboard"}, fails = 0,
                    NEW r \in steady, read.acct # None
             PROVE  \E row \in ShownRows : row.reg = r /\ row.verified
  BY DEF VerifiedStayVisible, OnScreen
<1>1. /\ read \in Reads /\ read.acct = Wallet /\ r \in Registries
      /\ read.targets \in Seq(Registries)
  BY DEF ReaderInv, ReaderTypeOK, Reads
<1>2. PICK k \in DOMAIN read.targets : read.targets[k] = r
  <2> r \in Range(read.targets)
    BY DEF ReaderInv, SteadyRead, OnScreen
  <2> QED
    BY DEF Range
<1> DEFINE row == Row(k)
           no == FALSE
<1>3. /\ row.reg = r
      /\ row.creator = Decoded(k, "registryInfo", None)
      /\ row.verified = Decoded(k, "isVerified", no)
  BY <1>2 DEF Row
<1> HIDE DEF no
<1>4. "isVerified" \in Range(CallsMade) /\ "registryInfo" \in Range(CallsMade)
  BY <1>1, VerificationCalled DEF CallsMade
<1>5. row.verified \in BOOLEAN \cap was[r].verified
  <2>1. PICK result : /\ Decoded(k, "isVerified", no) = result.val
                      /\ result.of = read.targets[k] /\ result.fn = "isVerified"
                      /\ result.val \notin {Pending, Failed}
                      /\ Possible(result, chain, was)
    BY <1>4, DecodedSound
  <2> HIDE DEF row
  <2> QED
    BY <1>2, <1>3, <2>1 DEF Possible
<1>6. row.verified = TRUE
  <2> was[r].verified \subseteq {TRUE}
    BY DEF ReaderInv, Remembered, Batched, OnScreen
  <2> HIDE DEF row
  <2> QED
    BY <1>5
<1>7. row.creator # None
  <2>1. PICK result : /\ Decoded(k, "registryInfo", None) = result.val
                      /\ result.of = read.targets[k] /\ result.fn = "registryInfo"
                      /\ result.val \notin {Pending, Failed}
                      /\ Possible(result, chain, was)
    BY <1>4, DecodedSound
  <2>2. result.val = chain[r].creator
    BY <1>2, <2>1 DEF Possible
  <2>3. chain[r].creator \in Accounts
    BY <1>1 DEF ReaderInv, ReaderTypeOK, RegistryState
  <2> HIDE DEF row
  <2> QED
    BY <1>3, <2>1, <2>2, <2>3, ReaderAssumption
<1>8. Shows(row)
  <2> HIDE DEF row
  <2> QED
    BY <1>6, <1>7 DEF Shows, IdentityRow, DashboardRow
<1>9. row \in ShownRows
  BY <1>8 DEF ReaderInv, RowsOfTargets
<1> HIDE DEF row
<1> QED
  BY <1>3, <1>6, <1>9

\* dashboard: a registry that is visible and in which the wallet is verified for as long
\* as the read takes is shown, as verified, whatever else changes on chain meanwhile.
THEOREM VerifiedStayVisibleHolds == ReaderSpec => []VerifiedStayVisible
  BY ReaderInvariance, VerifiedVisible, PTL

-----------------------------------------------------------------------------
(***************************************************************************)
(* The desktop wizard: consent before a certificate leaves, a result for   *)
(* the parameters on screen, and a proof with the certificate that was shown.*)
(* All three rest on OneProof: the views of a running proof have no way out,*)
(* so that a proof never outlives the step that started it.                *)
(***************************************************************************)

WizardTypeOK ==
  /\ step \in 0..3
  /\ certificates \in Seq(Certificates) /\ store \in Seq(Certificates)
  /\ scans \in Seq(Seq(Certificates))
  /\ proofMode \in Modes
  /\ \A j \in jobs : j = [params |-> j.params, cert |-> j.cert, at |-> j.at,
                          path |-> j.path, mounted |-> j.mounted]

\* The proof that is being made is the only one, of the mounted step and its parameters.
OneProof ==
  \A j \in jobs : /\ step = 3 /\ proofStatus = "proving"
                  /\ jobs = {j} /\ j.mounted /\ j.params = params

\* The list on screen is the store's, unless a scan is on its way or the wizard was reset.
StoreShown ==
  /\ scans = << >> => certificates \in {store, << >>}
  /\ scans # << >> => store = scans[Len(scans)]

SelectionInList == selectedCertIndex # None => selectedCertIndex \in DOMAIN certificates

\* Past its step the selection stays what it was, if no scan was running.
SelectionKept ==
  step \in {2, 3} /\ ~scanOverlap =>
    /\ scans = << >> /\ selectedCertIndex # None
    /\ confirmed = certificates[selectedCertIndex]
    /\ step = 3 => params.cert = selectedCertIndex

\* A prover whose step is past its consent gate has been agreed to.
ConsentKept ==
  step = 3 /\ params.mode = "delegated" /\ proofStatus # "idle" =>
    remounted \/ params.prover \in agreed

WizardInv ==
  /\ WizardTypeOK /\ OneProof
  /\ StoreShown /\ SelectionInList /\ SelectionKept /\ CertificateAsShown
  /\ ConsentKept /\ ConsentUnlessRemounted /\ ShownResultCurrent

-----------------------------------------------------------------------------
LEMMA WizardInitInv == WizardInit => WizardInv
  BY DEF WizardInit, Modes, WizardInv, WizardTypeOK, OneProof, StoreShown, SelectionInList,
     SelectionKept, CertificateAsShown, ConsentKept, ConsentUnlessRemounted,
     ConsentBeforeSend, ShownResultCurrent

\* A proof starts only where none is being made, and is then the only one.
LEMMA StartedProof ==
  ASSUME OneProof, NEW p, StartProof(p)
  PROVE  /\ jobs = {} /\ proofStatus' = "proving" /\ proofResult' = None
         /\ \E way : jobs' = {[params |-> p, cert |-> NoCert, at |-> 0,
                               path |-> Path(p.mode, way), mounted |-> TRUE]}
<1>1. jobs = {}
  BY DEF OneProof, StartProof
<1> QED
  BY <1>1 DEF StartProof

\* What the updates of a job's record leave.
LEMMA JobFields ==
  ASSUME NEW j, j = [params |-> j.params, cert |-> j.cert, at |-> j.at,
                     path |-> j.path, mounted |-> j.mounted]
  PROVE  /\ \A c : [j EXCEPT !.cert = c]
                   = [params |-> j.params, cert |-> c, at |-> j.at,
                      path |-> j.path, mounted |-> j.mounted]
         /\ \A n : [j EXCEPT !.at = n]
                   = [params |-> j.params, cert |-> j.cert, at |-> n,
                      path |-> j.path, mounted |-> j.mounted]
<1> DEFINE J(p, c, a, t, m) == [params |-> p, cert |-> c, at |-> a, path |-> t, mounted |-> m]
           WithCert(r, x) == [r EXCEPT !.cert = x]
           WithStage(r, x) == [r EXCEPT !.at = x]
<1>1. ASSUME NEW p, NEW c, NEW a, NEW t, NEW m, NEW x
      PROVE  /\ WithCert(J(p, c, a, t, m), x) = J(p, x, a, t, m)
             /\ WithStage(J(p, c, a, t, m), x) = J(p, c, x, t, m)
  OBVIOUS
<1>2. j = J(j.params, j.cert, j.at, j.path, j.mounted)
  OBVIOUS
<1>3. /\ \A x : WithCert(j, x) = J(j.params, x, j.at, j.path, j.mounted)
      /\ \A x : WithStage(j, x) = J(j.params, j.cert, x, j.path, j.mounted)
  <2> HIDE DEF J, WithCert, WithStage
  <2> QED
    BY <1>1, <1>2
<1> QED
  BY <1>3, Zenon

LEMMA WizardStepInv ==
  ASSUME WizardInv, [WizardNext]_wizardVars
  PROVE  WizardInv'
<1> USE DEF WizardInv, connectVars, certVars, configVars, proofVars, mountVars, consentVars
<1>1. ASSUME ResetButton
      PROVE  WizardInv'
  BY <1>1 DEF ResetButton, Reset, Modes, Unmount,
     WizardTypeOK, OneProof, StoreShown, SelectionInList, SelectionKept,
     CertificateAsShown, ConsentKept, ConsentUnlessRemounted, ConsentBeforeSend,
     ShownResultCurrent
<1>2. ASSUME ConnectRegistry
      PROVE  WizardInv'
  BY <1>2 DEF ConnectRegistry, CountCall,
     WizardTypeOK, OneProof, StoreShown, SelectionInList, SelectionKept,
     CertificateAsShown, ConsentKept, ConsentUnlessRemounted, ConsentBeforeSend,
     ShownResultCurrent
<1>3. ASSUME ConnectNext
      PROVE  WizardInv'
  BY <1>3 DEF ConnectNext,
     WizardTypeOK, OneProof, StoreShown, SelectionInList, SelectionKept,
     CertificateAsShown, ConsentKept, ConsentUnlessRemounted, ConsentBeforeSend,
     ShownResultCurrent
<1>4. ASSUME Scan
      PROVE  WizardInv'
  BY <1>4, KeyStoreAssumption, DesktopAssumption DEF Scan, Stored, CountCall,
     WizardTypeOK, OneProof, StoreShown, SelectionInList, SelectionKept,
     CertificateAsShown, ConsentKept, ConsentUnlessRemounted, ConsentBeforeSend,
     ShownResultCurrent, KeyStoreAssumption, DesktopAssumption
<1>5. ASSUME ScanAnswered
      PROVE  WizardInv'
  <2>0. /\ scans # << >> /\ Head(scans) \in Seq(Certificates)
        /\ Tail(scans) \in Seq(Seq(Certificates))
    BY <1>5 DEF ScanAnswered, WizardTypeOK
  <2>1. WizardTypeOK' /\ OneProof'
    BY <1>5, <2>0 DEF ScanAnswered, WizardTypeOK, OneProof
  <2>2. StoreShown'
    <3>1. CASE Tail(scans) = << >>
      <4>1. Len(scans) \in Nat /\ Len(scans) > 0 /\ Len(Tail(scans)) = Len(scans) - 1
        BY <2>0, Z3 DEF WizardTypeOK
      <4>2. Len(scans) = 1
        <5>1. Len(Tail(scans)) = 0
          BY <3>1, EmptySeq
        <5> QED
          BY <4>1, <5>1
      <4>3. store = Head(scans)
        BY <2>0, <4>2 DEF StoreShown, WizardTypeOK
      <4> QED
        BY <1>5, <3>1, <4>3 DEF ScanAnswered, StoreShown
    <3>2. CASE Tail(scans) # << >>
      <4>1. Tail(scans)[Len(Tail(scans))] = scans[Len(scans)]
        BY <2>0, <3>2 DEF WizardTypeOK
      <4> QED
        BY <1>5, <2>0, <3>2, <4>1 DEF ScanAnswered, StoreShown
    <3> QED
      BY <3>1, <3>2
  <2>3. SelectionInList'
    BY <1>5, <2>0 DEF ScanAnswered, SelectionInList
  <2>4. SelectionKept' /\ CertificateAsShown'
    BY <1>5, <2>0 DEF ScanAnswered, SelectionKept, CertificateAsShown
  <2>5. ConsentKept' /\ ConsentUnlessRemounted' /\ ShownResultCurrent'
    BY <1>5 DEF ScanAnswered, ConsentKept, ConsentUnlessRemounted, ConsentBeforeSend,
       ShownResultCurrent
  <2> QED
    BY <2>1, <2>2, <2>3, <2>4, <2>5
<1>6. ASSUME CertificateNext
      PROVE  WizardInv'
  <2>0. jobs = {} /\ jobs' = {}
    BY <1>6 DEF CertificateNext, OneProof
  <2>1. WizardTypeOK' /\ OneProof' /\ jobs = {}
    BY <1>6, <2>0 DEF CertificateNext, WizardTypeOK, OneProof
  <2>2. StoreShown' /\ SelectionInList' /\ CertificateAsShown'
    BY <1>6, <2>0 DEF CertificateNext, StoreShown, SelectionInList, CertificateAsShown
  <2>4. SelectionKept'
    <3>1. step' = 2 /\ (scans # << >> => scanOverlap')
      BY <1>6 DEF CertificateNext
    <3>2. /\ selectedCertIndex # None /\ confirmed' = certificates[selectedCertIndex]
          /\ UNCHANGED <<certificates, selectedCertIndex, scans>>
      BY <1>6 DEF CertificateNext
    <3> QED
      BY <3>1, <3>2 DEF SelectionKept
  <2>3. ConsentKept' /\ ConsentUnlessRemounted' /\ ShownResultCurrent'
    BY <1>6 DEF CertificateNext, ConsentKept, ConsentUnlessRemounted, ConsentBeforeSend,
       ShownResultCurrent
  <2> QED
    BY <2>1, <2>2, <2>3, <2>4
<1>7. ASSUME GenerateProof
      PROVE  WizardInv'
  <2>0. /\ jobs = {} /\ step = 2 /\ step' = 3 /\ params' = Snapshot
        /\ UNCHANGED <<certVars, configVars, agreed, sent>>
        /\ remounted' = (remounted \/ (proofMode = "delegated" /\ proofStatus # "idle"))
    BY <1>7 DEF GenerateProof, OneProof
  <2>1. params'.cert = selectedCertIndex /\ params'.mode = proofMode
    BY <2>0 DEF Snapshot
  <2>2. CASE proofMode = "local"
    <3>1. StartProof(Snapshot)
      BY <1>7, <2>2 DEF GenerateProof, StartsOnMount
    <3>2. PICK way : jobs' = {[params |-> Snapshot, cert |-> NoCert, at |-> 0,
                               path |-> Path(Snapshot.mode, way), mounted |-> TRUE]}
      BY <3>1, StartedProof
    <3>3. proofStatus' = "proving"
      BY <3>1, StartedProof
    <3>4. WizardTypeOK' /\ OneProof' /\ CertificateAsShown'
      BY <2>0, <3>2, <3>3 DEF WizardTypeOK, OneProof, CertificateAsShown
    <3>5. ConsentKept' /\ ShownResultCurrent'
      BY <2>0, <2>1, <2>2, <3>3 DEF ConsentKept, ShownResultCurrent
    <3> QED
      BY <2>0, <2>1, <3>4, <3>5 DEF StoreShown, SelectionInList, SelectionKept,
         ConsentUnlessRemounted, ConsentBeforeSend
  <2>3. CASE proofMode # "local"
    <3>1. jobs' = {} /\ UNCHANGED proofVars
      BY <1>7, <2>0, <2>3 DEF GenerateProof, StartsOnMount
    <3>2. OneProof' /\ CertificateAsShown'
      BY <3>1 DEF OneProof, CertificateAsShown
    <3>4. WizardTypeOK'
      BY <2>0, <3>1 DEF WizardTypeOK
    <3>3. ConsentKept' /\ ShownResultCurrent'
      BY <2>0, <2>1, <2>3, <3>1 DEF WizardTypeOK, Modes, ConsentKept, ShownResultCurrent
    <3> QED
      BY <2>0, <2>1, <3>2, <3>3, <3>4 DEF StoreShown, SelectionInList, SelectionKept,
         ConsentUnlessRemounted, ConsentBeforeSend
  <2> QED
    BY <2>2, <2>3
<1>8. ASSUME ListenerRegistered
      PROVE  WizardInv'
  BY <1>8 DEF ListenerRegistered,
     WizardTypeOK, OneProof, StoreShown, SelectionInList, SelectionKept,
     CertificateAsShown, ConsentKept, ConsentUnlessRemounted, ConsentBeforeSend,
     ShownResultCurrent
<1>9. ASSUME Agree
      PROVE  WizardInv'
  <2>1. PICK way : jobs' = {[params |-> params, cert |-> NoCert, at |-> 0,
                             path |-> Path(params.mode, way), mounted |-> TRUE]}
    BY <1>9, StartedProof DEF Agree
  <2>2. proofStatus' = "proving" /\ params.prover \in agreed' /\ agreed \subseteq agreed'
    BY <1>9, StartedProof DEF Agree
  <2>3. step = 3 /\ UNCHANGED <<step, params, certVars, proofMode, sent, remounted>>
    BY <1>9 DEF Agree
  <2>4. WizardTypeOK' /\ OneProof' /\ CertificateAsShown'
    BY <2>1, <2>2, <2>3 DEF WizardTypeOK, OneProof, CertificateAsShown
  <2> QED
    BY <2>2, <2>3, <2>4 DEF StoreShown, SelectionInList, SelectionKept, ConsentKept,
       ConsentUnlessRemounted, ConsentBeforeSend, ShownResultCurrent
<1>10. ASSUME Retry
      PROVE  WizardInv'
  <2>1. PICK way : jobs' = {[params |-> params, cert |-> NoCert, at |-> 0,
                             path |-> Path(params.mode, way), mounted |-> TRUE]}
    BY <1>10, StartedProof DEF Retry
  <2>2. proofStatus = "error" /\ proofStatus' = "proving"
    BY <1>10, StartedProof DEF Retry
  <2>3. step = 3 /\ UNCHANGED <<step, params, certVars, proofMode, consentVars>>
    BY <1>10 DEF Retry
  <2>4. WizardTypeOK' /\ OneProof' /\ CertificateAsShown'
    BY <2>1, <2>2, <2>3 DEF WizardTypeOK, OneProof, CertificateAsShown
  <2> QED
    BY <2>2, <2>3, <2>4 DEF StoreShown, SelectionInList, SelectionKept, ConsentKept,
       ConsentUnlessRemounted, ConsentBeforeSend, ShownResultCurrent
<1>11. ASSUME StartOver
      PROVE  WizardInv'
  BY <1>11 DEF StartOver, Reset, Modes, Unmount,
     WizardTypeOK, OneProof, StoreShown, SelectionInList, SelectionKept,
     CertificateAsShown, ConsentKept, ConsentUnlessRemounted, ConsentBeforeSend,
     ShownResultCurrent
<1>12. ASSUME Back
      PROVE  WizardInv'
  BY <1>12 DEF Back, PrevStep, Unmount,
     WizardTypeOK, OneProof, StoreShown, SelectionInList, SelectionKept,
     CertificateAsShown, ConsentKept, ConsentUnlessRemounted, ConsentBeforeSend,
     ShownResultCurrent
<1>13. ASSUME NEW r, EditAddress(r)
      PROVE  WizardInv'
  BY <1>13 DEF EditAddress,
     WizardTypeOK, OneProof, StoreShown, SelectionInList, SelectionKept,
     CertificateAsShown, ConsentKept, ConsentUnlessRemounted, ConsentBeforeSend,
     ShownResultCurrent
<1>14. ASSUME NEW r, ConnectAnswered(r)
      PROVE  WizardInv'
  BY <1>14 DEF ConnectAnswered, Modes,
     WizardTypeOK, OneProof, StoreShown, SelectionInList, SelectionKept,
     CertificateAsShown, ConsentKept, ConsentUnlessRemounted, ConsentBeforeSend,
     ShownResultCurrent
<1>15. ASSUME NEW i \in Indices, Select(i)
      PROVE  WizardInv'
  BY <1>15 DEF Select,
     WizardTypeOK, OneProof, StoreShown, SelectionInList, SelectionKept,
     CertificateAsShown, ConsentKept, ConsentUnlessRemounted, ConsentBeforeSend,
     ShownResultCurrent
<1>16. ASSUME NEW n, SetWalletIndex(n)
      PROVE  WizardInv'
  BY <1>16 DEF SetWalletIndex,
     WizardTypeOK, OneProof, StoreShown, SelectionInList, SelectionKept,
     CertificateAsShown, ConsentKept, ConsentUnlessRemounted, ConsentBeforeSend,
     ShownResultCurrent
<1>17. ASSUME NEW mode \in Modes, ChooseMode(mode)
      PROVE  WizardInv'
  BY <1>17 DEF ChooseMode,
     WizardTypeOK, OneProof, StoreShown, SelectionInList, SelectionKept,
     CertificateAsShown, ConsentKept, ConsentUnlessRemounted, ConsentBeforeSend,
     ShownResultCurrent
<1>18. ASSUME NEW j \in jobs, ProofMade(j)
      PROVE  WizardInv'
  BY <1>18 DEF ProofMade, Answer,
     WizardTypeOK, OneProof, StoreShown, SelectionInList, SelectionKept,
     CertificateAsShown, ConsentKept, ConsentUnlessRemounted, ConsentBeforeSend,
     ShownResultCurrent
<1>19. ASSUME NEW j \in jobs, ProofFailed(j)
      PROVE  WizardInv'
  BY <1>19 DEF ProofFailed, Answer,
     WizardTypeOK, OneProof, StoreShown, SelectionInList, SelectionKept,
     CertificateAsShown, ConsentKept, ConsentUnlessRemounted, ConsentBeforeSend,
     ShownResultCurrent
<1>20. ASSUME NEW j \in jobs, ReadStore(j)
      PROVE  WizardInv'
  <2>1. /\ jobs = {j} /\ step = 3 /\ proofStatus = "proving" /\ j.mounted /\ j.params = params
        /\ UNCHANGED <<step, certVars, proofMode, proofVars, params, consentVars>>
    BY <1>20 DEF ReadStore, OneProof
  <2>2. /\ j.params.cert \in DOMAIN store
        /\ jobs' = {[params |-> j.params, cert |-> store[j.params.cert], at |-> j.at,
                     path |-> j.path, mounted |-> j.mounted]}
    <3>1. jobs' = {[j EXCEPT !.cert = store[j.params.cert]]}
      BY <1>20, <2>1 DEF ReadStore
    <3>2. [j EXCEPT !.cert = store[j.params.cert]]
            = [params |-> j.params, cert |-> store[j.params.cert], at |-> j.at,
               path |-> j.path, mounted |-> j.mounted]
      BY JobFields DEF WizardTypeOK
    <3> QED
      BY <1>20, <3>1, <3>2 DEF ReadStore
  <2>3. WizardTypeOK' /\ OneProof'
    BY <2>1, <2>2 DEF WizardTypeOK, OneProof
  <2>4. CertificateAsShown'
    <3>1. CASE scanOverlap
      BY <2>1, <3>1 DEF CertificateAsShown
    <3>2. CASE ~scanOverlap
      <4>1. certificates = store
        BY <2>1, <3>2 DEF SelectionKept, SelectionInList, StoreShown
      <4>2. store[j.params.cert] = confirmed
        BY <2>1, <3>2, <4>1 DEF SelectionKept
      <4> QED
        BY <2>1, <2>2, <4>2 DEF CertificateAsShown
    <3> QED
      BY <3>1, <3>2
  <2> QED
    BY <2>1, <2>3, <2>4 DEF StoreShown, SelectionInList, SelectionKept, ConsentKept,
       ConsentUnlessRemounted, ConsentBeforeSend, ShownResultCurrent
<1>21. ASSUME NEW j \in jobs, ReachStage(j)
      PROVE  WizardInv'
  <2>1. /\ jobs = {j} /\ step = 3 /\ proofStatus = "proving" /\ j.mounted /\ j.params = params
        /\ UNCHANGED <<step, certVars, proofMode, proofStatus, proofResult, params, agreed,
                       remounted>>
    BY <1>21 DEF ReachStage, OneProof
  <2>2. jobs' = {[params |-> j.params, cert |-> j.cert, at |-> j.at + 1,
                  path |-> j.path, mounted |-> j.mounted]}
    <3>1. jobs' = {[j EXCEPT !.at = @ + 1]}
      BY <1>21, <2>1 DEF ReachStage
    <3>2. [j EXCEPT !.at = @ + 1]
            = [params |-> j.params, cert |-> j.cert, at |-> j.at + 1,
               path |-> j.path, mounted |-> j.mounted]
      BY JobFields DEF WizardTypeOK
    <3> QED
      BY <3>1, <3>2
  <2>3. sent' \subseteq sent \cup {params.prover}
        /\ (params.mode # "delegated" => sent' = sent)
    BY <1>21, <2>1 DEF ReachStage
  <2>4. WizardTypeOK' /\ OneProof' /\ CertificateAsShown'
    BY <2>1, <2>2 DEF WizardTypeOK, OneProof, CertificateAsShown
  <2>5. ConsentUnlessRemounted'
    BY <2>1, <2>3 DEF ConsentKept, ConsentUnlessRemounted, ConsentBeforeSend
  <2> QED
    BY <2>1, <2>4, <2>5 DEF StoreShown, SelectionInList, SelectionKept, ConsentKept,
       ShownResultCurrent
<1>22. CASE UNCHANGED wizardVars
  BY <1>22 DEF wizardVars, WizardTypeOK, OneProof, StoreShown, SelectionInList, SelectionKept,
     CertificateAsShown, ConsentKept, ConsentUnlessRemounted, ConsentBeforeSend,
     ShownResultCurrent
<1> QED
  BY <1>1, <1>2, <1>3, <1>4, <1>5, <1>6, <1>7, <1>8, <1>9, <1>10, <1>11, <1>12, <1>13,
     <1>14, <1>15, <1>16, <1>17, <1>18, <1>19, <1>20, <1>21, <1>22 DEF WizardNext

LEMMA WizardInvariance == WizardSpec => []WizardInv
<1>1. WizardInv /\ [WizardNext]_wizardVars => WizardInv'
  BY WizardStepInv
<1> QED
  BY WizardInitInv, <1>1, PTL DEF WizardSpec

-----------------------------------------------------------------------------
\* A proof is made with the certificate the user saw selected, although it reads it by
\* index from a store that scans replace (commands/proving.rs), unless a scan was
\* running when the user left the list.
THEOREM CertificateAsShownHolds == WizardSpec => []CertificateAsShown
<1>1. WizardInv => CertificateAsShown
  BY DEF WizardInv
<1> QED
  BY WizardInvariance, <1>1, PTL

\* No certificate goes to a prover that was not agreed to, unless a delegated step was
\* mounted after another proof (ProveStep.tsx:133).
THEOREM ConsentUnlessRemountedHolds == WizardSpec => []ConsentUnlessRemounted
<1>1. WizardInv => ConsentUnlessRemounted
  BY DEF WizardInv
<1> QED
  BY WizardInvariance, <1>1, PTL

\* The result on screen is of the parameters on screen, with the same exception.
THEOREM ShownResultCurrentHolds == WizardSpec => []ShownResultCurrent
<1>1. WizardInv => ShownResultCurrent
  BY DEF WizardInv
<1> QED
  BY WizardInvariance, <1>1, PTL

\* A running proof is the only one, and belongs to the step and the parameters on
\* screen: no answer arrives after the step that asked for it (ProveStep.tsx).
THEOREM OneProofHolds == WizardSpec => []OneProof
<1>1. WizardInv => OneProof
  BY DEF WizardInv
<1> QED
  BY WizardInvariance, <1>1, PTL

-----------------------------------------------------------------------------
(***************************************************************************)
(* The prover server: who registers with a proof of it is on record there. *)
(***************************************************************************)

\* What is being proved has a consent by the key of its certificate.
WorkConsented == \A q \in proving : ConsentVerified(q)

\* The record says who is behind the proof, and that they agreed to it.
Backs(record, p) ==
  /\ record.registrant = p.of.registrant
  /\ record.nullifier = p.nullifier /\ record.serial = p.nullifier
  /\ record.consent.key = record.serial /\ record.consent.of = p.of

ProofsRecorded == \A p \in proofs : p \in unlogged \/ \E record \in log : Backs(record, p)

RegisteredInTime ==
  \A g \in registered :
    g.proof \in proofs /\ g.at - g.proof.of.timestamp <= MaxProofAge

DelegationInv == WorkConsented /\ ProofsRecorded /\ RegisteredInTime

-----------------------------------------------------------------------------
LEMMA DelegationInitInv == DelegationInit => DelegationInv
  BY DEF DelegationInit, DelegationInv, WorkConsented, ProofsRecorded, RegisteredInTime

\* The record that is written with a proof backs it.
LEMMA RecordBacks ==
  ASSUME NEW q, ConsentVerified(q), CircuitAccepts(q)
  PROVE  Backs(RecordOf(q), ProofOf(q))
  BY DEF ConsentVerified, CircuitAccepts, Backs, RecordOf, ProofOf

\* A step that adds to neither proofs, records nor registrations.
LEMMA NothingMade ==
  ASSUME DelegationInv, UNCHANGED <<log, unlogged, proofs, registered>>,
         \A q \in proving' : q \in proving \/ ConsentVerified(q)
  PROVE  DelegationInv'
<1>1. WorkConsented'
  BY DEF DelegationInv, WorkConsented, ConsentVerified
<1>2. ProofsRecorded' /\ RegisteredInTime'
  BY DEF DelegationInv, ProofsRecorded, RegisteredInTime
<1> QED
  BY <1>1, <1>2 DEF DelegationInv

LEMMA DelegationStepInv ==
  ASSUME DelegationInv, [DelegationNext]_delegationVars
  PROVE  DelegationInv'
<1> USE DEF signingVars, requestVars, proverVars
<1>1. CASE \E found \in Listings : Rescan(found)
  BY <1>1, NothingMade DEF Rescan
<1>2. CASE \E found \in rescans : StoreScan(found)
  BY <1>2, NothingMade DEF StoreScan
<1>3. ASSUME NEW i \in DOMAIN identities,
             CertDer(i) \/ SignConsent(i) \/ SignNullifier(i) \/ HashOwnership(i)
      PROVE  DelegationInv'
  BY <1>3, NothingMade DEF CertDer, SignConsent, SignNullifier, HashOwnership
<1>4. CASE SignOwnership
  BY <1>4, NothingMade DEF SignOwnership
<1>5. CASE \E acct \in Accounts, time \in clock..(clock + ConsentAge) :
             Prepare(acct, time)
  BY <1>5, NothingMade DEF Prepare
<1>6. CASE Prove
  <2> proving' = proving \cup {Request} /\ ConsentVerified(Request)
      /\ UNCHANGED <<log, unlogged, proofs, registered>>
    BY <1>6 DEF Prove
  <2> QED
    BY NothingMade
<1>7. ASSUME NEW q \in proving, Proved(q)
      PROVE  DelegationInv'
  <2>1. /\ CircuitAccepts(q) /\ ConsentVerified(q)
        /\ proving' \subseteq proving /\ registered' = registered
        /\ proofs \subseteq proofs' /\ proofs' \subseteq proofs \cup {ProofOf(q)}
        /\ log \subseteq log' /\ unlogged \subseteq unlogged'
        /\ RecordOf(q) \in log' \/ ProofOf(q) \in unlogged'
    BY <1>7 DEF Proved, DelegationInv, WorkConsented
  <2>2. WorkConsented'
    BY <2>1 DEF DelegationInv, WorkConsented, ConsentVerified
  <2>3. ProofsRecorded'
    BY <2>1, RecordBacks DEF DelegationInv, ProofsRecorded
  <2>4. RegisteredInTime'
    BY <2>1 DEF DelegationInv, RegisteredInTime
  <2> QED
    BY <2>2, <2>3, <2>4 DEF DelegationInv
<1>8. CASE \E q \in proving : NotProved(q)
  BY <1>8, NothingMade DEF NotProved
<1>9. ASSUME NEW p \in proofs, Register(p)
      PROVE  DelegationInv'
  <2>1. /\ clock - p.of.timestamp <= MaxProofAge
        /\ registered' = registered \cup {[proof |-> p, at |-> clock]}
        /\ UNCHANGED <<proving, log, unlogged, proofs>>
    BY <1>9 DEF Register
  <2>2. RegisteredInTime'
    BY <2>1 DEF DelegationInv, RegisteredInTime
  <2>3. WorkConsented' /\ ProofsRecorded'
    BY <2>1 DEF DelegationInv, WorkConsented, ConsentVerified, ProofsRecorded
  <2> QED
    BY <2>2, <2>3 DEF DelegationInv
<1>10. CASE TimePasses \/ UNCHANGED delegationVars
  BY <1>10, NothingMade DEF TimePasses, delegationVars
<1> QED
  BY <1>1, <1>2, <1>3, <1>4, <1>5, <1>6, <1>7, <1>8, <1>9, <1>10 DEF DelegationNext

-----------------------------------------------------------------------------
\* prover-server.rs, prove_handler: verify_consent before proving, log_compliance before
\* the answer.  With the circuit's checks of the two other signatures that suffices for
\* every registration to be traced to its holder and their consent.
THEOREM RegistrantsOnRecordHolds == DelegationSpec => []RegistrantsOnRecord
<1>1. DelegationInv /\ [DelegationNext]_delegationVars => DelegationInv'
  BY DelegationStepInv
<1>2. DelegationInv => RegistrantsOnRecord
  BY DEF DelegationInv, ProofsRecorded, RegisteredInTime, Backs, RegistrantsOnRecord
<1> QED
  BY DelegationInitInv, <1>1, <1>2, PTL DEF DelegationSpec
=============================================================================
