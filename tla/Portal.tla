------------------------------- MODULE Portal -------------------------------
(***************************************************************************)
(* The wallet session of the web portal (lib/wallet.tsx) and the pages     *)
(* that read through it: the lists of registries (app/admin, app/identity, *)
(* app/dashboard) and the page of one registry with its registration form  *)
(* (app/registry/[address], components/DashboardContent.tsx).              *)
(*                                                                         *)
(* The session follows the account that the wallet reports and loads what  *)
(* belongs to it in several calls, each of which may fail or be overtaken; *)
(* loads are never cancelled.  The lists cancel theirs, the registry page  *)
(* does not.  A chain change reloads the page: everything starts over.     *)
(* React effects are part of the step that changes what they depend on.    *)
(***************************************************************************)
EXTENDS Integers, Sequences, FiniteSets, Parties

CONSTANTS
  Owner,          \* of the registry whose page is open
  Pages,          \* pages of this instance
  Unknown, NoTx, Done,
  MaxLoads,       \* bound: loads of the session; with none left the form is not sent
  MaxSwitches,    \* bound: what the user does in the wallet and the menu
  MaxQueue        \* bound: messages of the wallet on their way

ASSUME PortalAssumption ==
  /\ Owner \in Accounts /\ None \notin Accounts
  /\ Pages \subseteq {"owned", "identity", "dashboard", "registry"}
  /\ {MaxLoads, MaxQueue} \subseteq Nat /\ MaxSwitches \in [Pages -> Nat]

VARIABLES
  wallet, granted,     \* the wallet: its account, and whether the site may see it
  queue,               \* its messages on their way: answers and accountsChanged
  account, chainId, provider,    \* the session
  signer, contract,    \* accounts that sign and that write, or None
  isOwner,
  sessions,            \* runs of the effect that loads the session
  page,                \* the page that is open
  cards, loading, error, fetches,   \* whose data it shows, and reads on their way
  identity, idFetches, \* DashboardContent: verified, and reads of it on their way
  verified,            \* accounts the registry has verified
  tx,                  \* DashboardContent: txStatus, with who sends and for whom
  loads, switches,     \* counted for the bounds
  crossed, failed,     \* history: of the last session load, it met another, a load failed
  idCrossed, idFailed, \* history: the same of the identity
  idMissed             \* history: since then a registration was mined that the form
                       \* had taken for failed

walletVars == <<wallet, granted, queue, switches>>
sessionVars == <<account, chainId, provider, signer, contract, isOwner>>
loadVars == <<sessions, loads, crossed, failed>>
pageVars == <<cards, loading, error, fetches>>
idVars == <<identity, idFetches, idCrossed, idFailed, idMissed>>
portalVars == <<walletVars, sessionVars, loadVars, page, pageVars, idVars, verified, tx>>

AccountsAnswer(acc) == [kind |-> "answer", acc |-> acc]
AccountsEvent(acc) == [kind |-> "event", acc |-> acc]
Selected(g) == IF g THEN wallet ELSE None

PortalInit ==
  /\ wallet \in Accounts /\ granted \in BOOLEAN
  /\ queue = <<AccountsAnswer(Selected(granted))>>      \* eth_accounts, asked on mount
  /\ account = None /\ chainId = None /\ provider = None
  /\ signer = None /\ contract = None /\ isOwner = FALSE
  /\ sessions = {} /\ loads = 0 /\ crossed = FALSE /\ failed = FALSE
  /\ page \in Pages
  /\ cards = Unknown /\ error = FALSE /\ fetches = {}
  /\ loading = (page \notin {"owned", "identity"})    \* their effects see no account
  /\ identity = Unknown /\ idFetches = {} /\ idCrossed = FALSE /\ idFailed = FALSE
  /\ idMissed = FALSE
  /\ verified = {} /\ tx = NoTx
  /\ switches = 0

(* -- effects -- *)

\* The effect that loads the session: no account, no load.
LoadSession(acc) ==
  IF acc = None THEN UNCHANGED loadVars
  ELSE /\ loads < MaxLoads /\ loads' = loads + 1
       /\ sessions' = sessions \cup {[n |-> loads + 1, acc |-> acc, step |-> "signer",
                                      signer |-> None]}
       /\ crossed' = (sessions # {}) /\ failed' = FALSE

\* Mutant: the lists do not cancel the read they replace.
FetchesKept(acc) == fetches \cup {acc}

\* The reads of a list on their way once its effect has run again.
FetchesAfter(acc) == {acc}

\* A list that is about an account: no account, an empty list; no provider yet, it waits.
AboutAccount(acc, ready) ==
  /\ fetches' = IF acc # None /\ ready THEN FetchesAfter(acc) ELSE {}
  /\ loading' = IF acc = None THEN FALSE ELSE ready \/ loading
  /\ error' = (error /\ ~(acc # None /\ ready))
  /\ UNCHANGED cards

\* The effects of the pages, when account or provider have changed: the registries of
\* the account, the registries that have verified it, all registries, one registry.
OwnedEffect(acc, ready) == AboutAccount(acc, ready)

IdentityEffect(acc, ready) == AboutAccount(acc, ready)

DashboardEffect(acc, ready) ==
  /\ fetches' = IF ready THEN FetchesAfter(acc) ELSE {}
  /\ loading' = TRUE /\ error' = FALSE
  /\ UNCHANGED cards

\* Its loads are not cancelled and do not reset what the page shows.
RegistryEffect(acc, ready) ==
  /\ fetches' = IF ready /\ provider = None THEN {None} ELSE fetches
  /\ UNCHANGED <<cards, loading, error>>

PageEffect(acc, ready) ==
  \/ page = "owned" /\ OwnedEffect(acc, ready)
  \/ page = "identity" /\ IdentityEffect(acc, ready)
  \/ page = "dashboard" /\ DashboardEffect(acc, ready)
  \/ page = "registry" /\ RegistryEffect(acc, ready)

(* -- what the pages show -- *)

\* The lists of an account ask for the wallet first; the dashboard is a list without it.
OwnedShown == page = "owned" /\ account # None /\ ~loading /\ ~error
IdentityShown == page = "identity" /\ account # None /\ ~loading /\ ~error
DashboardShown == page = "dashboard" /\ ~loading /\ ~error

\* The data of the registry are there.
Shown == ~loading /\ ~error

\* fetchIdentity, when it can be called; the page forgets the identity with the account.
IdEffect(acc, con, shown) ==
  IF page # "registry" \/ ~shown THEN UNCHANGED idVars
  ELSE IF acc = None
  THEN identity' = Unknown /\ idFetches' = {} /\ UNCHANGED <<idCrossed, idFailed, idMissed>>
  ELSE IF con = None THEN UNCHANGED idVars
  ELSE /\ idFetches' = idFetches \cup {[n |-> loads, acc |-> acc, val |-> acc \in verified]}
       /\ idCrossed' = (idFetches # {}) /\ idFailed' = FALSE /\ idMissed' = FALSE
       /\ UNCHANGED identity

(* -- the wallet and its messages -- *)

\* The user selects another account, or withdraws the site's access: an event follows.
Switch ==
  /\ switches < MaxSwitches[page] /\ switches' = switches + 1
  /\ Len(queue) < MaxQueue
  /\ \/ \E acc \in Accounts \ {wallet} : wallet' = acc /\ UNCHANGED granted
     \/ granted /\ granted' = FALSE /\ UNCHANGED wallet
  /\ queue' = IF granted THEN Append(queue, AccountsEvent(IF granted' THEN wallet' ELSE None))
              ELSE queue
  /\ UNCHANGED <<sessionVars, loadVars, page, pageVars, idVars, verified, tx>>

\* connect: the wallet asks the user and answers with its account.
ConnectWallet ==
  /\ account = None /\ Len(queue) < MaxQueue
  /\ switches < MaxSwitches[page] /\ switches' = switches + 1
  /\ granted' = TRUE
  /\ queue' = Append(queue, AccountsAnswer(wallet))
  /\ UNCHANGED <<wallet, sessionVars, loadVars, page, pageVars, idVars, verified, tx>>

\* Mutant: the load does not depend on the account.
LoadOnce(acc) == IF provider # None THEN UNCHANGED loadVars ELSE LoadSession(acc)

\* What another account loads again.
AfterAccount(acc) == LoadSession(acc)

SetAccount(acc) ==
  /\ account' = acc
  /\ IF acc = account THEN UNCHANGED <<loadVars, pageVars, idVars>>
     ELSE /\ AfterAccount(acc)
          /\ PageEffect(acc, provider # None)
          /\ IdEffect(acc, contract, Shown)

\* An empty answer is ignored; an empty event clears the account and nothing else.
Message ==
  /\ queue # << >>
  /\ queue' = Tail(queue)
  /\ IF Head(queue) = AccountsAnswer(None)
     THEN UNCHANGED <<account, loadVars, pageVars, idVars>>
     ELSE SetAccount(Head(queue).acc)
  /\ UNCHANGED <<wallet, granted, switches, chainId, provider, signer, contract, isOwner,
                 page, verified, tx>>

\* disconnect, in the menu of the Navbar: it reaches the session of the layout, not
\* the one that the layout of a registry's pages puts around them.
Disconnect ==
  /\ account # None /\ page # "registry"
  /\ switches < MaxSwitches[page] /\ switches' = switches + 1
  /\ account' = None /\ chainId' = None /\ provider' = None
  /\ signer' = None /\ contract' = None /\ isOwner' = FALSE
  /\ PageEffect(None, FALSE)
  /\ UNCHANGED <<wallet, granted, queue, loadVars, page, idVars, verified, tx>>

(* -- the load of the session -- *)

Advance(s, step, sgn) ==
  sessions' = (sessions \ {s}) \cup {[s EXCEPT !.step = step, !.signer = sgn]}

\* getSigner gives the account that is selected now.
GotSigner(s) ==
  /\ s \in sessions /\ s.step = "signer" /\ granted
  /\ Advance(s, "network", wallet)
  /\ UNCHANGED <<walletVars, account, chainId, provider, signer, contract, isOwner, loads, crossed,
                 failed, page, pageVars, idVars, verified, tx>>

\* getNetwork is answered: chain, provider, signer and contracts are set together.
GotNetwork(s) ==
  /\ s \in sessions /\ s.step = "network"
  /\ Advance(s, "state", s.signer)
  /\ chainId' = "chain" /\ provider' = "provider"
  /\ signer' = s.signer /\ contract' = s.signer
  /\ IF provider = None THEN PageEffect(account, TRUE) ELSE UNCHANGED pageVars
  /\ IdEffect(account, s.signer, Shown)
  /\ UNCHANGED <<walletVars, account, isOwner, loads, crossed, failed, page, verified, tx>>

\* The contract state is read; a failed read of the owner means nobody is.
GotState(s) ==
  /\ s \in sessions /\ s.step = "state"
  /\ sessions' = sessions \ {s}
  /\ \/ isOwner' = (s.acc = Owner) /\ UNCHANGED failed
     \/ isOwner' = FALSE /\ failed' = TRUE
  /\ UNCHANGED <<walletVars, account, chainId, provider, signer, contract, loads, crossed,
                 page, pageVars, idVars, verified, tx>>

SessionFails(s) ==
  /\ s \in sessions
  /\ sessions' = sessions \ {s} /\ failed' = TRUE
  /\ UNCHANGED <<walletVars, sessionVars, loads, crossed, page, pageVars, idVars, verified,
                 tx>>

(* -- the pages -- *)

\* A read of the page is answered; the form of a registry's page appears with it.
Fetched(acc) ==
  /\ acc \in fetches
  /\ fetches' = fetches \ {acc} /\ loading' = FALSE
  /\ \/ /\ cards' = acc /\ UNCHANGED error
        /\ IdEffect(account, contract, loading /\ ~error /\ account # None)
     \/ /\ error' = TRUE /\ UNCHANGED <<cards, idVars>>
  /\ UNCHANGED <<walletVars, sessionVars, loadVars, page, verified, tx>>

IdFetched(f) ==
  /\ f \in idFetches
  /\ idFetches' = idFetches \ {f}
  /\ \/ identity' = [acc |-> f.acc, val |-> f.val] /\ UNCHANGED idFailed
     \/ identity' = Unknown /\ idFailed' = TRUE
  /\ UNCHANGED <<walletVars, sessionVars, loadVars, page, pageVars, idCrossed, idMissed,
                 verified, tx>>

Form == page = "registry" /\ Shown /\ account # None

\* handleSubmit: the account on screen may not be the one whose contract object sends.
Submit ==
  /\ Form /\ tx = NoTx /\ contract # None /\ loads < MaxLoads
  /\ tx' = [from |-> contract, acc |-> account]
  /\ UNCHANGED <<walletVars, sessionVars, loadVars, page, pageVars, idVars, verified>>

\* What the registry may hold after a registration of this wallet: reRegister, which an
\* unverified wallet calls, takes the status of the one the certificate was bound to.
Registered(from) ==
  {verified \cup {from}} \cup
  {(verified \ {old}) \cup {from} : old \in IF from \in verified THEN {} ELSE verified}

\* Mutant: only the identity is read again.
NoRefresh(acc) == UNCHANGED loadVars

\* What a confirmed registration reads again besides the identity.
AfterConfirmed(acc) == LoadSession(acc)

\* The registry takes a proof from the wallet it was made for.  fetchIdentity is the one
\* of the time of the call: it reads for the account that was on screen then.
Confirmed ==
  /\ tx \notin {NoTx, Done}
  /\ verified' \in Registered(tx.from)
  /\ AfterConfirmed(account)
  /\ IF Form
     THEN /\ idFetches' = idFetches \cup
               {[n |-> loads, acc |-> tx.acc, val |-> tx.acc \in verified']}
          /\ idCrossed' = (idFetches # {}) /\ idFailed' = FALSE /\ idMissed' = FALSE
          /\ UNCHANGED identity
     ELSE UNCHANGED idVars
  /\ tx' = Done
  /\ UNCHANGED <<walletVars, sessionVars, page, pageVars>>

\* Refused in the wallet, or reverted.
Refused ==
  /\ tx \notin {NoTx, Done}
  /\ tx' = NoTx
  /\ UNCHANGED <<walletVars, sessionVars, loadVars, page, pageVars, idVars, verified>>

\* The registration is mined, but tx.wait() fails, as when the user speeds it up or the
\* provider fails: the form shows an error like any other and reads nothing again.
WaitFails ==
  /\ tx \notin {NoTx, Done}
  /\ verified' \in Registered(tx.from)
  /\ tx' = NoTx /\ idMissed' = TRUE
  /\ UNCHANGED <<walletVars, sessionVars, loadVars, page, pageVars, identity, idFetches,
                 idCrossed, idFailed>>

Dismiss ==
  /\ tx = Done /\ tx' = NoTx
  /\ UNCHANGED <<walletVars, sessionVars, loadVars, page, pageVars, idVars, verified>>

PortalNext ==
  \/ Switch \/ ConnectWallet \/ Message \/ Disconnect \/ Submit \/ Confirmed \/ Refused \/ Dismiss
  \/ WaitFails
  \/ \E s \in sessions : GotSigner(s) \/ GotNetwork(s) \/ GotState(s) \/ SessionFails(s)
  \/ \E acc \in fetches : Fetched(acc)
  \/ \E f \in idFetches : IdFetched(f)

PortalSpec == PortalInit /\ [][PortalNext]_portalVars

-----------------------------------------------------------------------------
Quiet == queue = << >> /\ sessions = {}

\* Once the wallet is quiet the session is of one account: the one on screen signs, and
\* is the owner if the registry says so; unless two loads crossed or a load failed.
SessionOfAccount ==
  Quiet /\ account # None /\ ~crossed /\ ~failed =>
    signer = account /\ contract = account /\ isOwner = (account = Owner)

\* A list that is shown is the list of the account on screen, as soon as there is a
\* provider to read with: an answer for another account is never shown.
ListOfAccount ==
  provider # None /\ (OwnedShown \/ IdentityShown \/ DashboardShown) => cards = account

\* The registration form ends up with the identity of the account on screen, also when
\* the account changed while its transaction was on its way, or when that transaction took
\* the status of the account.  Unless a read failed or met another, or a registration was
\* mined since the last read although the form had taken it for failed (idMissed): then
\* nothing is read again until the session is loaded anew.
IdentityCatchesUp ==
  Form /\ Quiet /\ tx \in {NoTx, Done} /\ idFetches = {} /\ contract # None
       /\ ~failed /\ ~idCrossed /\ ~idFailed /\ ~idMissed =>
    identity = [acc |-> account, val |-> account \in verified]
=============================================================================
