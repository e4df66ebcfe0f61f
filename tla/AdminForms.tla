----------------------------- MODULE AdminForms -----------------------------
(***************************************************************************)
(* The settings of the admin console (components/AdminContent.tsx): forms  *)
(* that are filled from the contract or the backend, edited and saved as a *)
(* whole, and the list of announcements.                                   *)
(*                                                                         *)
(* A save writes every field of its form, edited or not, so the form must  *)
(* hold what is stored: readings may fail, arrive late or cross a save,    *)
(* and the settings may change in another session.                         *)
(* A behaviour looks at one form; the other cards of the console count by  *)
(* the refresh that follows their transactions.  The announcements are     *)
(* another list of the same page.  "typed" stands for the three forms that *)
(* start empty: CRL root, revocation and transfer of ownership.            *)
(***************************************************************************)
EXTENDS Lists, SequencesExt, FiniteSetsExt, Null

CONSTANTS
  Forms,          \* the forms of this instance
  Values,         \* values of a field, None the empty one
  Unknown, NoTx,
  Ids,            \* announcements
  MaxReads,       \* bound: readings of each form
  MaxSaves,       \* bound: saves of each form
  MaxCalls,       \* bound: announcements posted or deleted
  MaxElsewhereSaves    \* bound: changes made in another session

\* The switch or slider of a form, and its text.
Fields == {"mode", "text"}
Defaults == [x \in Fields |-> None]

\* A save: the form, and what is known of it.
Sent == [vals : [Fields -> Values \cup {Unknown}], touched : SUBSET Fields,
         base : [Fields -> Values \cup {Unknown}]]

ASSUME FormAssumption ==
  /\ Forms \subseteq {"delegatedProving", "disclosureFilters", "maxProofAge", "typed",
                      "metadata", "caGuide", "announcements"}
  /\ None \in Values /\ Unknown \notin Values /\ NoTx \notin Sent
  /\ IsFiniteSet(Ids)
  /\ {MaxCalls, MaxElsewhereSaves} \subseteq Nat
  /\ {MaxReads, MaxSaves} \subseteq [Forms -> Nat]

ContractForms == {"delegatedProving", "disclosureFilters"}
BackendForms == {"metadata", "caGuide", "announcements"}

\* The contract has setDelegatedProving, and what the typed forms call;
\* it has no setMaxProofAge and no setRequiredDisclosureValues.
Supported == {"delegatedProving", "typed", "metadata", "caGuide"}

VARIABLES
  form,            \* the form looked at
  stored, owns,    \* in the contract or backend: the values, and that the account is owner
  input,           \* the form
  savedUrl,        \* dpProverUrl
  copy, isOwner,   \* contractState and isOwner of the wallet session
  loads,           \* readings for the form on their way
  walletReads,     \* readings for the wallet session on their way
  loading,         \* svcMetaLoading, svcGuidesLoading, svcAnncLoading
  tx,              \* the save on its way
  shown,           \* svcAnnouncements
  calls,           \* announcements posted or deleted whose answer is on its way
  reads, saves, elsewhereSaves,   \* counted for the bounds
  base, touched,   \* history: what each field was filled with; fields edited since
  crossed,         \* history: the last reading met another one or a save on its way
  outdatedForm,        \* history: another session wrote since, or an answer was lost
  failed           \* history: one of the last readings failed

sourceVars == <<stored, owns>>
formVars == <<input, savedUrl, base, touched>>
walletVars == <<copy, isOwner>>
readVars == <<loads, walletReads, loading, reads, crossed, outdatedForm, failed>>
announcementVars == <<shown, calls>>
formsVars == <<form, sourceVars, formVars, walletVars, readVars, tx, announcementVars, saves,
               elsewhereSaves>>

Load(vals) == [n |-> reads + 1, vals |-> vals]

\* A new contract object: the wallet session and the contract forms read again.
ReadContract(vals) ==
  /\ reads < MaxReads[form] /\ reads' = reads + 1
  /\ walletReads' = walletReads \cup {[n |-> reads + 1, vals |-> vals, owns |-> owns]}
  /\ loads' = IF form \in ContractForms THEN loads \cup {Load(vals)} ELSE loads
  /\ crossed' = (loads # {} \/ walletReads # {})
  /\ outdatedForm' = FALSE /\ failed' = FALSE
  /\ UNCHANGED loading

FormInit ==
  /\ form \in Forms
  /\ stored \in IF form = "announcements" THEN SUBSET Ids
                ELSE [Fields -> Values \ {None}]
  /\ owns = TRUE
  /\ input = (IF form = "maxProofAge" THEN [x \in Fields |-> Unknown] ELSE Defaults)
  /\ savedUrl = None
  /\ copy = [x \in Fields |-> Unknown] /\ isOwner = FALSE
  /\ loads = (IF form \in ContractForms THEN {[n |-> 1, vals |-> stored]} ELSE {})
  /\ walletReads = {[n |-> 1, vals |-> stored, owns |-> TRUE]}
  /\ loading = (form \in BackendForms)
  /\ tx = NoTx /\ shown = << >> /\ calls = {}
  /\ reads = 1 /\ saves = 0 /\ elsewhereSaves = 0
  /\ base = [x \in Fields |-> Unknown] /\ touched = {}
  /\ crossed = FALSE /\ outdatedForm = FALSE /\ failed = FALSE

\* A transaction of another card is confirmed, and refreshes the session.
OtherCard ==
  /\ form \notin BackendForms
  /\ ReadContract(stored)
  /\ UNCHANGED <<form, sourceVars, formVars, walletVars, tx, announcementVars, saves, elsewhereSaves>>

\* The proof age is taken from the first contract state, and never again.
SyncProofAge(vals, known) ==
  IF form = "maxProofAge" /\ input.mode = Unknown
  THEN /\ input' = vals
       /\ base' = IF known THEN vals ELSE base
  ELSE UNCHANGED <<input, base>>

\* Reads of a batch fail one by one and leave their default; a failed batch changes nothing.
WalletAnswered(read) ==
  /\ read \in walletReads
  /\ walletReads' = walletReads \ {read}
  /\ \/ /\ copy' = read.vals /\ isOwner' = read.owns
        /\ SyncProofAge(read.vals, TRUE)
        /\ UNCHANGED failed
     \/ /\ copy' = Defaults /\ isOwner' \in {read.owns, FALSE}
        /\ SyncProofAge(Defaults, FALSE)
        /\ failed' = TRUE
     \/ /\ failed' = TRUE
        /\ UNCHANGED <<walletVars, input, base>>
  /\ UNCHANGED <<form, sourceVars, savedUrl, touched, loads, loading, reads, crossed,
                 outdatedForm, tx, announcementVars, saves, elsewhereSaves>>

\* Mutant: the effect does not cancel the reading it replaces.
KeptLoads(load) == loads \cup {load}

\* The readings on their way once a tab's effect has run again.
TabLoads(load) == {load}

\* The tab is opened (again), or the CA list behind it changes while it is open.
OpenTab ==
  /\ form \in BackendForms
  /\ reads < MaxReads[form] /\ reads' = reads + 1
  /\ loads' = TabLoads(Load(stored))
  /\ loading' = TRUE
  /\ crossed' = (tx # NoTx \/ calls # {})
  /\ outdatedForm' = FALSE /\ failed' = FALSE
  /\ UNCHANGED <<form, sourceVars, formVars, walletVars, walletReads, tx, announcementVars,
                 saves, elsewhereSaves>>

\* A reading of the form is answered: the getters of the backend turn a failure into
\* null, which leaves the metadata alone, or into no guide and no announcement.
LoadAnswered(load) ==
  /\ load \in loads
  /\ loads' = loads \ {load} /\ loading' = FALSE
  /\ \/ /\ form # "announcements"
        /\ input' = load.vals
        /\ savedUrl' = load.vals.text
        /\ base' = load.vals /\ touched' = {}
        /\ UNCHANGED <<shown, failed>>
     \/ /\ form = "announcements"
        /\ shown' = SetToSeq(load.vals)
        /\ UNCHANGED <<formVars, failed>>
     \/ /\ failed' = TRUE
        /\ IF form = "caGuide"
           THEN /\ input' = Defaults
                /\ base' = [x \in Fields |-> Unknown] /\ touched' = {}
           ELSE UNCHANGED <<input, base, touched>>
        /\ shown' = IF form = "announcements" THEN << >> ELSE shown
        /\ UNCHANGED savedUrl
  /\ UNCHANGED <<form, sourceVars, walletVars, walletReads, reads, crossed, outdatedForm, tx,
                 calls, saves, elsewhereSaves>>

\* Inputs are disabled unless the account is the owner; backend forms hide while loading.
Editable == isOwner /\ ~loading

Edit(x, v) ==
  /\ form # "announcements" /\ Editable
  /\ v # input[x]
  /\ input' = [input EXCEPT ![x] = v]
  /\ touched' = touched \cup {x}
  /\ UNCHANGED <<form, sourceVars, savedUrl, base, walletVars, readVars, tx, announcementVars,
                 saves, elsewhereSaves>>

\* What the buttons ask of their forms.
CanSetDelegated == input.mode # copy.mode \/ input.text # savedUrl
CanSetProofAge == input.mode \notin {Unknown, copy.mode}

\* Mutant: a typed form goes out with a field left empty.
CanSendEmpty == TRUE

CanSendTyped == \A x \in Fields : input[x] # None

CanSend ==
  /\ form = "delegatedProving" => CanSetDelegated
  /\ form = "maxProofAge" => CanSetProofAge
  /\ form = "typed" => CanSendTyped

\* handleSaveMetadata, handleSaveCaGuide, handleSetProofAge, and the others: the form
\* goes out as it stands, one save at a time.
Save ==
  /\ form # "announcements" /\ Editable /\ tx = NoTx
  /\ CanSend
  /\ saves < MaxSaves[form] /\ saves' = saves + 1
  /\ tx' = [vals |-> input, touched |-> touched, base |-> base]
  /\ UNCHANGED <<form, sourceVars, formVars, walletVars, readVars, announcementVars, elsewhereSaves>>

\* What a stored save reads again: the contract, but not the backend.
AfterSave ==
  IF form \in BackendForms
  THEN /\ crossed' = (crossed \/ loads # {})
       /\ UNCHANGED <<loads, walletReads, loading, reads, outdatedForm, failed>>
  ELSE ReadContract(tx.vals)

SaveDone ==
  /\ tx # NoTx /\ form \in Supported /\ owns
  /\ tx' = NoTx
  /\ stored' = tx.vals
  /\ touched' = {x \in touched : input[x] # tx.vals[x]}
  /\ base' = [x \in Fields |-> IF input[x] = tx.vals[x] THEN input[x] ELSE base[x]]
  /\ savedUrl' = tx.vals.text
  /\ AfterSave
  /\ UNCHANGED <<form, owns, input, walletVars, announcementVars, saves, elsewhereSaves>>

\* Refused in the wallet, by the contract or the backend; the answer of the backend, or
\* the wait for the transaction, may also fail once the values are stored.
SaveFailed ==
  /\ tx # NoTx
  /\ tx' = NoTx
  /\ \/ UNCHANGED <<stored, outdatedForm>>
     \/ /\ form \in Supported /\ owns
        /\ stored' = tx.vals /\ outdatedForm' = TRUE
  /\ UNCHANGED <<form, owns, formVars, walletVars, loads, walletReads, loading, reads,
                 crossed, failed, announcementVars, saves, elsewhereSaves>>

(* -- announcements -- *)

Posts == [op : {"post"}, id : Ids, arrived : BOOLEAN]
Deletes == [op : {"delete"}, id : Ids, arrived : BOOLEAN]

\* An id that the backend has not given before: none that is stored, shown or on its way.
New(id) == id \notin stored \cup Range(shown) \cup {call.id : call \in calls}

\* handlePostAnnouncement: one at a time, whatever the list is doing.
Post(id) ==
  /\ form = "announcements" /\ isOwner
  /\ calls \cap Posts = {} /\ New(id)
  /\ saves < MaxCalls /\ saves' = saves + 1
  /\ calls' = calls \cup {[op |-> "post", id |-> id, arrived |-> FALSE]}
  /\ crossed' = (crossed \/ loads # {})
  /\ UNCHANGED <<form, sourceVars, formVars, walletVars, loads, walletReads, loading,
                 reads, outdatedForm, failed, tx, shown, elsewhereSaves>>

\* handleDeleteAnnouncement: any number at a time, even of one announcement.
Delete(id) ==
  /\ form = "announcements" /\ Editable /\ id \in Range(shown)
  /\ saves < MaxCalls /\ saves' = saves + 1
  /\ calls' = calls \cup {[op |-> "delete", id |-> id, arrived |-> FALSE]}
  /\ crossed' = (crossed \/ loads # {})
  /\ UNCHANGED <<form, sourceVars, formVars, walletVars, loads, walletReads, loading,
                 reads, outdatedForm, failed, tx, shown, elsewhereSaves>>

CallArrives(call) ==
  /\ call \in calls /\ ~call.arrived /\ owns
  /\ stored' = IF call.op = "post" THEN stored \cup {call.id} ELSE stored \ {call.id}
  /\ calls' = (calls \ {call}) \cup {[call EXCEPT !.arrived = TRUE]}
  /\ UNCHANGED <<form, owns, formVars, walletVars, readVars, tx, shown, saves, elsewhereSaves>>

ShownAfter(call) ==
  IF call.op = "post" THEN <<call.id>> \o shown
  ELSE Keep(shown, Ids \ {call.id})

CallAnswered(call) ==
  /\ call \in calls
  /\ calls' = calls \ {call}
  /\ \/ /\ call.arrived
        /\ shown' = ShownAfter(call)
        /\ UNCHANGED outdatedForm
     \/ outdatedForm' = (outdatedForm \/ call.arrived) /\ UNCHANGED shown    \* failed or lost
  /\ UNCHANGED <<form, sourceVars, formVars, walletVars, loads, walletReads, loading,
                 reads, crossed, failed, tx, saves, elsewhereSaves>>

(* -- another session -- *)

\* It writes the settings (the proof age has no setter), or the ownership passes on.
SaveElsewhere ==
  /\ elsewhereSaves < MaxElsewhereSaves /\ elsewhereSaves' = elsewhereSaves + 1
  /\ outdatedForm' = TRUE
  /\ \/ /\ form \notin {"maxProofAge", "announcements"}
        /\ \E x \in Fields, v \in Values : v # stored[x] /\ stored' = [stored EXCEPT ![x] = v]
        /\ UNCHANGED owns
     \/ /\ form = "announcements"
        /\ \E id \in Ids : stored' = SymDiff(stored, {id})
        /\ UNCHANGED owns
     \/ owns' = FALSE /\ UNCHANGED stored
  /\ UNCHANGED <<form, formVars, walletVars, loads, walletReads, loading, reads, crossed,
                 failed, tx, announcementVars, saves>>

FormNext ==
  \/ OtherCard \/ OpenTab \/ Save \/ SaveDone \/ SaveFailed \/ SaveElsewhere
  \/ \E read \in walletReads : WalletAnswered(read)
  \/ \E load \in loads : LoadAnswered(load)
  \/ \E x \in Fields, v \in Values : Edit(x, v)
  \/ \E id \in Ids : Post(id) \/ Delete(id)
  \/ \E call \in Posts \cup Deletes : CallArrives(call) \/ CallAnswered(call)

FormSpec == FormInit /\ [][FormNext]_formsVars

-----------------------------------------------------------------------------
Settled == loads = {} /\ walletReads = {} /\ tx = NoTx /\ calls = {}
Undisturbed == ~crossed /\ ~outdatedForm /\ ~failed

\* A save is of the form as the owner saw it: a field it changes was edited, or another
\* session had changed it since the form was filled, or the form never was: its reading
\* had failed or was not answered yet.  The typed forms leave nothing out.
UneditedKept ==
  [][\A x \in Fields : tx # NoTx /\ tx' = NoTx /\ stored'[x] # stored[x] =>
       \/ x \in tx.touched
       \/ tx.base[x] \in Values \ {stored[x]}
       \/ tx.base[x] = Unknown /\ form # "typed"]_formsVars

\* With nothing on its way, nothing crossed, failed or done elsewhere, and no save stored
\* that the console took for failed, it shows what is stored: the fields that were filled
\* and not edited, the contract state that decides which buttons work, and every
\* announcement once.
FormCatchesUp ==
  Settled /\ Undisturbed =>
    IF form = "announcements"
    THEN ~loading => Range(shown) = stored /\ IsInjective(shown)
    ELSE /\ form # "typed" =>
              \A x \in Fields \ touched : base[x] # Unknown => input[x] = stored[x]
         /\ form \notin BackendForms => copy = stored /\ isOwner = owns
=============================================================================
