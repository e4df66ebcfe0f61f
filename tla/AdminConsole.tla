---------------------------- MODULE AdminConsole ----------------------------
(***************************************************************************)
(* The CA management of the admin console (components/AdminContent.tsx)    *)
(* with its modal (components/CaRegistrationModal.tsx), against the CA     *)
(* list of the registry contract and the guides of the backend.            *)
(*                                                                         *)
(* The console shows a copy of the list, read some time ago, and the       *)
(* contract removes by index: what a removal hits depends on what has      *)
(* happened to the list since.  The owner may have a second session open,  *)
(* and transactions are confirmed while the console goes on.  The modal    *)
(* covers the page, so that nothing else is clicked while it is open.      *)
(* A CA stands for its certificate file, leaf hash and generated guide.    *)
(***************************************************************************)
EXTENDS Lists, SequencesExt, FiniteSetsExt

CONSTANTS
  Cas,
  Files,           \* those whose certificate file the owner has
  NoModal, NoBatch,
  InitialLeaves,   \* lists the contract may start with
  MaxTxs,          \* bound: transactions of this console; with none left nothing is
                   \* selected for one
  MaxElsewhere,    \* bound: changes of the list made in another session
  MaxFetches       \* bound: readings of the list on their way

\* The open modal and the removal of a selection, each with the list it was made from.
Modals == [op : {"add-ca", "remove-ca"}, certs : SUBSET Cas, index : Nat, shown : Seq(Cas),
           step : {"tx", "sign", "git", "done", "partial", "error"}, txHash : BOOLEAN]
Batches == [indices : Seq(Nat), certs : SUBSET Cas, shown : Seq(Cas)]

ASSUME AdminAssumption ==
  /\ Files \subseteq Cas /\ InitialLeaves \subseteq Seq(Cas)
  /\ \A list \in InitialLeaves : IsInjective(list)
  /\ NoModal \notin Modals /\ NoBatch \notin Batches
  /\ {MaxTxs, MaxElsewhere, MaxFetches} \subseteq Nat

VARIABLES
  leaves,            \* caLeaves of the contract
  onChainCaLeaves,   \* the list on screen
  selectedCaLeaves,
  caListLoading,
  fetched,           \* lists read and not shown yet
  refreshing,        \* the wallet session loads again: a new contract object will come
  caFiles,           \* pending certificates
  modal,             \* the open modal: caModalOp, caModalCerts, its index and step
  batch,             \* the removal of the selection: removeAllTx
  guides,            \* CAs with a guide in the backend
  guideCalls,        \* putCaGuide and deleteCaGuide calls on their way
  txs, elsewhere,    \* counted for the bounds
  overlapped,        \* history: the last fetch started while another was on its way
  outdated,          \* history: since then the list was changed unseen, in another session
                     \* or by a removal that the console took for failed
  named,             \* history: CAs named by a confirmed removal
  misnamed,          \* history: those whose removal met another list
  readded            \* history: those that have been added again since

listVars == <<onChainCaLeaves, selectedCaLeaves>>
fetchVars == <<caListLoading, fetched, refreshing, overlapped, outdated>>
guideVars == <<guides, guideCalls>>
historyVars == <<named, misnamed, readded>>
consoleVars == <<leaves, listVars, fetchVars, caFiles, modal, batch, guideVars, txs,
          elsewhere, historyVars>>

GuideCalls == [op : {"put", "delete"}, ca : Cas]
PutAll(cas) == {[op |-> "put", ca |-> c] : c \in cas}
DeleteAll(cas) == {[op |-> "delete", ca |-> c] : c \in cas}

\* fetchCaLeaves reads the contract's list; the answer is shown later.
Fetch(list) ==
  /\ Cardinality(fetched) < MaxFetches
  /\ caListLoading' = TRUE
  /\ fetched' = fetched \cup {list}
  /\ overlapped' = (fetched # {})
  /\ outdated' = FALSE

ConsoleInit ==
  /\ leaves \in InitialLeaves
  /\ onChainCaLeaves = << >> /\ selectedCaLeaves = {}
  /\ caListLoading = TRUE /\ fetched = {leaves}     \* fetched on mount
  /\ refreshing = FALSE
  /\ overlapped = FALSE /\ outdated = FALSE
  /\ caFiles = {}
  /\ modal = NoModal /\ batch = NoBatch
  /\ guides = Range(leaves) /\ guideCalls = {}
  /\ txs = 0 /\ elsewhere = 0
  /\ named = {} /\ misnamed = {} /\ readded = {}

\* The selection once a list is shown.
SelectionAfter(list) == {}

FetchAnswered(list) ==
  /\ list \in fetched
  /\ fetched' = fetched \ {list}
  /\ onChainCaLeaves' \in {list, << >>}          \* a failed call shows no CA
  /\ selectedCaLeaves' = SelectionAfter(list)
  /\ caListLoading' = FALSE
  /\ UNCHANGED <<leaves, refreshing, overlapped, outdated, caFiles, modal, batch, guideVars, txs,
                 elsewhere, historyVars>>

Refresh ==
  /\ modal = NoModal /\ ~caListLoading
  /\ Fetch(leaves)
  /\ UNCHANGED <<leaves, listVars, refreshing, caFiles, modal, batch, guideVars, txs,
                 elsewhere, historyVars>>

\* refresh has come to a new contract object, with which the list is read once more; one
\* that fails never gets here.
Refreshed ==
  /\ refreshing /\ refreshing' = FALSE
  /\ Fetch(leaves)
  /\ UNCHANGED <<leaves, listVars, caFiles, modal, batch, guideVars, txs, elsewhere,
                 historyVars>>

ToggleSelect(c) ==
  /\ modal = NoModal /\ txs < MaxTxs /\ c \in Range(onChainCaLeaves)
  /\ selectedCaLeaves' = SymDiff(selectedCaLeaves, {c})
  /\ UNCHANGED <<leaves, onChainCaLeaves, fetchVars, caFiles, modal, batch, guideVars,
                 txs, elsewhere, historyVars>>

\* processFiles: a file of a CA that is pending already adds nothing.
AddFile(c) ==
  /\ modal = NoModal /\ txs < MaxTxs
  /\ caFiles' = caFiles \cup {c}
  /\ UNCHANGED <<leaves, listVars, fetchVars, modal, batch, guideVars, txs, elsewhere,
                 historyVars>>

RemoveFile(c) ==
  /\ modal = NoModal /\ txs < MaxTxs
  /\ caFiles' = caFiles \ {c}
  /\ UNCHANGED <<leaves, listVars, fetchVars, modal, batch, guideVars, txs, elsewhere,
                 historyVars>>

SendTx == txs < MaxTxs /\ txs' = txs + 1

\* The modal opens and asks the wallet for the transaction at once.
Open(op, cas, index) ==
  /\ modal = NoModal /\ SendTx
  /\ modal' = [op |-> op, certs |-> cas, index |-> index, shown |-> onChainCaLeaves,
               step |-> "tx", txHash |-> FALSE]
  /\ UNCHANGED <<leaves, listVars, fetchVars, caFiles, batch, guideVars, elsewhere,
                 historyVars>>

\* handleAddAllCas: files that are registered, as far as the console knows, are left out.
AddAllCas ==
  LET new == caFiles \ Range(onChainCaLeaves)
  IN new # {} /\ Open("add-ca", new, 0)

RemoveCaRow(i) ==
  i \in DOMAIN onChainCaLeaves /\ Open("remove-ca", {onChainCaLeaves[i]}, i)

\* Mutant: the number of the row for the index.
SelectedRowsOffByOne ==
  {i + 1 : i \in {i \in DOMAIN onChainCaLeaves : onChainCaLeaves[i] \in selectedCaLeaves}}

SelectedRows == {i \in DOMAIN onChainCaLeaves : onChainCaLeaves[i] \in selectedCaLeaves}

\* All rows, from the last one to the first.
RowsDown == [k \in DOMAIN onChainCaLeaves |-> Len(onChainCaLeaves) + 1 - k]

\* handleRemoveSelected: the indices go to the contract in descending order.
RemoveSelected ==
  /\ modal = NoModal /\ batch = NoBatch /\ selectedCaLeaves # {}
  /\ SendTx
  /\ batch' = [indices |-> Keep(RowsDown, SelectedRows),
               certs |-> selectedCaLeaves, shown |-> onChainCaLeaves]
  /\ UNCHANGED <<leaves, listVars, fetchVars, caFiles, modal, guideVars, elsewhere,
                 historyVars>>

(* -- the contract -- *)

SwapAndPop(list, i) == SubSeq([list EXCEPT ![i] = list[Len(list)]], 1, Len(list) - 1)

\* The list that the loop over the indices leaves.
RemoveRows(list, indices) ==
  LET after[k \in 0..Len(indices)] ==
        IF k = 0 THEN list ELSE SwapAndPop(after[k-1], indices[k])
  IN  after[Len(indices)]

Removable(indices) ==
  /\ \A k \in DOMAIN indices : indices[k] <= Len(leaves) - k + 1
  /\ \A k \in 2..Len(indices) : indices[k] < indices[k - 1]
Addable(cas) == cas \cap Range(leaves) = {}

Named(tx) ==
  /\ named' = named \cup tx.certs
  /\ misnamed' = IF leaves = tx.shown THEN misnamed ELSE misnamed \cup tx.certs
  /\ UNCHANGED readded
Added(cas) == readded' = readded \cup (cas \cap named) /\ UNCHANGED <<named, misnamed>>

\* The same account in another session adds or removes a CA, or a transaction is mined
\* that this console had stopped waiting for before.
ChangeElsewhere ==
  /\ elsewhere < MaxElsewhere /\ elsewhere' = elsewhere + 1
  /\ outdated' = TRUE
  /\ \/ \E c \in Cas : /\ Addable({c})
                       /\ leaves' = Append(leaves, c)
                       /\ Added({c})
     \/ \E i \in DOMAIN leaves : leaves' = SwapAndPop(leaves, i) /\ UNCHANGED historyVars
  /\ UNCHANGED <<listVars, caListLoading, fetched, refreshing, overlapped, caFiles, modal,
                 batch, guideVars, txs>>

(* -- the removal of the selection -- *)

\* Mutant: the console leaves the new reading to the session's refresh.
AfterRemovalUnfetched(list) ==
  refreshing' = TRUE /\ UNCHANGED <<caListLoading, fetched, overlapped, outdated>>

AfterRemoval(list) == refreshing' = TRUE /\ Fetch(list)

BatchConfirmed ==
  /\ batch # NoBatch /\ Removable(batch.indices)
  /\ leaves' = RemoveRows(leaves, batch.indices)
  /\ batch' = NoBatch
  /\ selectedCaLeaves' = {}
  /\ AfterRemoval(leaves')
  /\ guideCalls' = guideCalls \cup DeleteAll(batch.certs)
  /\ Named(batch)
  /\ UNCHANGED <<onChainCaLeaves, caFiles, modal, guides, txs, elsewhere>>

\* tx.wait() fails although the removal was mined: it counts as failed, and nothing is
\* read again.
BatchUnseen ==
  /\ batch # NoBatch /\ Removable(batch.indices)
  /\ leaves' = RemoveRows(leaves, batch.indices)
  /\ batch' = NoBatch /\ outdated' = TRUE
  /\ UNCHANGED <<listVars, caListLoading, fetched, refreshing, overlapped, caFiles, modal,
                 guideVars, txs, elsewhere, historyVars>>

\* Refused in the wallet, or reverted.
BatchFailed ==
  /\ batch # NoBatch
  /\ batch' = NoBatch
  /\ UNCHANGED <<leaves, listVars, fetchVars, caFiles, modal, guideVars, txs, elsewhere,
                 historyVars>>

(* -- the modal -- *)

AtStep(step) == modal # NoModal /\ modal.step = step
GoStep(step) == modal' = [modal EXCEPT !.step = step]

AddsCas ==
  /\ modal.op = "add-ca" /\ Addable(modal.certs)
  /\ leaves' = leaves \o SetToSeq(modal.certs)
  /\ Added(modal.certs)

RemovesCa ==
  /\ modal.op = "remove-ca" /\ Removable(<<modal.index>>)
  /\ leaves' = SwapAndPop(leaves, modal.index)

ModalTxConfirmed ==
  /\ AtStep("tx")
  /\ modal' = [modal EXCEPT !.step = "sign", !.txHash = TRUE]
  /\ AddsCas \/ (RemovesCa /\ Named(modal))
  /\ UNCHANGED <<listVars, fetchVars, caFiles, batch, guideVars, txs, elsewhere>>

\* Mined, but the wait failed.
ModalTxUnseen ==
  /\ AtStep("tx") /\ GoStep("error")
  /\ AddsCas \/ (RemovesCa /\ UNCHANGED historyVars)
  /\ UNCHANGED <<listVars, fetchVars, caFiles, batch, guideVars, txs, elsewhere>>

ModalTxFailed ==
  /\ AtStep("tx") /\ GoStep("error")
  /\ UNCHANGED <<leaves, listVars, fetchVars, caFiles, batch, guideVars, txs, elsewhere,
                 historyVars>>

\* handleSign; a refused signature is an error even if the transaction is confirmed.
Sign ==
  /\ AtStep("sign") /\ (GoStep("git") \/ GoStep("error"))
  /\ UNCHANGED <<leaves, listVars, fetchVars, caFiles, batch, guideVars, txs, elsewhere,
                 historyVars>>

CreatePr ==
  /\ AtStep("git")
  /\ GoStep("done") \/ GoStep(IF modal.txHash THEN "partial" ELSE "error")
  /\ UNCHANGED <<leaves, listVars, fetchVars, caFiles, batch, guideVars, txs, elsewhere,
                 historyVars>>

\* Mutant: the guides are synchronized whatever became of the transaction.
SyncedAlways(txSuccess) ==
  IF modal.op = "add-ca" THEN PutAll(modal.certs) ELSE DeleteAll(modal.certs)

\* The guide calls made when the modal closes.
Synced(txSuccess) ==
  IF ~txSuccess THEN {}
  ELSE IF modal.op = "add-ca" THEN PutAll(modal.certs) ELSE DeleteAll(modal.certs)

\* X says whether there is a transaction, Close says what the step says.
Reported == {modal.txHash, modal.step # "error"}

\* onClose of the modal.
Close ==
  /\ AtStep("done") \/ AtStep("partial") \/ AtStep("error")
  /\ \E txSuccess \in Reported :
       guideCalls' = guideCalls \cup Synced(txSuccess)
  /\ modal' = NoModal
  /\ refreshing' = TRUE /\ Fetch(leaves)
  /\ caFiles' = IF modal.op = "add-ca" THEN caFiles \ modal.certs ELSE caFiles
  /\ UNCHANGED <<leaves, listVars, batch, guides, txs, elsewhere, historyVars>>

(* -- the backend -- *)

\* A call arrives, in any order; one whose signature is refused or that fails never does.
GuideCallDone(call) ==
  /\ call \in guideCalls
  /\ guideCalls' = guideCalls \ {call}
  /\ guides' = IF call.op = "put" THEN guides \cup {call.ca} ELSE guides \ {call.ca}
  /\ UNCHANGED <<leaves, listVars, fetchVars, caFiles, modal, batch, txs, elsewhere,
                 historyVars>>

ConsoleNext ==
  \/ Refresh \/ Refreshed \/ AddAllCas \/ RemoveSelected \/ ChangeElsewhere \/ BatchConfirmed
  \/ BatchUnseen \/ BatchFailed \/ ModalTxConfirmed \/ ModalTxUnseen \/ ModalTxFailed
  \/ Sign \/ CreatePr \/ Close
  \/ \E list \in fetched : FetchAnswered(list)
  \/ \E c \in Cas : ToggleSelect(c)
  \/ \E c \in Files : AddFile(c) \/ RemoveFile(c)
  \/ \E i \in 1..Cardinality(Cas) : RemoveCaRow(i)
  \/ \E call \in GuideCalls : GuideCallDone(call)

ConsoleSpec == ConsoleInit /\ [][ConsoleNext]_consoleVars

-----------------------------------------------------------------------------
\* handleRemoveCa, handleRemoveSelected: a removal that meets the list it was made
\* from removes the CAs it names, and no others, whatever the swaps do to the rows, and
\* also when the console takes it for failed.
RemovalsHitNamed ==
  [][/\ (BatchConfirmed \/ BatchUnseen) /\ leaves = batch.shown =>
          Range(leaves') = Range(leaves) \ batch.certs
     /\ (ModalTxConfirmed \/ ModalTxUnseen) /\ modal.op = "remove-ca"
           /\ leaves = modal.shown =>
          Range(leaves') = Range(leaves) \ modal.certs]_consoleVars

\* A guide is deleted only if its CA is off the list, or was named by a removal that
\* met another list, or has come back before the call to delete its guide.
GuideOfListedCaKept ==
  [][\A c \in guides \ guides' : c \notin Range(leaves) \/ c \in misnamed \cup readded]_consoleVars

\* Every change that this console knows it made is followed by a new reading: with nothing
\* on its way the list on screen is the contract's, unless two readings crossed, or the
\* list was changed since in another session or by a removal of the selection that was
\* mined although its confirmation failed (a failed reading shows none).
ListCatchesUp ==
  fetched = {} /\ modal = NoModal /\ ~overlapped /\ ~outdated =>
    onChainCaLeaves \in {leaves, << >>}
=============================================================================
