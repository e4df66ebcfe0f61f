-------------------------- MODULE RegistryReaders --------------------------
(***************************************************************************)
(* How clients read many registries: the lists of the web portal           *)
(* (frontend/app/admin, app/identity, app/dashboard) and the status of a   *)
(* wallet in the SDK and its command line (sdk/src/client.ts, cli.ts).     *)
(* They read the addresses, then all values in one batch: one eth_call     *)
(* through Multicall3, or, whenever that throws, one call per value, each  *)
(* answered on its own while the chain goes on, or failing on its own.     *)
(* The results are one flat sequence, cut by position into rows.           *)
(***************************************************************************)
EXTENDS Integers, Sequences, FiniteSets, SequencesExt, Lists, Parties

CONSTANTS
  MadeAtStart,         \* lists of registries that the factory may start with
  ChainsAtStart,       \* states of all registries to start from
  Wallet,              \* the account that is connected, or asked about
  Failed, Pending,
  MaxTime, MaxChanges, \* bounds: the clock, what happens on chain during a read
  MaxFails             \* bound: calls that fail

Times == 0..MaxTime
RegistryState == [creator : Accounts, owner : Accounts, paused : BOOLEAN, until : Times]

\* Failed and Pending are not among the values that a call returns.
ASSUME ReaderAssumption ==
  /\ Wallet \in Accounts /\ None \notin Accounts /\ MadeAtStart \subseteq Seq(Registries)
  /\ ChainsAtStart \subseteq [Registries -> RegistryState]
  /\ {MaxTime, MaxChanges, MaxFails} \subseteq Nat
  /\ \A x \in {Failed, Pending} :
       x \notin Accounts /\ x \notin Registries /\ x \notin BOOLEAN /\ x \notin Times
  /\ Failed # Pending

VARIABLES
  made,      \* factory: getRegistries
  chain,     \* registries: creator (the factory's), owner, paused, until (of Wallet)
  now,
  listed,    \* backend: registries with listed
  read,      \* the read: by whom, for which account, addresses, results
  rows,      \* what is shown of it
  changes, fails,   \* counted for the bounds
  was,       \* history: values each registry has had since the batch began
  steady     \* history: registries verified and visible since the read began

worldVars == <<made, chain, now, listed>>
readerVars == <<worldVars, read, rows, changes, fails, was, steady>>

Kinds == {"owned", "identity", "dashboard", "status"}
IsVerified(r) == chain[r].until >= now /\ chain[r].until > 0

Now(r) == [paused |-> {chain[r].paused}, verified |-> {IsVerified(r)},
           until |-> {chain[r].until}, owner |-> {chain[r].owner}]

Visible(r, kind) == r \in Range(made) /\ (kind = "dashboard" => r \in listed)

ReaderInit ==
  /\ made \in MadeAtStart /\ now = 1
  /\ chain \in ChainsAtStart
  /\ \A r \in Registries : /\ chain[r].owner = chain[r].creator
                           /\ r \notin Range(made) => ~chain[r].paused /\ chain[r].until = 0
  /\ listed \in SUBSET Range(made)
  /\ \E kind \in Kinds, acct \in {Wallet, None} :
       /\ acct = None => kind = "dashboard"
       /\ kind = "status" => made # << >>
       /\ read = [kind |-> kind, acct |-> acct, step |-> "addresses", targets |-> << >>,
                  listed |-> Pending, results |-> << >>, split |-> FALSE]
       /\ steady = {r \in Registries : IsVerified(r) /\ Visible(r, kind)}
  /\ rows = << >> /\ changes = 0 /\ fails = 0
  /\ was = [r \in Registries |-> Now(r)]

(* -- the chain and the backend, meanwhile -- *)

\* Histories follow every change.
Remember ==
  /\ was' = [r \in Registries |->
               [x \in DOMAIN was[r] |-> was[r][x] \cup Now(r)'[x]]]
  /\ steady' = {r \in steady : IsVerified(r)' /\ Visible(r, read.kind)'}

Change ==
  /\ read.step # "shown" /\ changes < MaxChanges /\ changes' = changes + 1
  /\ \/ \E r \in Registries \ Range(made) :
          made' = Append(made, r) /\ UNCHANGED <<chain, now, listed>>
     \/ \E r \in Range(made) :
          /\ \/ \E o \in Accounts : chain' = [chain EXCEPT ![r].owner = o]
             \/ chain' = [chain EXCEPT ![r].paused = ~@]
             \/ \E t \in Times : (t = 0 \/ t >= now) /\ chain' = [chain EXCEPT ![r].until = t]
          /\ chain' # chain /\ UNCHANGED <<made, now, listed>>
     \/ \E r \in Range(made) :
          listed' = (IF r \in listed THEN listed \ {r} ELSE listed \cup {r})
          /\ UNCHANGED <<made, chain, now>>
     \/ now < MaxTime /\ now' = now + 1 /\ UNCHANGED <<made, chain, listed>>
  /\ UNCHANGED <<read, rows, fails>>
  /\ Remember

(* -- the calls -- *)

Verification == <<"isVerified", "verifiedUntil">>

\* The calls of one registry; the dashboard asks for the verification of an account only
\* if there is one.
CallsOf(kind, acct) ==
  CASE kind = "owned" -> <<"registryInfo", "getCaCount", "paused">>
    [] kind = "identity" -> Append(Verification, "registryInfo")
    [] kind = "dashboard" ->
         <<"registryInfo", "getCaCount", "paused", "requiredCountry", "requiredOrg",
           "requiredOrgUnit", "requiredCommonName">>
           \o (IF acct = None THEN << >> ELSE Verification)
    [] kind = "status" -> Verification

\* What a call on r gives now; of the policy only whose it is matters.
Value(r, fn) ==
  [of |-> r, fn |-> fn,
   val |-> CASE fn = "registryInfo" -> chain[r].creator
             [] fn = "paused" -> chain[r].paused
             [] fn = "isVerified" -> IsVerified(r)
             [] fn = "verifiedUntil" -> chain[r].until
             [] OTHER -> r]

Moves(fn) == fn \in {"paused", "isVerified", "verifiedUntil"}

\* The call whose result has position i.
CallAt(targets, i) ==
  LET calls == CallsOf(read.kind, read.acct)
  IN  [of |-> targets[((i - 1) \div Len(calls)) + 1],
       fn |-> calls[((i - 1) % Len(calls)) + 1], val |-> Pending]

(* -- the read -- *)

GotAddresses ==
  /\ read.step = "addresses" /\ read.kind # "status" /\ read.targets = << >>
  /\ read' = [read EXCEPT !.targets = made,
                          !.step = IF read.kind = "dashboard" /\ read.listed = Pending
                                   THEN @ ELSE "batch"]
  /\ UNCHANGED <<worldVars, rows, changes, fails, was, steady>>

\* getListedRegistries runs beside it; no answer of the backend means every registry.
GotListed ==
  /\ read.step = "addresses" /\ read.kind = "dashboard" /\ read.listed = Pending
  /\ \E answer \in {listed, Registries} :
       read' = [read EXCEPT !.listed = answer,
                            !.step = IF read.targets = << >> THEN @ ELSE "batch"]
  /\ UNCHANGED <<worldVars, rows, changes, fails, was, steady>>

\* The SDK is given the registry.
GotRegistry ==
  /\ read.step = "addresses" /\ read.kind = "status"
  /\ \E r \in Range(made) : read' = [read EXCEPT !.targets = <<r>>, !.step = "batch"]
  /\ UNCHANGED <<worldVars, rows, changes, fails, was, steady>>

\* The rows: the addresses, on the dashboard those that are listed.
RowTargets ==
  IF read.kind = "dashboard" THEN Keep(read.targets, read.listed) ELSE read.targets

\* Mutant: the calls are made for every address.
CallAll == read.targets

\* The registries that are called: those of the rows.
CallTargets == RowTargets

\* The batch: Multicall3 answers every call at one block, or the calls are split.
Batch ==
  /\ read.step = "batch"
  /\ \E split \in BOOLEAN :
       read' = [read EXCEPT
         !.step = "answers", !.targets = RowTargets, !.split = split,
         !.results = [i \in 1..(Len(CallTargets) * Len(CallsOf(read.kind, read.acct))) |->
            LET call == CallAt(CallTargets, i)
            IN  IF split /\ Moves(call.fn) THEN call ELSE Value(call.of, call.fn)]]
  /\ was' = [r \in Registries |-> Now(r)]
  /\ UNCHANGED <<worldVars, rows, changes, fails, steady>>

Answered(i) ==
  /\ read.step = "answers" /\ i \in DOMAIN read.results /\ read.results[i].val = Pending
  /\ \/ /\ read' = [read EXCEPT !.results[i] = Value(@.of, @.fn)]
        /\ UNCHANGED fails
     \/ /\ fails < MaxFails /\ fails' = fails + 1
        /\ read' = [read EXCEPT !.results[i].val = Failed]
  /\ UNCHANGED <<worldVars, rows, changes, was, steady>>

(* -- the rows -- *)

\* The position of the result of fn for the k-th row, from the base of that row.
Position(k, fn) ==
  LET calls == CallsOf(read.kind, read.acct)
  IN  (k - 1) * Len(calls) + (CHOOSE j \in DOMAIN calls : calls[j] = fn)

\* decodeResult: what the call answered; the fallback if it failed or is not that call.
Decoded(k, fn, fallback) ==
  IF fn \notin Range(CallsOf(read.kind, read.acct)) THEN fallback
  ELSE LET result == read.results[Position(k, fn)]
       IN  IF result.val = Failed \/ result.fn # fn THEN fallback ELSE result.val

Row(k) ==
  [reg |-> read.targets[k],
   creator |-> Decoded(k, "registryInfo", None),
   paused |-> Decoded(k, "paused", FALSE),
   verified |-> Decoded(k, "isVerified", FALSE),
   until |-> Decoded(k, "verifiedUntil", 0)]

\* load registries owned by connected wallet: those it has created.
OwnedRow(row) == row.creator = Wallet

IdentityRow(row) == row.verified /\ row.creator # None

\* Mutant: paused registries are hidden from both sections.
DashboardRowUnpaused(row) == row.creator # None /\ ~row.paused

\* The dashboard keeps every row, and shows the verified ones and, of the others, those
\* that are not paused; without an account it shows all.
DashboardRow(row) ==
  row.creator # None /\ (row.verified \/ ~row.paused \/ read.acct = None)

\* The SDK returns what it has decoded.
StatusRow(row) == TRUE

Shows(row) ==
  CASE read.kind = "owned" -> OwnedRow(row)
    [] read.kind = "identity" -> IdentityRow(row)
    [] read.kind = "dashboard" -> DashboardRow(row)
    [] read.kind = "status" -> StatusRow(row)

Show ==
  /\ read.step = "answers" /\ \A i \in DOMAIN read.results : read.results[i].val # Pending
  /\ LET all == [k \in DOMAIN read.targets |-> Row(k)]
     IN  rows' = Keep(all, {row \in Range(all) : Shows(row)})
  /\ read' = [read EXCEPT !.step = "shown"]
  /\ UNCHANGED <<worldVars, changes, fails, was, steady>>

ReaderNext ==
  \/ Change \/ GotAddresses \/ GotListed \/ GotRegistry \/ Batch \/ Show
  \/ \E i \in DOMAIN read.results : Answered(i)

ReaderSpec == ReaderInit /\ [][ReaderNext]_readerVars

-----------------------------------------------------------------------------
ShownRows == Range(rows)

\* Every row shows values of its own registry, each true at some moment since the batch
\* began or, when the call failed, the safe one: not verified, no expiry.  The flat
\* results are cut at the right places, with an account and without.
RowsAreTrue ==
  \A row \in ShownRows :
    /\ row.creator \in {chain[row.reg].creator, None}
    /\ row.paused => TRUE \in was[row.reg].paused
    /\ row.verified => TRUE \in was[row.reg].verified
    /\ row.until \in was[row.reg].until \cup {0}

\* dashboard:241: "Paused registries the user is already verified in stay in the Verified
\* list": a registry in which the wallet is verified and that is listed for as long as
\* the read takes is shown, as verified, whatever else changes.
VerifiedStayVisible ==
  read.step = "shown" /\ read.kind \in {"identity", "dashboard"} /\ fails = 0 =>
    \A r \in steady : read.acct = None \/ \E row \in ShownRows : row.reg = r /\ row.verified
=============================================================================
