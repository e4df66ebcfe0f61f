--------------------------- MODULE CaPullRequest ---------------------------
(***************************************************************************)
(* POST /api/ca-registry/pr: the backend turns a signed request of a       *)
(* registry's owner into a pull request on the CA repository               *)
(* (backend/src/routes/ca-registry.ts, util/replayGuard.ts,                *)
(* services/github.ts).                                                    *)
(*                                                                         *)
(* Requests of one process run concurrently; every await is a point where  *)
(* the others, GitHub's users and the clock go on.  A signature is known   *)
(* by its lowercased text, the key of the guard; the texts that encode one *)
(* signature are as different here as for the guard, and nothing is        *)
(* claimed of signatures.  One service directory of the                    *)
(* repository is modelled, by the creation date in its service.json.       *)
(* GitHub is external: commits of upstream main are numbered, the fork     *)
(* holds a prefix of them.  Requests that are refused before they change   *)
(* anything are not steps.                                                 *)
(***************************************************************************)
EXTENDS Integers, Sequences, SequencesExt

CONSTANTS
  Requests,       \* handlers that may run
  Texts,          \* texts of owner signatures; a text may be sent again
  SignedAt,       \* signatureTimestamp that goes with each
  FreshWindow,    \* FRESH_WINDOW_S
  Ttl,            \* the TTL the route gives to consume()
  GuardKinds,     \* the guards configured, see durable
  NoService,      \* the directory has no service.json
  Pending,        \* not read yet
  MaxTime,        \* bound: last value of the clock
  MaxCommits,     \* bound: commits on upstream main
  MaxRestarts     \* bound: restarts of the backend, after a crash too

ASSUME PullRequestAssumption ==
  /\ SignedAt \in [Texts -> Nat]
  /\ {FreshWindow, MaxTime, MaxRestarts} \subseteq Nat
  /\ Ttl \in Nat \ {0}
  /\ GuardKinds \subseteq BOOLEAN
  /\ MaxCommits \in Nat \ {0}
  /\ Pending \notin Nat \cup {NoService}

VARIABLES
  now,
  pc,            \* where each handler is
  sig,           \* the text of its signature
  asked,         \* when it called the durable guard
  today,         \* the date it puts into service.json
  existing,      \* what it read of upstream's service.json
  forkReady,     \* has ensureFork returned?
  base,          \* mainSha
  branch,        \* branchName
  durable,       \* is the guard in Firestore, or in memory?
  guard,         \* expiresAt of the guard's entry for each text, 0 if there is none
  restarts,
  main,          \* the creation date in service.json after each commit
  fork,          \* commits of main the fork holds, 0: there is no fork
  branches,      \* branches of the fork: name -> tip
  prs,           \* pull requests
  accepted       \* history: when each text passed the guard, and what its entry said

localVars == <<sig, asked, today, existing, forkReady, base, branch>>
gitVars == <<main, fork, branches, prs>>
guardVars == <<durable, guard, restarts>>
vars == <<now, pc, localVars, guardVars, gitVars, accepted>>

Times == 0..MaxTime

Init ==
  /\ now = 0
  /\ pc = [r \in Requests |-> "idle"]
  /\ sig \in [Requests -> Texts]
  /\ asked = [r \in Requests |-> 0]
  /\ today = [r \in Requests |-> 0]
  /\ existing = [r \in Requests |-> Pending]
  /\ forkReady = [r \in Requests |-> FALSE]
  /\ base = [r \in Requests |-> 0]
  /\ branch = [r \in Requests |-> 0]
  /\ durable \in GuardKinds
  /\ guard = [s \in Texts |-> 0]
  /\ restarts = 0
  /\ main \in {<<NoService>>, <<0>>}
  /\ fork \in {0, 1}
  /\ branches = << >>
  /\ prs = {}
  /\ accepted = [s \in Texts |-> << >>]

Goto(r, place) == pc' = [pc EXCEPT ![r] = place]

InFlight == {r \in Requests : pc[r] \notin {"idle", "answered", "dropped", "crashed"}}

-----------------------------------------------------------------------------
(* The route. *)

Abs(n) == IF n < 0 THEN -n ELSE n
Fresh(s) == Abs(now - SignedAt[s]) <= FreshWindow

(* verifyFreshOwnerSignature: the age is checked before the owner is asked
   for on chain, so the clock can go on before the signature is consumed. *)
Verify(r) ==
  /\ pc[r] = "idle"
  /\ Fresh(sig[r])
  /\ Goto(r, "verified")
  /\ UNCHANGED <<now, localVars, guardVars, gitVars, accepted>>

(* The durable guard is a call to Firestore, with the expiry it is to write;
   the in-memory one answers in the same turn. *)
AskGuard(r) ==
  /\ durable
  /\ pc[r] = "verified"
  /\ asked' = [asked EXCEPT ![r] = now]
  /\ Goto(r, "asked")
  /\ UNCHANGED <<now, sig, today, existing, forkReady, base, branch, guardVars,
                 gitVars, accepted>>

Expiry(r) == (IF durable THEN asked[r] ELSE now) + Ttl

(* consume: Firestore's create() fails as long as the document exists, the
   map's entry counts until it expires. *)
InUse(t) == IF durable THEN guard[t] # 0 ELSE guard[t] > now

\* Mutant: a text is remembered from when it was signed.
ConsumeFromSigning(r) ==
  /\ pc[r] = (IF durable THEN "asked" ELSE "verified")
  /\ IF InUse(sig[r])
       THEN Goto(r, "answered") /\ UNCHANGED <<today, guard, accepted>>
       ELSE /\ guard' = [guard EXCEPT ![sig[r]] = SignedAt[sig[r]] + Ttl]
            /\ accepted' = [accepted EXCEPT ![sig[r]] =
                              Append(@, [at |-> now, until |-> Expiry(r)])]
            /\ today' = [today EXCEPT ![r] = now]
            /\ Goto(r, "prepare")
  /\ asked' = [asked EXCEPT ![r] = 0]
  /\ UNCHANGED <<now, sig, existing, forkReady, base, branch, durable, restarts,
                 gitVars>>

\* Mutant: the early return for a used text forgets the answer.
ConsumeSilentReplay(r) ==
  /\ pc[r] = (IF durable THEN "asked" ELSE "verified")
  /\ IF InUse(sig[r])
       THEN Goto(r, "silent") /\ UNCHANGED <<today, guard, accepted>>
       ELSE /\ guard' = [guard EXCEPT ![sig[r]] = Expiry(r)]
            /\ accepted' = [accepted EXCEPT ![sig[r]] =
                              Append(@, [at |-> now, until |-> Expiry(r)])]
            /\ today' = [today EXCEPT ![r] = now]
            /\ Goto(r, "prepare")
  /\ asked' = [asked EXCEPT ![r] = 0]
  /\ UNCHANGED <<now, sig, existing, forkReady, base, branch, durable, restarts,
                 gitVars>>

Consume(r) ==
  /\ pc[r] = (IF durable THEN "asked" ELSE "verified")
  /\ IF InUse(sig[r])
       THEN Goto(r, "answered") /\ UNCHANGED <<today, guard, accepted>>
       ELSE /\ guard' = [guard EXCEPT ![sig[r]] = Expiry(r)]
            /\ accepted' = [accepted EXCEPT ![sig[r]] =
                              Append(@, [at |-> now, until |-> Expiry(r)])]
            /\ today' = [today EXCEPT ![r] = now]
            /\ Goto(r, "prepare")
  /\ asked' = [asked EXCEPT ![r] = 0]
  /\ UNCHANGED <<now, sig, existing, forkReady, base, branch, durable, restarts,
                 gitVars>>

(* A transient store error, before or after the entry was written, propagates
   out of consume(), which the route calls outside its try block.  Nobody
   handles the rejection: Node ends the process, and with it every request
   under way. *)
GuardFails(r) ==
  /\ durable /\ restarts < MaxRestarts
  /\ pc[r] = "asked"
  /\ \/ guard' = guard
     \/ ~InUse(sig[r]) /\ guard' = [guard EXCEPT ![sig[r]] = Expiry(r)]
  /\ pc' = [q \in Requests |-> IF q \in InFlight THEN "crashed" ELSE pc[q]]
  /\ restarts' = restarts + 1
  /\ UNCHANGED <<now, localVars, durable, gitVars, accepted>>

(* The TTL policy of Firestore removes an expired entry, some time or never. *)
Reap(t) ==
  /\ durable
  /\ guard[t] # 0 /\ guard[t] <= now
  /\ guard' = [guard EXCEPT ![t] = 0]
  /\ UNCHANGED <<now, pc, localVars, durable, restarts, gitVars, accepted>>

-----------------------------------------------------------------------------
(* createCaRegistryPr *)

(* getFileContent and ensureFork run in parallel. *)
ReadService(r) ==
  /\ pc[r] = "prepare" /\ existing[r] = Pending
  /\ existing' = [existing EXCEPT ![r] = Last(main)]
  /\ UNCHANGED <<now, pc, sig, asked, today, forkReady, base, branch, guardVars,
                 gitVars, accepted>>

EnsureFork(r) ==
  /\ pc[r] = "prepare" /\ ~forkReady[r]
  /\ fork' = IF fork = 0 THEN Len(main) ELSE fork
  /\ forkReady' = [forkReady EXCEPT ![r] = TRUE]
  /\ UNCHANGED <<now, pc, sig, asked, today, existing, base, branch, guardVars, main,
                 branches, prs, accepted>>

(* An answer other than success or conflict is passed over. *)
SyncForkMain(r) ==
  /\ pc[r] = "prepare" /\ existing[r] # Pending /\ forkReady[r]
  /\ fork' \in {fork, Len(main)}
  /\ Goto(r, "synced")
  /\ UNCHANGED <<now, localVars, guardVars, main, branches, prs, accepted>>

(* getRef; the branch is named after the clock in the same turn. *)
ReadHead(r) ==
  /\ pc[r] = "synced"
  /\ base' = [base EXCEPT ![r] = Len(main)]
  /\ branch' = [branch EXCEPT ![r] = now]
  /\ Goto(r, "based")
  /\ UNCHANGED <<now, sig, asked, today, existing, forkReady, guardVars, gitVars,
                 accepted>>

\* GitHub refuses a commit the fork does not hold and a name that is taken.
RefAllowed(r) == base[r] <= fork /\ branch[r] \notin DOMAIN branches

\* Mutant: the reference is written whether or not the branch exists.
CreateRefForced(r) ==
  /\ pc[r] = "based"
  /\ IF base[r] <= fork
       THEN /\ branches' = [b \in DOMAIN branches \cup {branch[r]} |->
                           IF b = branch[r]
                             THEN [base |-> base[r], by |-> "nobody",
                                   created |-> main[base[r]]]
                             ELSE branches[b]]
            /\ Goto(r, "branched")
       ELSE Goto(r, "answered") /\ UNCHANGED branches
  /\ UNCHANGED <<now, localVars, guardVars, main, fork, prs, accepted>>

CreateRef(r) ==
  /\ pc[r] = "based"
  /\ IF RefAllowed(r)
       THEN /\ branches' = [b \in DOMAIN branches \cup {branch[r]} |->
                           IF b = branch[r]
                             THEN [base |-> base[r], by |-> "nobody",
                                   created |-> main[base[r]]]
                             ELSE branches[b]]
            /\ Goto(r, "branched")
       ELSE Goto(r, "answered") /\ UNCHANGED branches
  /\ UNCHANGED <<now, localVars, guardVars, main, fork, prs, accepted>>

CreatedAt(r) == IF existing[r] = NoService THEN today[r] ELSE existing[r]

(* Blobs, tree and commit are only objects; updateRef shows them. *)
UpdateRef(r) ==
  /\ pc[r] = "branched"
  /\ branches' = [branches EXCEPT ![branch[r]] =
                    [base |-> base[r], by |-> r, created |-> CreatedAt(r)]]
  /\ Goto(r, "committed")
  /\ UNCHANGED <<now, localVars, guardVars, main, fork, prs, accepted>>

OpenPr(r) ==
  /\ pc[r] = "committed"
  /\ prs' = prs \cup {[by |-> r, sig |-> sig[r], branch |-> branch[r],
                       merged |-> FALSE]}
  /\ Goto(r, "answered")
  /\ UNCHANGED <<now, localVars, guardVars, main, fork, branches, accepted>>

(* A GitHub call fails, or there is no token: the route answers with an error
   and leaves what was done on GitHub. *)
GitHubFails(r) ==
  /\ pc[r] \in {"prepare", "synced", "based", "branched", "committed"}
  /\ Goto(r, "answered")
  /\ UNCHANGED <<now, localVars, guardVars, gitVars, accepted>>

-----------------------------------------------------------------------------
(* Around the backend. *)

(* A maintainer merges: without a conflict the file is still the one of the
   pull request's base. *)
Merge(p) ==
  /\ p \in prs /\ ~p.merged
  /\ Len(main) < MaxCommits
  /\ LET tip == branches[p.branch]
     IN  /\ main[tip.base] = Last(main)
         /\ main' = Append(main, tip.created)
  /\ prs' = (prs \ {p}) \cup {[p EXCEPT !.merged = TRUE]}
  /\ UNCHANGED <<now, pc, localVars, guardVars, fork, branches, accepted>>

(* Another service of the repository changes. *)
UpstreamMoves ==
  /\ Len(main) < MaxCommits
  /\ main' = Append(main, Last(main))
  /\ UNCHANGED <<now, pc, localVars, guardVars, fork, branches, prs, accepted>>

(* The connections of requests under way are closed and the in-memory guard
   starts empty. *)
Restart ==
  /\ restarts < MaxRestarts
  /\ restarts' = restarts + 1
  /\ pc' = [r \in Requests |-> IF r \in InFlight THEN "dropped" ELSE pc[r]]
  /\ guard' = IF durable THEN guard ELSE [s \in Texts |-> 0]
  /\ UNCHANGED <<now, localVars, durable, gitVars, accepted>>

Tick ==
  /\ now < MaxTime
  /\ now' = now + 1
  /\ UNCHANGED <<pc, localVars, guardVars, gitVars, accepted>>

RequestStep(r) ==
  \/ Verify(r) \/ AskGuard(r) \/ Consume(r) \/ GuardFails(r)
  \/ ReadService(r) \/ EnsureFork(r) \/ SyncForkMain(r) \/ ReadHead(r)
  \/ CreateRef(r) \/ UpdateRef(r) \/ OpenPr(r) \/ GitHubFails(r)

Next ==
  \/ \E r \in Requests : RequestStep(r)
  \/ \E p \in prs : Merge(p)
  \/ \E t \in Texts : Reap(t)
  \/ UpstreamMoves \/ Restart \/ Tick

\* The event loop runs every handler on, and every call it waits for returns
\* or fails (fetch and the RPC client give up by themselves).
Spec == /\ Init /\ [][Next]_vars
        /\ \A r \in Requests : WF_vars(pc[r] # "idle" /\ RequestStep(r))

-----------------------------------------------------------------------------
\* replayGuard.ts:19, "True if newly used; false if a replay": the text of a signature
\* is accepted again only after the entry made for it has expired, with requests that
\* carry it racing through the owner check and the store, entries that are reaped,
\* calls that fail after they were written and, for the durable guard, restarts and
\* crashes in between.
AcceptedOncePerTtl ==
  durable \/ restarts = 0 =>
    \A t \in Texts : \A i \in 2..Len(accepted[t]) :
      accepted[t][i].at >= accepted[t][i-1].until

\* Concurrent requests do not get into each other's way on the fork: the head
\* of a pull request is the commit of the request that opened it, although the
\* branch names are only timestamps.
PrCarriesOwnCommit == \A p \in prs : branches[p.branch].by = p.by

\* registries.ts:37, errors of a handler "become a clean 500 instead of an
\* unhandled rejection": every request whose signature is verified is answered,
\* unless somebody restarts the backend.
Answered ==
  \A r \in Requests : pc[r] = "verified" ~> pc[r] \in {"answered", "dropped"}

\* Whatever GitHub does, an answer is lost to the store of the durable guard only: a
\* replay, a refused branch and a failing call are all answered, and no request waits
\* for another one.  A failing store takes the answers of all that are under way.
UnansweredOnlyByCrash ==
  \A r \in Requests :
    pc[r] = "verified" ~>
      \/ pc[r] \in {"answered", "dropped"}
      \/ durable /\ pc[r] = "crashed"
=============================================================================
