------------------------ MODULE CaPullRequest_proofs ------------------------
(***************************************************************************)
(* What the backend's pull requests keep, for any number of requests,      *)
(* texts, commits and restarts and whatever the TTL: a text is accepted    *)
(* once for every entry of the guard, and a pull request carries the       *)
(* commit of its own request.                                              *)
(***************************************************************************)
EXTENDS CaPullRequest, SequenceTheorems, TLAPS

Places == {"idle", "verified", "asked", "prepare", "synced", "based", "branched",
           "committed", "answered", "crashed", "dropped"}

PullRequests == [by : Requests, sig : Texts, branch : Nat, merged : BOOLEAN]

Entries == [at : Nat, until : Nat]

PrTypeOK ==
  /\ now \in Nat /\ restarts \in Nat /\ durable \in BOOLEAN
  /\ pc \in [Requests -> Places]
  /\ sig \in [Requests -> Texts]
  /\ asked \in [Requests -> Nat]
  /\ branch \in [Requests -> Nat]
  /\ guard \in [Texts -> Nat]
  /\ prs \subseteq PullRequests
  /\ accepted \in [Texts -> Seq(Entries)]

\* When the entry made for the last acceptance of a text expires.
LastUntil(t) == accepted[t][Len(accepted[t])].until

\* While the entry made for the last acceptance of a text lives, the guard still has it:
\* one that was reaped, or that a failing call wrote anew, came after it.
GuardTells ==
  durable \/ restarts = 0 =>
    \A t \in Texts :
      Len(accepted[t]) > 0 => guard[t] = LastUntil(t) \/ LastUntil(t) <= now

\* Between creating its branch and its pull request a request has the branch for itself.
BranchOwned ==
  /\ \A p \in prs : p.branch \in DOMAIN branches /\ branches[p.branch].by = p.by
  /\ \A r \in Requests :
       pc[r] \in {"branched", "committed"} =>
         /\ branch[r] \in DOMAIN branches
         /\ \A p \in prs : p.branch # branch[r]
         /\ \A q \in Requests :
              q # r /\ pc[q] \in {"branched", "committed"} => branch[q] # branch[r]
  /\ \A r \in Requests : pc[r] = "committed" => branches[branch[r]].by = r

PrInv == PrTypeOK /\ GuardTells /\ AcceptedOncePerTtl /\ BranchOwned

-----------------------------------------------------------------------------
LEMMA PrInitInv == Init => PrInv
<1> SUFFICES ASSUME Init PROVE PrInv
  OBVIOUS
<1>1. PrTypeOK
  BY PullRequestAssumption DEF Init, PrTypeOK, Places, PullRequestAssumption
<1>2. \A t \in Texts : Len(accepted[t]) = 0
  BY DEF Init
<1>3. GuardTells /\ AcceptedOncePerTtl
  BY <1>2 DEF GuardTells, AcceptedOncePerTtl
<1>4. BranchOwned
  BY DEF Init, BranchOwned
<1> QED
  BY <1>1, <1>3, <1>4 DEF PrInv

\* The guard, its history and the clock stay as they are, or only the clock goes on.
LEMMA GuardRests ==
  ASSUME PrInv, UNCHANGED <<guardVars, accepted>>, now' \in Nat, now' >= now
  PROVE  GuardTells' /\ AcceptedOncePerTtl'
<1>1. AcceptedOncePerTtl'
  BY DEF PrInv, AcceptedOncePerTtl, guardVars
<1>2. GuardTells'
  <2> SUFFICES ASSUME durable \/ restarts = 0, NEW t \in Texts, Len(accepted[t]) > 0
               PROVE  guard[t] = LastUntil(t) \/ LastUntil(t) <= now'
    BY DEF GuardTells, LastUntil, guardVars
  <2>1. guard[t] = LastUntil(t) \/ LastUntil(t) <= now
    BY DEF PrInv, GuardTells
  <2>2. LastUntil(t) \in Nat
    <3>1. accepted[t] \in Seq(Entries)
      BY DEF PrInv, PrTypeOK
    <3>2. accepted[t][Len(accepted[t])] \in Entries
      BY <3>1
    <3> QED
      BY <3>2 DEF LastUntil, Entries
  <2> QED
    BY <2>1, <2>2 DEF PrInv, PrTypeOK
<1> QED
  BY <1>1, <1>2

\* A request goes on, and changes nothing that others see: nobody gains a place among
\* those that hold a branch.
LEMMA HandlerMoves ==
  ASSUME PrInv, NEW r \in Requests, NEW place \in Places, Goto(r, place),
         UNCHANGED <<now, sig, branch, guardVars, branches, prs, accepted>>,
         asked' \in [Requests -> Nat],
         place \notin {"branched", "committed"}
  PROVE  PrInv'
<1>1. pc' = [pc EXCEPT ![r] = place] /\ pc \in [Requests -> Places]
  BY DEF Goto, PrInv, PrTypeOK
<1>2. PrTypeOK'
  BY <1>1 DEF PrInv, PrTypeOK, guardVars
<1>3. GuardTells' /\ AcceptedOncePerTtl'
  BY GuardRests DEF PrInv, PrTypeOK
<1>4. BranchOwned'
  BY <1>1 DEF PrInv, BranchOwned
<1> QED
  BY <1>2, <1>3, <1>4 DEF PrInv

\* Nothing that the invariant speaks of changes but the clock.
LEMMA OthersMove ==
  ASSUME PrInv, now' \in Nat, now' >= now,
         UNCHANGED <<pc, sig, asked, branch, guardVars, branches, prs, accepted>>
  PROVE  PrInv'
<1>1. PrTypeOK' /\ BranchOwned'
  BY DEF guardVars, PrInv, PrTypeOK, BranchOwned
<1> QED
  BY <1>1, GuardRests DEF PrInv

\* Handlers that are stopped give up their branches, and nothing else changes there.
LEMMA HandlersStop ==
  ASSUME PrInv, UNCHANGED <<branch, branches, prs>>, pc' \in [Requests -> Places],
         \A r \in Requests : pc'[r] \notin {"branched", "committed"} \/ pc'[r] = pc[r]
  PROVE  BranchOwned'
  BY DEF PrInv, BranchOwned

\* A free entry of the guard is one of a text whose last acceptance has expired.
LEMMA FreeHasExpired ==
  ASSUME PrInv, durable \/ restarts = 0, NEW t \in Texts, ~InUse(t), Len(accepted[t]) > 0
  PROVE  LastUntil(t) <= now
<1>1. guard[t] = LastUntil(t) \/ LastUntil(t) <= now
  BY DEF PrInv, GuardTells
<1>2. guard[t] \in Nat /\ now \in Nat /\ durable \in BOOLEAN
  BY DEF PrInv, PrTypeOK
<1>3. guard[t] <= now
  BY <1>2 DEF InUse
<1> QED
  BY <1>1, <1>3

\* A text that passes the guard had not passed it, or its entry has expired.
LEMMA GuardPassed ==
  ASSUME PrInv, NEW r \in Requests, Consume(r), ~InUse(sig[r])
  PROVE  PrInv'
<1> DEFINE t == sig[r]
           entry == [at |-> now, until |-> Expiry(r)]
<1>1. /\ guard' = [guard EXCEPT ![t] = Expiry(r)]
      /\ accepted' = [accepted EXCEPT ![t] = Append(accepted[t], entry)]
      /\ pc' = [pc EXCEPT ![r] = "prepare"]
      /\ asked' = [asked EXCEPT ![r] = 0]
      /\ UNCHANGED <<now, sig, branch, durable, restarts, branches, prs>>
  BY DEF Consume, Goto, gitVars
<1>2. t \in Texts /\ now \in Nat /\ Expiry(r) \in Nat
  BY PullRequestAssumption DEF PrInv, PrTypeOK, PullRequestAssumption, Expiry
<1>3. entry \in Entries /\ entry.until = Expiry(r) /\ entry.at = now
  BY <1>2 DEF Entries
<1>4. accepted[t] \in Seq(Entries) /\ Len(accepted[t]) \in Nat
  BY <1>2 DEF PrInv, PrTypeOK
<1> HIDE DEF entry
<1>5. /\ Append(accepted[t], entry) \in Seq(Entries)
      /\ Len(Append(accepted[t], entry)) = Len(accepted[t]) + 1
      /\ Append(accepted[t], entry)[Len(accepted[t]) + 1] = entry
      /\ \A k \in 1..Len(accepted[t]) : Append(accepted[t], entry)[k] = accepted[t][k]
  <2> DEFINE a == accepted[t]
  <2>1. a \in Seq(Entries) /\ entry \in Entries
    BY <1>3, <1>4
  <2> HIDE DEF a
  <2>2. /\ Append(a, entry) \in Seq(Entries) /\ Len(Append(a, entry)) = Len(a) + 1
        /\ Append(a, entry)[Len(a) + 1] = entry
        /\ \A k \in 1..Len(a) : Append(a, entry)[k] = a[k]
    BY <2>1
  <2> QED
    BY <2>2 DEF a
<1>6. /\ pc'[r] = "prepare" /\ \A q \in Requests : q # r => pc'[q] = pc[q]
      /\ guard'[t] = Expiry(r) /\ \A u \in Texts : u # t => guard'[u] = guard[u]
      /\ accepted'[t] = Append(accepted[t], entry)
      /\ \A u \in Texts : u # t => accepted'[u] = accepted[u]
  BY <1>1, <1>2 DEF PrInv, PrTypeOK
<1>7. PrTypeOK'
  <2>1. accepted' \in [Texts -> Seq(Entries)]
    BY <1>1, <1>2, <1>5 DEF PrInv, PrTypeOK
  <2> QED
    BY <1>1, <1>2, <2>1 DEF PrInv, PrTypeOK, Places
<1>8. GuardTells'
  <2> SUFFICES ASSUME durable \/ restarts = 0, NEW u \in Texts, Len(accepted'[u]) > 0
               PROVE  guard'[u] = LastUntil(u)' \/ LastUntil(u)' <= now
    BY <1>1 DEF GuardTells
  <2>1. CASE u = t
    <3>1. accepted'[u][Len(accepted'[u])] = entry
      BY <1>5, <1>6, <2>1
    <3> QED
      BY <1>3, <1>6, <2>1, <3>1 DEF LastUntil
  <2>2. CASE u # t
    BY <1>6, <2>2 DEF PrInv, GuardTells, LastUntil
  <2> QED
    BY <2>1, <2>2
<1>9. AcceptedOncePerTtl'
  <2> SUFFICES ASSUME durable \/ restarts = 0,
                      NEW u \in Texts, NEW i \in 2..Len(accepted'[u])
               PROVE  accepted'[u][i].at >= accepted'[u][i - 1].until
    BY <1>1 DEF AcceptedOncePerTtl
  <2>1. CASE u # t
    BY <1>6, <2>1 DEF PrInv, AcceptedOncePerTtl
  <2>2. CASE u = t /\ i <= Len(accepted[t])
    <3>1. i \in 2..Len(accepted[t]) /\ i \in 1..Len(accepted[t])
          /\ i - 1 \in 1..Len(accepted[t])
      BY <1>4, <2>2
    <3>2. accepted'[t][i] = accepted[t][i] /\ accepted'[t][i - 1] = accepted[t][i - 1]
      BY <1>5, <1>6, <3>1
    <3>3. accepted[t][i].at >= accepted[t][i - 1].until
      BY <1>2, <3>1 DEF PrInv, AcceptedOncePerTtl
    <3> QED
      BY <2>2, <3>2, <3>3
  <2>3. CASE u = t /\ ~(i <= Len(accepted[t]))
    <3>1. i = Len(accepted[t]) + 1 /\ i - 1 = Len(accepted[t]) /\ Len(accepted[t]) > 0
      <4>1. Len(accepted'[u]) = Len(accepted[t]) + 1
        BY <1>5, <1>6, <2>3
      <4> QED
        BY <1>4, <2>3, <4>1
    <3>2. accepted'[u][i] = entry
      BY <1>5, <1>6, <2>3, <3>1
    <3>3. accepted'[u][i - 1] = accepted[t][Len(accepted[t])]
      <4>1. Len(accepted[t]) \in 1..Len(accepted[t])
        BY <1>4, <3>1
      <4> QED
        BY <1>5, <1>6, <2>3, <3>1, <4>1
    <3>4. LastUntil(t) <= now
      BY <1>2, <3>1, FreeHasExpired
    <3>5. LastUntil(t) \in Nat
      <4>1. accepted[t][Len(accepted[t])] \in Entries
        BY <1>4, <3>1
      <4> QED
        BY <4>1 DEF LastUntil, Entries
    <3> QED
      BY <1>2, <1>3, <3>2, <3>3, <3>4, <3>5 DEF LastUntil
  <2> QED
    BY <1>4, <2>1, <2>2, <2>3
<1>10. BranchOwned'
  BY <1>1, <1>6 DEF PrInv, BranchOwned
<1> QED
  BY <1>7, <1>8, <1>9, <1>10 DEF PrInv

\* A failing store ends what is under way, and at most leaves an entry where there was none.
LEMMA GuardFailed ==
  ASSUME PrInv, NEW r \in Requests, GuardFails(r)
  PROVE  PrInv'
<1> DEFINE t == sig[r]
<1>1. /\ durable /\ restarts' = restarts + 1
      /\ \/ guard' = guard
         \/ ~InUse(t) /\ guard' = [guard EXCEPT ![t] = Expiry(r)]
      /\ pc' = [q \in Requests |-> IF q \in InFlight THEN "crashed" ELSE pc[q]]
      /\ UNCHANGED <<now, sig, asked, branch, durable, branches, prs, accepted>>
  BY DEF GuardFails, localVars, gitVars
<1>2. t \in Texts /\ Expiry(r) \in Nat
  BY PullRequestAssumption DEF PrInv, PrTypeOK, PullRequestAssumption, Expiry
<1>3. PrTypeOK'
  <2>1. guard' \in [Texts -> Nat]
    BY <1>1, <1>2 DEF PrInv, PrTypeOK
  <2>2. pc' \in [Requests -> Places]
    BY <1>1 DEF PrInv, PrTypeOK, Places
  <2> QED
    BY <1>1, <2>1, <2>2 DEF PrInv, PrTypeOK
<1>4. GuardTells'
  <2> SUFFICES ASSUME NEW u \in Texts, Len(accepted[u]) > 0
               PROVE  guard'[u] = LastUntil(u) \/ LastUntil(u) <= now
    BY <1>1 DEF GuardTells, LastUntil
  <2>1. guard[u] = LastUntil(u) \/ LastUntil(u) <= now
    BY <1>1 DEF PrInv, GuardTells
  <2>2. CASE guard'[u] = guard[u]
    BY <2>1, <2>2
  <2>3. CASE guard'[u] # guard[u]
    <3>1. u = t /\ ~InUse(t)
      BY <1>1, <1>2, <2>3 DEF PrInv, PrTypeOK
    <3> QED
      BY <1>1, <3>1, FreeHasExpired
  <2> QED
    BY <2>2, <2>3
<1>5. AcceptedOncePerTtl'
  BY <1>1 DEF PrInv, AcceptedOncePerTtl
<1>6. BranchOwned'
  <2> \A q \in Requests : pc'[q] \notin {"branched", "committed"} \/ pc'[q] = pc[q]
    BY <1>1
  <2> QED
    BY <1>1, <1>3, HandlersStop DEF PrTypeOK
<1> QED
  BY <1>3, <1>4, <1>5, <1>6 DEF PrInv

\* Only an entry that has expired is reaped.
LEMMA EntryReaped ==
  ASSUME PrInv, NEW t \in Texts, Reap(t)
  PROVE  PrInv'
<1>1. /\ guard[t] <= now /\ guard' = [guard EXCEPT ![t] = 0]
      /\ UNCHANGED <<now, pc, sig, asked, branch, durable, restarts, branches, prs, accepted>>
  BY DEF Reap, localVars, gitVars
<1>2. PrTypeOK' /\ AcceptedOncePerTtl' /\ BranchOwned'
  BY <1>1 DEF PrInv, PrTypeOK, AcceptedOncePerTtl, BranchOwned
<1>3. GuardTells'
  <2> SUFFICES ASSUME durable \/ restarts = 0, NEW u \in Texts, Len(accepted[u]) > 0
               PROVE  guard'[u] = LastUntil(u) \/ LastUntil(u) <= now
    BY <1>1 DEF GuardTells, LastUntil
  <2>1. guard[u] = LastUntil(u) \/ LastUntil(u) <= now
    BY DEF PrInv, GuardTells
  <2>2. CASE u = t
    BY <1>1, <2>1, <2>2
  <2>3. CASE u # t
    BY <1>1, <2>1, <2>3 DEF PrInv, PrTypeOK
  <2> QED
    BY <2>2, <2>3
<1> QED
  BY <1>2, <1>3 DEF PrInv

\* The branch is created under a name that nobody has.
LEMMA BranchCreated ==
  ASSUME PrInv, NEW r \in Requests, CreateRef(r), RefAllowed(r)
  PROVE  PrInv'
<1>1. /\ pc[r] = "based" /\ branch[r] \notin DOMAIN branches
      /\ pc' = [pc EXCEPT ![r] = "branched"]
      /\ UNCHANGED <<now, sig, asked, branch, guardVars, prs, accepted>>
  BY DEF CreateRef, RefAllowed, Goto, localVars
<1>2. /\ DOMAIN branches' = DOMAIN branches \cup {branch[r]}
      /\ \A b \in DOMAIN branches : branches'[b] = branches[b]
  BY <1>1 DEF CreateRef, RefAllowed
<1>3. /\ pc'[r] = "branched" /\ \A q \in Requests : q # r => pc'[q] = pc[q]
  BY <1>1 DEF PrInv, PrTypeOK
<1>4. PrTypeOK'
  BY <1>1, <1>3 DEF PrInv, PrTypeOK, Places, guardVars
<1>5. GuardTells' /\ AcceptedOncePerTtl'
  BY <1>1, GuardRests DEF PrInv, PrTypeOK
<1>6. BranchOwned'
  <2>1. \A p \in prs' : p.branch \in DOMAIN branches' /\ branches'[p.branch].by = p.by
    BY <1>1, <1>2 DEF PrInv, BranchOwned
  <2>2. \A q \in Requests : pc'[q] = "committed" => branches'[branch'[q]].by = q
    BY <1>1, <1>2, <1>3 DEF PrInv, BranchOwned
  <2>3. \A q \in Requests :
          pc'[q] \in {"branched", "committed"} =>
            /\ branch'[q] \in DOMAIN branches'
            /\ \A p \in prs' : p.branch # branch'[q]
            /\ \A s \in Requests :
                 s # q /\ pc'[s] \in {"branched", "committed"} => branch'[s] # branch'[q]
    BY <1>1, <1>2, <1>3 DEF PrInv, BranchOwned
  <2> QED
    BY <2>1, <2>2, <2>3 DEF BranchOwned
<1> QED
  BY <1>4, <1>5, <1>6 DEF PrInv

\* The commit goes to the branch that the request has for itself.
LEMMA CommitShown ==
  ASSUME PrInv, NEW r \in Requests, UpdateRef(r)
  PROVE  PrInv'
<1>1. /\ pc[r] = "branched"
      /\ pc' = [pc EXCEPT ![r] = "committed"]
      /\ UNCHANGED <<now, sig, asked, branch, guardVars, prs, accepted>>
  BY DEF UpdateRef, Goto, localVars
<1>2. branch[r] \in DOMAIN branches
  BY <1>1 DEF PrInv, BranchOwned
<1>3. /\ DOMAIN branches' = DOMAIN branches /\ branches'[branch[r]].by = r
      /\ \A b \in DOMAIN branches : b # branch[r] => branches'[b] = branches[b]
  BY <1>2 DEF UpdateRef
<1>4. /\ pc'[r] = "committed" /\ \A q \in Requests : q # r => pc'[q] = pc[q]
  BY <1>1 DEF PrInv, PrTypeOK
<1>5. PrTypeOK'
  BY <1>1, <1>4 DEF PrInv, PrTypeOK, Places, guardVars
<1>6. GuardTells' /\ AcceptedOncePerTtl'
  BY <1>1, GuardRests DEF PrInv, PrTypeOK
<1>7. BranchOwned'
  <2>1. \A p \in prs' : p.branch \in DOMAIN branches' /\ branches'[p.branch].by = p.by
    BY <1>1, <1>3 DEF PrInv, BranchOwned
  <2>2. \A q \in Requests : pc'[q] = "committed" => branches'[branch'[q]].by = q
    BY <1>1, <1>3, <1>4 DEF PrInv, BranchOwned
  <2>3. \A q \in Requests :
          pc'[q] \in {"branched", "committed"} =>
            /\ branch'[q] \in DOMAIN branches'
            /\ \A p \in prs' : p.branch # branch'[q]
            /\ \A s \in Requests :
                 s # q /\ pc'[s] \in {"branched", "committed"} => branch'[s] # branch'[q]
    BY <1>1, <1>3, <1>4 DEF PrInv, BranchOwned
  <2> QED
    BY <2>1, <2>2, <2>3 DEF BranchOwned
<1> QED
  BY <1>5, <1>6, <1>7 DEF PrInv

\* The pull request takes over the branch of its request.
LEMMA PrOpened ==
  ASSUME PrInv, NEW r \in Requests, OpenPr(r)
  PROVE  PrInv'
<1> DEFINE new == [by |-> r, sig |-> sig[r], branch |-> branch[r], merged |-> FALSE]
<1>1. /\ pc[r] = "committed" /\ prs' = prs \cup {new}
      /\ pc' = [pc EXCEPT ![r] = "answered"]
      /\ UNCHANGED <<now, sig, asked, branch, guardVars, branches, accepted>>
  BY DEF OpenPr, Goto, localVars
<1>2. new \in PullRequests /\ new.by = r /\ new.branch = branch[r]
  BY DEF PullRequests, PrInv, PrTypeOK
<1> HIDE DEF new
<1>3. /\ pc'[r] = "answered" /\ \A q \in Requests : q # r => pc'[q] = pc[q]
  BY <1>1 DEF PrInv, PrTypeOK
<1>4. PrTypeOK'
  BY <1>1, <1>2 DEF PrInv, PrTypeOK, Places, guardVars
<1>5. GuardTells' /\ AcceptedOncePerTtl'
  BY <1>1, GuardRests DEF PrInv, PrTypeOK
<1>6. BranchOwned'
  BY <1>1, <1>2, <1>3 DEF PrInv, BranchOwned
<1> QED
  BY <1>4, <1>5, <1>6 DEF PrInv

\* A merge only marks the pull request.
LEMMA PrMerged ==
  ASSUME PrInv, NEW p \in prs, Merge(p)
  PROVE  PrInv'
<1> DEFINE new == [p EXCEPT !.merged = TRUE]
<1>1. /\ prs' = (prs \ {p}) \cup {new}
      /\ UNCHANGED <<now, pc, sig, asked, branch, guardVars, branches, accepted>>
  BY DEF Merge, localVars
<1>2. p \in PullRequests
  BY DEF PrInv, PrTypeOK
<1>3. new \in PullRequests /\ new.by = p.by /\ new.branch = p.branch
  BY <1>2 DEF PullRequests
<1> HIDE DEF new
<1>4. PrTypeOK'
  BY <1>1, <1>3 DEF PrInv, PrTypeOK, guardVars
<1>5. GuardTells' /\ AcceptedOncePerTtl'
  BY <1>1, GuardRests DEF PrInv, PrTypeOK
<1>6. BranchOwned'
  BY <1>1, <1>3 DEF PrInv, BranchOwned
<1> QED
  BY <1>4, <1>5, <1>6 DEF PrInv

\* A restart ends what was under way, and the durable guard stays.
LEMMA BackendRestarted ==
  ASSUME PrInv, Restart
  PROVE  PrInv'
<1>1. /\ restarts' = restarts + 1 /\ restarts \in Nat
      /\ pc' = [r \in Requests |-> IF r \in InFlight THEN "dropped" ELSE pc[r]]
      /\ guard' = IF durable THEN guard ELSE [s \in Texts |-> 0]
      /\ UNCHANGED <<now, sig, asked, branch, durable, branches, prs, accepted>>
  BY DEF Restart, localVars, gitVars, PrInv, PrTypeOK
<1>2. PrTypeOK'
  BY <1>1 DEF PrInv, PrTypeOK, Places
<1>3. GuardTells' /\ AcceptedOncePerTtl'
  BY <1>1 DEF PrInv, GuardTells, AcceptedOncePerTtl, LastUntil
<1>4. BranchOwned'
  <2> \A q \in Requests : pc'[q] \notin {"branched", "committed"} \/ pc'[q] = pc[q]
    BY <1>1
  <2> QED
    BY <1>1, <1>2, HandlersStop DEF PrTypeOK
<1> QED
  BY <1>2, <1>3, <1>4 DEF PrInv

LEMMA PrStepInv ==
  ASSUME PrInv, [Next]_vars
  PROVE  PrInv'
<1> USE DEF localVars, gitVars
<1>0. asked \in [Requests -> Nat] /\ now \in Nat
  BY DEF PrInv, PrTypeOK
<1>1. ASSUME NEW r \in Requests, Verify(r) \/ AskGuard(r)
      PROVE  PrInv'
  <2>1. /\ Goto(r, "verified") \/ Goto(r, "asked")
        /\ asked' = asked \/ asked' = [asked EXCEPT ![r] = now]
        /\ UNCHANGED <<now, sig, branch, guardVars, branches, prs, accepted>>
    BY <1>1 DEF Verify, AskGuard
  <2>2. asked' \in [Requests -> Nat]
    BY <1>0, <2>1
  <2> QED
    BY <2>1, <2>2, HandlerMoves DEF Places
<1>2. ASSUME NEW r \in Requests, Consume(r)
      PROVE  PrInv'
  <2>1. CASE InUse(sig[r])
    <3> /\ Goto(r, "answered") /\ asked' = [asked EXCEPT ![r] = 0]
        /\ UNCHANGED <<now, sig, branch, guardVars, branches, prs, accepted>>
      BY <1>2, <2>1 DEF Consume, guardVars
    <3> QED
      BY <1>0, HandlerMoves DEF Places
  <2> QED
    BY <1>2, <2>1, GuardPassed
<1>3. ASSUME NEW r \in Requests, GuardFails(r)
      PROVE  PrInv'
  BY <1>3, GuardFailed
<1>4. ASSUME NEW r \in Requests, ReadService(r) \/ EnsureFork(r)
      PROVE  PrInv'
  <2> now' = now
      /\ UNCHANGED <<pc, sig, asked, branch, guardVars, branches, prs, accepted>>
    BY <1>4 DEF ReadService, EnsureFork
  <2> QED
    BY <1>0, OthersMove
<1>5. ASSUME NEW r \in Requests, SyncForkMain(r)
      PROVE  PrInv'
  <2> Goto(r, "synced")
      /\ UNCHANGED <<now, sig, asked, branch, guardVars, branches, prs, accepted>>
    BY <1>5 DEF SyncForkMain
  <2> QED
    BY <1>0, HandlerMoves DEF Places
<1>6. ASSUME NEW r \in Requests, ReadHead(r)
      PROVE  PrInv'
  <2>1. /\ pc[r] = "synced" /\ pc' = [pc EXCEPT ![r] = "based"]
        /\ branch' = [branch EXCEPT ![r] = now]
        /\ UNCHANGED <<now, sig, asked, guardVars, branches, prs, accepted>>
    BY <1>6 DEF ReadHead, Goto
  <2>2. /\ pc'[r] = "based"
        /\ \A q \in Requests : q # r => pc'[q] = pc[q] /\ branch'[q] = branch[q]
    BY <2>1 DEF PrInv, PrTypeOK
  <2>3. PrTypeOK'
    BY <2>1, <2>2 DEF PrInv, PrTypeOK, Places, guardVars
  <2>4. GuardTells' /\ AcceptedOncePerTtl'
    BY <1>0, <2>1, GuardRests
  <2>5. BranchOwned'
    BY <2>1, <2>2 DEF PrInv, BranchOwned
  <2> QED
    BY <2>3, <2>4, <2>5 DEF PrInv
<1>7. ASSUME NEW r \in Requests, CreateRef(r)
      PROVE  PrInv'
  <2>1. CASE ~RefAllowed(r)
    <3> Goto(r, "answered")
        /\ UNCHANGED <<now, sig, asked, branch, guardVars, branches, prs, accepted>>
      BY <1>7, <2>1 DEF CreateRef
    <3> QED
      BY <1>0, HandlerMoves DEF Places
  <2> QED
    BY <1>7, <2>1, BranchCreated
<1>8. ASSUME NEW r \in Requests, UpdateRef(r)
      PROVE  PrInv'
  BY <1>8, CommitShown
<1>9. ASSUME NEW r \in Requests, OpenPr(r)
      PROVE  PrInv'
  BY <1>9, PrOpened
<1>10. ASSUME NEW r \in Requests, GitHubFails(r)
       PROVE  PrInv'
  <2> Goto(r, "answered")
      /\ UNCHANGED <<now, sig, asked, branch, guardVars, branches, prs, accepted>>
    BY <1>10 DEF GitHubFails
  <2> QED
    BY <1>0, HandlerMoves DEF Places
<1>11. ASSUME NEW p \in prs, Merge(p)
       PROVE  PrInv'
  BY <1>11, PrMerged
<1>12. CASE UpstreamMoves \/ Tick \/ UNCHANGED vars
  <2> /\ now' \in {now, now + 1}
      /\ UNCHANGED <<pc, sig, asked, branch, guardVars, branches, prs, accepted>>
    BY <1>12 DEF UpstreamMoves, Tick, vars
  <2> QED
    BY <1>0, OthersMove
<1>13. CASE Restart
  BY <1>13, BackendRestarted
<1>14. ASSUME NEW t \in Texts, Reap(t)
       PROVE  PrInv'
  BY <1>14, EntryReaped
<1> QED
  BY <1>1, <1>2, <1>3, <1>4, <1>5, <1>6, <1>7, <1>8, <1>9, <1>10, <1>11, <1>12, <1>13, <1>14
  DEF Next, RequestStep

LEMMA PrInvariance == Spec => []PrInv
<1>1. PrInv /\ [Next]_vars => PrInv'
  BY PrStepInv
<1> QED
  BY PrInitInv, <1>1, PTL DEF Spec

-----------------------------------------------------------------------------
\* ca-registry.ts:108 and replayGuard.ts: between two acceptances of the text of a
\* signature the entry made for the first has expired, however the requests race through
\* the owner check and the store; with the durable guard through reaped entries, failing
\* calls, crashes and restarts too.
THEOREM AcceptedOncePerTtlHolds == Spec => []AcceptedOncePerTtl
<1>1. PrInv => AcceptedOncePerTtl
  BY DEF PrInv
<1> QED
  BY PrInvariance, <1>1, PTL

\* github.ts: the head of a pull request is the commit of the request that opened it,
\* although branches are named after the clock and requests run at the same time.
THEOREM PrCarriesOwnCommitHolds == Spec => []PrCarriesOwnCommit
<1>1. PrInv => PrCarriesOwnCommit
  BY DEF PrInv, BranchOwned, PrCarriesOwnCommit
<1> QED
  BY PrInvariance, <1>1, PTL

-----------------------------------------------------------------------------
(***************************************************************************)
(* A handler goes on to its end: what the answering of requests rests on   *)
(* besides fairness.                                                       *)
(***************************************************************************)

Dates == Nat \cup {NoService}

\* GitHub's side: every commit has a date that some request or an earlier commit gave it,
\* the fork holds a prefix of them, and a request past its reads has what it read.
GitTypeOK ==
  /\ main \in Seq(Dates) /\ Len(main) > 0
  /\ fork \in Nat /\ fork <= Len(main)
  /\ today \in [Requests -> Nat]
  /\ existing \in [Requests -> Dates \cup {Pending}]
  /\ forkReady \in [Requests -> BOOLEAN]
  /\ base \in [Requests -> Nat]
  /\ \A b \in DOMAIN branches : branches[b].created \in Dates
  /\ \A r \in Requests :
       /\ pc[r] = "based" => base[r] > 0
       /\ pc[r] \in {"synced", "based", "branched"} => existing[r] # Pending

\* No handler is taken down by anything but the store of the durable guard.
CrashedByGuard == \A r \in Requests : pc[r] = "crashed" => durable

AdvanceInv == PrInv /\ GitTypeOK /\ CrashedByGuard

\* The steps that a handler may still take.
StepsAhead ==
  [r \in Requests |->
     IF pc[r] = "idle" THEN 10
     ELSE IF pc[r] = "verified" THEN 9
     ELSE IF pc[r] = "asked" THEN 8
     ELSE IF pc[r] = "prepare"
       THEN 5 + (IF existing[r] = Pending THEN 1 ELSE 0) + (IF forkReady[r] THEN 0 ELSE 1)
     ELSE IF pc[r] = "synced" THEN 4
     ELSE IF pc[r] = "based" THEN 3
     ELSE IF pc[r] = "branched" THEN 2
     ELSE IF pc[r] = "committed" THEN 1
     ELSE 0]

LEMMA AdvanceInit == Init => AdvanceInv
<1> SUFFICES ASSUME Init PROVE AdvanceInv
  OBVIOUS
<1>1. main \in Seq(Dates) /\ Len(main) > 0 /\ fork \in Nat /\ fork <= Len(main)
  <2>1. main \in {<<NoService>>, <<0>>} /\ fork \in {0, 1}
    BY DEF Init
  <2>2. NoService \in Dates /\ 0 \in Dates
    BY DEF Dates
  <2>3. main \in Seq(Dates) /\ Len(main) = 1
    <3>1. \A x \in Dates : <<x>> \in Seq(Dates) /\ Len(<<x>>) = 1
      OBVIOUS
    <3>2. \E x \in Dates : main = <<x>>
      BY <2>1, <2>2
    <3> QED
      BY <3>1, <3>2, Zenon
  <2> QED
    BY <2>1, <2>3
<1>2. GitTypeOK
  BY <1>1 DEF Init, GitTypeOK
<1>3. CrashedByGuard
  BY DEF Init, CrashedByGuard
<1> QED
  BY <1>2, <1>3, PrInitInv DEF AdvanceInv

LEMMA PendingIsNoDate == Pending \notin Dates
  BY PullRequestAssumption DEF PullRequestAssumption, Dates

\* The last commit has a date.
LEMMA LastDate ==
  ASSUME GitTypeOK
  PROVE  Last(main) \in Dates /\ Len(main) \in Nat
  BY DEF GitTypeOK, Last

\* A request goes on at a place of its own; GitHub stays as it is.
LEMMA HandlerGoesOn ==
  ASSUME AdvanceInv, NEW r \in Requests, NEW place \in Places, Goto(r, place),
         UNCHANGED <<gitVars, existing, forkReady, base, durable>>,
         today' \in [Requests -> Nat],
         place # "based", place = "branched" => pc[r] = "based",
         place = "synced" => existing[r] # Pending,
         place = "crashed" => durable
  PROVE  GitTypeOK' /\ CrashedByGuard'
<1>1. /\ pc'[r] = place /\ \A q \in Requests : q # r => pc'[q] = pc[q]
  BY DEF AdvanceInv, PrInv, PrTypeOK, Goto
<1>2. GitTypeOK'
  BY <1>1 DEF AdvanceInv, GitTypeOK, gitVars
<1>3. CrashedByGuard'
  BY <1>1 DEF AdvanceInv, CrashedByGuard
<1> QED
  BY <1>2, <1>3

LEMMA AdvanceStep ==
  ASSUME AdvanceInv, [Next]_vars
  PROVE  GitTypeOK' /\ CrashedByGuard'
<1> USE DEF localVars, guardVars
<1>0. /\ pc \in [Requests -> Places] /\ now \in Nat
      /\ main \in Seq(Dates) /\ Len(main) > 0 /\ Len(main) \in Nat
      /\ fork \in Nat /\ fork <= Len(main)
      /\ GitTypeOK /\ CrashedByGuard
  BY LastDate DEF AdvanceInv, PrInv, PrTypeOK, GitTypeOK
<1>1. ASSUME NEW r \in Requests, Verify(r) \/ AskGuard(r)
      PROVE  GitTypeOK' /\ CrashedByGuard'
  <2> /\ Goto(r, "verified") \/ Goto(r, "asked")
      /\ UNCHANGED <<gitVars, today, existing, forkReady, base, durable>>
    BY <1>1 DEF Verify, AskGuard
  <2> QED
    BY <1>0, HandlerGoesOn DEF GitTypeOK, Places
<1>2. ASSUME NEW r \in Requests, Consume(r)
      PROVE  GitTypeOK' /\ CrashedByGuard'
  <2>1. /\ UNCHANGED <<gitVars, existing, forkReady, base, durable>>
        /\ \/ Goto(r, "answered") /\ today' = today
           \/ Goto(r, "prepare") /\ today' = [today EXCEPT ![r] = now]
    BY <1>2 DEF Consume
  <2>2. today' \in [Requests -> Nat]
    BY <1>0, <2>1 DEF GitTypeOK
  <2> QED
    BY <2>1, <2>2, HandlerGoesOn DEF Places
<1>3. ASSUME NEW r \in Requests, GuardFails(r)
      PROVE  GitTypeOK' /\ CrashedByGuard'
  <2>1. /\ durable
        /\ pc' = [q \in Requests |-> IF q \in InFlight THEN "crashed" ELSE pc[q]]
        /\ UNCHANGED <<today, existing, forkReady, base, durable, main, fork, branches>>
    BY <1>3 DEF GuardFails, gitVars
  <2>2. \A q \in Requests : pc'[q] \in {pc[q], "crashed"}
    BY <2>1
  <2> QED
    BY <1>0, <2>1, <2>2 DEF GitTypeOK, CrashedByGuard
<1>4. ASSUME NEW r \in Requests, ReadService(r)
      PROVE  GitTypeOK' /\ CrashedByGuard'
  <2>1. /\ existing' = [existing EXCEPT ![r] = Last(main)]
        /\ UNCHANGED <<pc, today, forkReady, base, durable, gitVars>>
    BY <1>4 DEF ReadService
  <2>2. Last(main) \in Dates /\ Last(main) # Pending
    BY <1>0, LastDate, PendingIsNoDate
  <2>3. /\ existing' \in [Requests -> Dates \cup {Pending}]
        /\ \A q \in Requests : existing[q] # Pending => existing'[q] # Pending
    BY <1>0, <2>1, <2>2 DEF GitTypeOK
  <2> QED
    BY <1>0, <2>1, <2>3 DEF GitTypeOK, CrashedByGuard, gitVars
<1>5. ASSUME NEW r \in Requests, EnsureFork(r)
      PROVE  GitTypeOK' /\ CrashedByGuard'
  <2>1. /\ fork' \in {fork, Len(main)} /\ forkReady' = [forkReady EXCEPT ![r] = TRUE]
        /\ UNCHANGED <<pc, today, existing, base, durable, main, branches, prs>>
    BY <1>5 DEF EnsureFork
  <2> QED
    BY <1>0, <2>1 DEF GitTypeOK, CrashedByGuard
<1>6. ASSUME NEW r \in Requests, SyncForkMain(r)
      PROVE  GitTypeOK' /\ CrashedByGuard'
  <2>1. /\ fork' \in {fork, Len(main)} /\ existing[r] # Pending
        /\ pc' = [pc EXCEPT ![r] = "synced"]
        /\ UNCHANGED <<today, existing, forkReady, base, durable, main, branches, prs>>
    BY <1>6 DEF SyncForkMain, Goto
  <2>2. pc'[r] = "synced" /\ \A q \in Requests : q # r => pc'[q] = pc[q]
    BY <1>0, <2>1
  <2> QED
    BY <1>0, <2>1, <2>2 DEF GitTypeOK, CrashedByGuard
<1>7. ASSUME NEW r \in Requests, ReadHead(r)
      PROVE  GitTypeOK' /\ CrashedByGuard'
  <2>1. /\ pc[r] = "synced" /\ pc' = [pc EXCEPT ![r] = "based"]
        /\ base' = [base EXCEPT ![r] = Len(main)]
        /\ UNCHANGED <<today, existing, forkReady, durable, main, fork, branches, prs>>
    BY <1>7 DEF ReadHead, Goto, gitVars
  <2>2. /\ pc'[r] = "based" /\ base'[r] = Len(main) /\ base' \in [Requests -> Nat]
        /\ \A q \in Requests : q # r => pc'[q] = pc[q] /\ base'[q] = base[q]
    BY <1>0, <2>1 DEF GitTypeOK
  <2> QED
    BY <1>0, <2>1, <2>2 DEF GitTypeOK, CrashedByGuard
<1>8. ASSUME NEW r \in Requests, CreateRef(r)
      PROVE  GitTypeOK' /\ CrashedByGuard'
  <2>1. CASE ~RefAllowed(r)
    <3> Goto(r, "answered")
        /\ UNCHANGED <<gitVars, today, existing, forkReady, base, durable>>
      BY <1>8, <2>1 DEF CreateRef, gitVars
    <3> QED
      BY <1>0, HandlerGoesOn DEF GitTypeOK, Places
  <2>2. CASE RefAllowed(r)
    <3>1. /\ pc[r] = "based" /\ base[r] <= fork
          /\ pc' = [pc EXCEPT ![r] = "branched"]
          /\ branches' = [b \in DOMAIN branches \cup {branch[r]} |->
                            IF b = branch[r] THEN [base |-> base[r], by |-> "nobody",
                                                   created |-> main[base[r]]]
                                             ELSE branches[b]]
          /\ UNCHANGED <<today, existing, forkReady, base, durable, main, fork, prs>>
      BY <1>8, <2>2 DEF CreateRef, Goto, RefAllowed
    <3>2. main[base[r]] \in Dates
      <4> base[r] \in Nat /\ base[r] > 0
        BY <1>0, <3>1 DEF GitTypeOK
      <4> QED
        BY <1>0, <3>1
    <3>3. \A b \in DOMAIN branches' : branches'[b].created \in Dates
      BY <1>0, <3>1, <3>2 DEF GitTypeOK
    <3>4. pc'[r] = "branched" /\ \A q \in Requests : q # r => pc'[q] = pc[q]
      BY <1>0, <3>1
    <3> QED
      BY <1>0, <3>1, <3>3, <3>4 DEF GitTypeOK, CrashedByGuard
  <2> QED
    BY <2>1, <2>2
<1>9. ASSUME NEW r \in Requests, UpdateRef(r)
      PROVE  GitTypeOK' /\ CrashedByGuard'
  <2>1. /\ pc[r] = "branched" /\ pc' = [pc EXCEPT ![r] = "committed"]
        /\ branches' = [branches EXCEPT ![branch[r]] =
                          [base |-> base[r], by |-> r, created |-> CreatedAt(r)]]
        /\ UNCHANGED <<today, existing, forkReady, base, durable, main, fork, prs>>
    BY <1>9 DEF UpdateRef, Goto
  <2>2. CreatedAt(r) \in Dates
    BY <1>0, <2>1 DEF GitTypeOK, CreatedAt, Dates
  <2>3. \A b \in DOMAIN branches' : branches'[b].created \in Dates
    BY <1>0, <2>1, <2>2 DEF GitTypeOK
  <2>4. pc'[r] = "committed" /\ \A q \in Requests : q # r => pc'[q] = pc[q]
    BY <1>0, <2>1
  <2> QED
    BY <1>0, <2>1, <2>3, <2>4 DEF GitTypeOK, CrashedByGuard
<1>10. ASSUME NEW r \in Requests, OpenPr(r) \/ GitHubFails(r)
       PROVE  GitTypeOK' /\ CrashedByGuard'
  <2>1. /\ pc' = [pc EXCEPT ![r] = "answered"]
        /\ UNCHANGED <<today, existing, forkReady, base, durable, main, fork, branches>>
    BY <1>10 DEF OpenPr, GitHubFails, Goto, gitVars
  <2>2. pc'[r] = "answered" /\ \A q \in Requests : q # r => pc'[q] = pc[q]
    BY <1>0, <2>1
  <2> QED
    BY <1>0, <2>1, <2>2 DEF GitTypeOK, CrashedByGuard
<1>11. ASSUME main' \in Seq(Dates), Len(main') = Len(main) + 1,
              UNCHANGED <<pc, today, existing, forkReady, base, durable, fork, branches>>
       PROVE  GitTypeOK' /\ CrashedByGuard'
  BY <1>0, <1>11 DEF GitTypeOK, CrashedByGuard
<1>12. ASSUME NEW p \in prs, Merge(p)
       PROVE  GitTypeOK' /\ CrashedByGuard'
  <2>1. /\ main' = Append(main, branches[p.branch].created)
        /\ UNCHANGED <<pc, today, existing, forkReady, base, durable, fork, branches>>
    BY <1>12 DEF Merge
  <2>2. branches[p.branch].created \in Dates
    BY <1>0 DEF AdvanceInv, PrInv, BranchOwned, GitTypeOK
  <2> QED
    BY <1>0, <1>11, <2>1, <2>2
<1>13. CASE UpstreamMoves
  <2>1. /\ main' = Append(main, Last(main))
        /\ UNCHANGED <<pc, today, existing, forkReady, base, durable, fork, branches>>
    BY <1>13 DEF UpstreamMoves
  <2> QED
    BY <1>0, <1>11, <2>1, LastDate
<1>14. CASE Restart
  <2>1. /\ pc' = [r \in Requests |-> IF r \in InFlight THEN "dropped" ELSE pc[r]]
        /\ UNCHANGED <<today, existing, forkReady, base, durable, main, fork, branches>>
    BY <1>14 DEF Restart, gitVars
  <2>2. \A r \in Requests : pc'[r] \in {pc[r], "dropped"}
    BY <2>1
  <2> QED
    BY <1>0, <2>1, <2>2 DEF GitTypeOK, CrashedByGuard
<1>15. CASE Tick \/ (\E t \in Texts : Reap(t)) \/ UNCHANGED vars
  <2> UNCHANGED <<pc, today, existing, forkReady, base, durable, main, fork, branches>>
    BY <1>15 DEF Tick, Reap, gitVars, vars
  <2> QED
    BY <1>0 DEF GitTypeOK, CrashedByGuard
<1> QED
  BY <1>1, <1>2, <1>3, <1>4, <1>5, <1>6, <1>7, <1>8, <1>9, <1>10, <1>12, <1>13, <1>14, <1>15
  DEF Next, RequestStep

LEMMA AdvanceInvariance == Spec => []AdvanceInv
<1>1. AdvanceInv /\ [Next]_vars => AdvanceInv'
  BY AdvanceStep, PrStepInv DEF AdvanceInv
<1> QED
  BY AdvanceInit, <1>1, PTL DEF Spec

LEMMA OneAdvances ==
  ASSUME NEW r \in Requests, StepsAhead \in [Requests -> 0..10],
         StepsAhead'[r] < StepsAhead[r],
         \A q \in Requests : q # r => StepsAhead'[q] = StepsAhead[q]
  PROVE  \A q \in Requests : StepsAhead'[q] <= StepsAhead[q]
<1> SUFFICES ASSUME NEW q \in Requests PROVE StepsAhead'[q] <= StepsAhead[q]
  OBVIOUS
<1>1. StepsAhead[q] \in 0..10 /\ StepsAhead' \in [Requests -> 0..10]
  BY DEF StepsAhead
<1>2. StepsAhead'[q] \in 0..10
  BY <1>1
<1>3. CASE q = r
  BY <1>1, <1>2, <1>3
<1>4. CASE q # r
  BY <1>1, <1>4
<1> QED
  BY <1>3, <1>4

\* A step of a request takes it forward, and nobody back.
LEMMA RequestAdvances ==
  ASSUME AdvanceInv, NEW r \in Requests, RequestStep(r)
  PROVE  /\ StepsAhead'[r] < StepsAhead[r]
         /\ \A q \in Requests : StepsAhead'[q] <= StepsAhead[q]
<1> USE DEF localVars
<1>0. /\ pc \in [Requests -> Places] /\ existing \in [Requests -> Dates \cup {Pending}]
      /\ forkReady \in [Requests -> BOOLEAN]
      /\ StepsAhead \in [Requests -> 0..10]
  BY DEF AdvanceInv, PrInv, PrTypeOK, GitTypeOK, StepsAhead
<1>1. ASSUME NEW place, Goto(r, place), UNCHANGED <<existing, forkReady>>,
             \/ pc[r] = "idle" /\ place = "verified"
             \/ pc[r] = "verified" /\ place \in {"asked", "answered", "prepare"}
             \/ pc[r] = "asked" /\ place \in {"answered", "prepare"}
             \/ pc[r] = "prepare" /\ place \in {"synced", "answered"}
             \/ pc[r] = "synced" /\ place \in {"based", "answered"}
             \/ pc[r] = "based" /\ place \in {"branched", "answered"}
             \/ pc[r] = "branched" /\ place \in {"committed", "answered"}
             \/ pc[r] = "committed" /\ place = "answered"
      PROVE  /\ StepsAhead'[r] < StepsAhead[r]
             /\ \A q \in Requests : StepsAhead'[q] <= StepsAhead[q]
  <2>1. pc'[r] = place /\ \A q \in Requests : q # r => pc'[q] = pc[q]
    BY <1>0, <1>1 DEF Goto
  <2>2. \A q \in Requests : q # r => StepsAhead'[q] = StepsAhead[q]
    BY <1>1, <2>1 DEF StepsAhead
  <2>3. StepsAhead'[r] < StepsAhead[r]
    BY <1>1, <2>1 DEF StepsAhead
  <2> QED
    BY <1>0, <2>2, <2>3, OneAdvances
<1>2. CASE ReadService(r)
  <2>1. /\ pc[r] = "prepare" /\ existing[r] = Pending
        /\ existing'[r] = Last(main) /\ pc' = pc /\ forkReady' = forkReady
        /\ \A q \in Requests : q # r => existing'[q] = existing[q]
    BY <1>0, <1>2 DEF ReadService
  <2>2. existing'[r] # Pending
    BY <2>1, LastDate, PendingIsNoDate DEF AdvanceInv
  <2>3. /\ StepsAhead'[r] < StepsAhead[r]
        /\ \A q \in Requests : q # r => StepsAhead'[q] = StepsAhead[q]
    BY <2>1, <2>2 DEF StepsAhead
  <2> QED
    BY <1>0, <2>3, OneAdvances
<1>3. CASE EnsureFork(r)
  <2>1. /\ pc[r] = "prepare" /\ forkReady[r] = FALSE /\ forkReady'[r] = TRUE
        /\ pc' = pc /\ existing' = existing
        /\ \A q \in Requests : q # r => forkReady'[q] = forkReady[q]
    BY <1>0, <1>3 DEF EnsureFork
  <2>2. /\ StepsAhead'[r] < StepsAhead[r]
        /\ \A q \in Requests : q # r => StepsAhead'[q] = StepsAhead[q]
    BY <2>1 DEF StepsAhead
  <2> QED
    BY <1>0, <2>2, OneAdvances
<1>4. CASE Verify(r) \/ AskGuard(r) \/ Consume(r) \/ SyncForkMain(r)
  <2> UNCHANGED <<existing, forkReady>>
    BY <1>4 DEF Verify, AskGuard, Consume, SyncForkMain
  <2> QED
    BY <1>1, <1>4 DEF Verify, AskGuard, Consume, SyncForkMain
<1>5. CASE ReadHead(r) \/ CreateRef(r) \/ UpdateRef(r)
  <2> UNCHANGED <<existing, forkReady>>
    BY <1>5 DEF ReadHead, CreateRef, UpdateRef
  <2> QED
    BY <1>1, <1>5 DEF ReadHead, CreateRef, UpdateRef
<1>6. CASE OpenPr(r) \/ GitHubFails(r)
  <2> UNCHANGED <<existing, forkReady>>
    BY <1>6 DEF OpenPr, GitHubFails
  <2> QED
    BY <1>1, <1>6 DEF OpenPr, GitHubFails
<1>7. CASE GuardFails(r)
  <2>1. /\ pc[r] = "asked" /\ r \in InFlight /\ UNCHANGED <<existing, forkReady>>
        /\ pc' = [q \in Requests |-> IF q \in InFlight THEN "crashed" ELSE pc[q]]
    BY <1>7 DEF GuardFails, InFlight
  <2>2. pc'[r] = "crashed" /\ \A q \in Requests : pc'[q] \in {pc[q], "crashed"}
    BY <2>1
  <2>3. StepsAhead[r] = 8 /\ StepsAhead'[r] = 0
    BY <2>1, <2>2 DEF StepsAhead
  <2>4. \A q \in Requests : StepsAhead'[q] \in {StepsAhead[q], 0}
    BY <2>1, <2>2 DEF StepsAhead
  <2> QED
    BY <1>0, <2>3, <2>4
<1> QED
  BY <1>2, <1>3, <1>4, <1>5, <1>6, <1>7 DEF RequestStep

\* ca-registry.ts, POST /pr: a handler ends after at most ten steps of its own, whatever
\* the other requests, GitHub and the clock do between them, and no step of theirs takes it
\* back.  It is left without an answer only by the store of the durable guard.
THEOREM HandlersEnd ==
  Spec => /\ [](StepsAhead \in [Requests -> 0..10] /\ CrashedByGuard)
          /\ [][\A r \in Requests : /\ StepsAhead'[r] <= StepsAhead[r]
                                    /\ RequestStep(r) => StepsAhead'[r] < StepsAhead[r]]_vars
<1>1. AdvanceInv => StepsAhead \in [Requests -> 0..10] /\ CrashedByGuard
  BY DEF AdvanceInv, StepsAhead
<1>2. AdvanceInv /\ [Next]_vars =>
        [\A r \in Requests : /\ StepsAhead'[r] <= StepsAhead[r]
                             /\ RequestStep(r) => StepsAhead'[r] < StepsAhead[r]]_vars
  <2> SUFFICES ASSUME AdvanceInv, Next, NEW r \in Requests
               PROVE  /\ StepsAhead'[r] <= StepsAhead[r]
                      /\ RequestStep(r) => StepsAhead'[r] < StepsAhead[r]
    OBVIOUS
  <2>1. StepsAhead \in [Requests -> 0..10]
    BY <1>1
  <2>2. RequestStep(r) => StepsAhead'[r] < StepsAhead[r]
    BY RequestAdvances
  <2>3. ASSUME NEW q \in Requests, RequestStep(q)
        PROVE  StepsAhead'[r] <= StepsAhead[r]
    BY <2>3, RequestAdvances
  <2>4. CASE \/ \E p \in prs : Merge(p)
             \/ \E t \in Texts : Reap(t)
             \/ UpstreamMoves \/ Tick
    <3> UNCHANGED <<pc, existing, forkReady>>
      BY <2>4 DEF Merge, Reap, UpstreamMoves, Tick, localVars
    <3> QED
      BY <2>1, <2>2 DEF StepsAhead
  <2>5. CASE Restart
    <3>1. /\ pc'[r] \in {pc[r], "dropped"} /\ UNCHANGED <<existing, forkReady>>
      BY <2>5 DEF Restart, localVars
    <3>2. StepsAhead'[r] \in {StepsAhead[r], 0}
      BY <3>1 DEF StepsAhead
    <3>3. StepsAhead[r] \in 0..10
      BY <2>1
    <3> QED
      BY <2>2, <3>2, <3>3
  <2> QED
    BY <2>2, <2>3, <2>4, <2>5 DEF Next
<1> QED
  BY <1>1, <1>2, AdvanceInvariance, PTL DEF Spec
=============================================================================
