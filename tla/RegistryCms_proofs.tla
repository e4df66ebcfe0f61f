------------------------- MODULE RegistryCms_proofs -------------------------
(***************************************************************************)
(* Who is let write metadata, for any number of handlers, chains and       *)
(* transfers and whatever OWNER_TTL_MS: an answer about the owner is never *)
(* older than the lookup, and a cache entry never older than its stamp.    *)
(* And what a write changes: the copy that a handler saves differs from    *)
(* the entry it read by the one edit that it was asked for.                *)
(***************************************************************************)
EXTENDS RegistryCms, Inductions

Places == {"idle", "read", "asking", "replying", "answered", "saving", "done"}

\* A document that is absent, or names a chain or none.
Sound(e) == e = NoEntry \/ ("chain" \in DOMAIN e /\ e.chain \in Chains \cup {NoChain})

CmsTypeOK ==
  /\ now \in Nat
  /\ owner \in [Chains -> Accounts]
  /\ replacedAt \in [Chains -> [Accounts -> Int]]
  /\ ownerCache \in [Chains -> [owner: Accounts \cup {NoOwner}, at: Nat]]
  /\ pc \in [Requests -> Places]
  /\ DOMAIN request = Requests /\ DOMAIN copy = Requests
  /\ askedAt \in [Requests -> Nat]
  /\ answer \in [Requests -> Accounts \cup {NoOwner}]

Documents ==
  /\ Sound(entry)
  /\ \A r \in Requests :
       /\ Sound(copy[r])
       /\ pc[r] \notin {"idle", "done"} =>
            request[r].chain \in Chains \cup {NoChain} /\ request[r].op \in Operations

\* a is the owner on chain c, or was it until after time t.
OwnerAfter(c, a, t) == a \in Accounts /\ (owner[c] = a \/ replacedAt[c][a] > t)

\* What the cache says was true when the lookup began that filled it.
CacheTrue ==
  \A c \in Chains :
    /\ ownerCache[c].at <= now
    /\ ownerCache[c].owner # NoOwner =>
         OwnerAfter(c, ownerCache[c].owner, ownerCache[c].at - 1)

\* An answer was true when the lookup began, or a TTL before if it is the cache's.
AnswersTrue ==
  \A r \in Requests :
    /\ askedAt[r] <= now
    /\ pc[r] \in {"asking", "replying", "answered"} => AuthChain(r) \in Chains
    /\ pc[r] = "replying" => OwnerAfter(AuthChain(r), answer[r], askedAt[r] - 1)
    /\ pc[r] = "answered" => OwnerAfter(AuthChain(r), answer[r], askedAt[r] - OwnerTtl)

CmsInv == CmsTypeOK /\ Documents /\ CacheTrue /\ AnswersTrue

-----------------------------------------------------------------------------
LEMMA CmsInitInv == Init => CmsInv
<1> SUFFICES ASSUME Init PROVE CmsInv
  OBVIOUS
<1>1. CmsTypeOK
  BY CmsAssumption DEF CmsAssumption, Init, CmsTypeOK, Places
<1>2. Documents
  BY CmsAssumption DEF CmsAssumption, Init, Documents, Sound, Entries
<1>3. CacheTrue /\ AnswersTrue
  BY DEF Init, CacheTrue, AnswersTrue
<1> QED
  BY <1>1, <1>2, <1>3 DEF CmsInv

\* A handler that returns keeps nothing, and others are not concerned.
LEMMA HandlerReturns ==
  ASSUME CmsInv, NEW r \in Requests, Return(r), Sound(entry'),
         UNCHANGED <<now, chainVars, ownerCache>>
  PROVE  CmsInv'
<1> USE DEF chainVars, OwnerAfter
<1>1. /\ pc'[r] = "done" /\ copy'[r] = NoEntry /\ askedAt'[r] = 0
      /\ \A q \in Requests : q # r =>
           /\ pc'[q] = pc[q] /\ copy'[q] = copy[q] /\ request'[q] = request[q]
           /\ askedAt'[q] = askedAt[q] /\ answer'[q] = answer[q]
  BY DEF Return, Goto, CmsInv, CmsTypeOK
<1>2. CmsTypeOK'
  BY DEF Return, Goto, CmsInv, CmsTypeOK, Places
<1>3. Documents'
  BY <1>1 DEF CmsInv, Documents, Sound
<1>4. CacheTrue'
  BY DEF CmsInv, CacheTrue
<1>5. AnswersTrue'
  <2>1. 0 <= now
    BY DEF CmsInv, CmsTypeOK
  <2> SUFFICES ASSUME NEW q \in Requests
      PROVE  (/\ askedAt[q] <= now
              /\ pc[q] \in {"asking", "replying", "answered"} => AuthChain(q) \in Chains
              /\ pc[q] = "replying" => OwnerAfter(AuthChain(q), answer[q], askedAt[q] - 1)
              /\ pc[q] = "answered" =>
                   OwnerAfter(AuthChain(q), answer[q], askedAt[q] - OwnerTtl))'
    BY DEF AnswersTrue
  <2>2. CASE q = r
    BY <1>1, <2>1, <2>2
  <2>3. CASE q # r
    BY <1>1, <2>3 DEF CmsInv, AnswersTrue, AuthChain, Registered
  <2> QED
    BY <2>2, <2>3
<1> QED
  BY <1>2, <1>3, <1>4, <1>5 DEF CmsInv

\* A handler goes on with the document and the request it has.
LEMMA HandlerAsks ==
  ASSUME CmsInv, NEW r \in Requests, NEW place \in Places, Goto(r, place),
         UNCHANGED <<now, chainVars, entry, request, copy>>,
         pc[r] \notin {"idle", "done"}, CmsTypeOK', CacheTrue',
         \A q \in Requests : q # r => askedAt'[q] = askedAt[q] /\ answer'[q] = answer[q],
         askedAt'[r] <= now,
         place \in {"asking", "replying", "answered"} => AuthChain(r) \in Chains,
         place = "replying" => OwnerAfter(AuthChain(r), answer'[r], askedAt'[r] - 1),
         place = "answered" => OwnerAfter(AuthChain(r), answer'[r], askedAt'[r] - OwnerTtl)
  PROVE  CmsInv'
<1> USE DEF chainVars
<1>1. pc'[r] = place /\ \A q \in Requests : q # r => pc'[q] = pc[q]
  BY DEF Goto, CmsInv, CmsTypeOK
<1>2. Documents'
  BY <1>1 DEF CmsInv, Documents, Sound
<1>3. \A q \in Requests : AuthChain(q)' = AuthChain(q)
  BY DEF AuthChain, Registered
<1>4. AnswersTrue'
  BY <1>1, <1>3 DEF CmsInv, AnswersTrue, OwnerAfter
<1> QED
  BY <1>2, <1>4 DEF CmsInv

\* The document that a route makes of a sound one is sound.
LEMMA EditedSound ==
  ASSUME CmsInv, NEW r \in Requests, pc[r] = "answered", Applies(r)
  PROVE  Sound(Edited(r))
<1>1. Sound(copy[r]) /\ request[r].chain \in Chains \cup {NoChain}
  BY DEF CmsInv, Documents
<1>2. "chain" \in DOMAIN Existing(r) /\ Existing(r).chain \in Chains \cup {NoChain}
  BY <1>1 DEF Existing, DefaultEntry, Sound
<1>3. CASE request[r].op = "update-metadata"
  BY <1>1, <1>2, <1>3 DEF Edited, Metadata, Sound
<1>4. CASE request[r].op = "put-ca-guide"
  BY <1>1, <1>2, <1>4 DEF Edited, GuidePut, Sound
<1>5. CASE request[r].op = "post-announcement"
  BY <1>1, <1>5 DEF Applies, Edited, Posted, Sound
<1>6. CASE request[r].op = "delete-announcement"
  BY <1>1, <1>6 DEF Applies, Edited, AnnouncementGone, Sound
<1>7. CASE request[r].op = "delete-ca-guide"
  BY <1>1, <1>7 DEF Applies, Edited, GuideGone, Sound
<1>8. request[r].op \in {"update-metadata", "post-announcement", "delete-announcement",
                        "put-ca-guide", "delete-ca-guide"}
  BY CmsAssumption DEF CmsAssumption, CmsInv, Documents
<1> QED
  BY <1>3, <1>4, <1>5, <1>6, <1>7, <1>8

\* A request of the API carries the chain and the operation of its route.
LEMMA BodyShape ==
  ASSUME NEW body \in Bodies
  PROVE  body.chain \in Chains \cup {NoChain} /\ body.op \in Operations
<1> PICK op \in Operations :
      body \in [op: {op}, target: Targets(op), chain: Chains \cup {NoChain},
               signer: Accounts]
  BY DEF Bodies
<1> QED
  OBVIOUS

LEMMA CmsStepInv ==
  ASSUME CmsInv, [Next]_vars
  PROVE  CmsInv'
<1> USE DEF chainVars
<1>1. ASSUME NEW r \in Requests, NEW body \in Bodies, Get(r, body)
      PROVE  CmsInv'
  <2>1. /\ pc[r] = "idle" /\ pc' = [pc EXCEPT ![r] = "read"]
        /\ request' = [request EXCEPT ![r] = body] /\ copy' = [copy EXCEPT ![r] = entry]
        /\ UNCHANGED <<now, chainVars, entry, ownerCache, askedAt, answer>>
    BY <1>1 DEF Get, Goto
  <2>2. /\ pc'[r] = "read" /\ copy'[r] = entry /\ request'[r] = body
        /\ \A q \in Requests : q # r =>
             pc'[q] = pc[q] /\ copy'[q] = copy[q] /\ request'[q] = request[q]
    BY <2>1 DEF CmsInv, CmsTypeOK
  <2>3. CmsTypeOK'
    BY <2>1 DEF CmsInv, CmsTypeOK, Places
  <2>4. Documents'
    BY <2>1, <2>2, BodyShape DEF CmsInv, Documents, Sound
  <2>5. CacheTrue'
    BY <2>1 DEF CmsInv, CacheTrue, OwnerAfter
  <2>6. AnswersTrue'
    BY <2>1, <2>2 DEF CmsInv, AnswersTrue, OwnerAfter, AuthChain, Registered
  <2> QED
    BY <2>3, <2>4, <2>5, <2>6 DEF CmsInv
<1>2. ASSUME NEW r \in Requests, AskOwner(r)
      PROVE  CmsInv'
  <2>1. /\ pc[r] = "read" /\ ChainAccepted(r)
        /\ askedAt' = [askedAt EXCEPT ![r] = now]
        /\ UNCHANGED <<now, chainVars, entry, ownerCache, request, copy>>
    BY <1>2 DEF AskOwner
  <2>2. AuthChain(r) \in Chains
    BY <2>1 DEF ChainAccepted, AuthChain, Registered, CmsInv, Documents, Sound
  <2>3. /\ askedAt'[r] = now /\ now \in Nat
        /\ \A q \in Requests : q # r => askedAt'[q] = askedAt[q]
    BY <2>1 DEF CmsInv, CmsTypeOK
  <2>4. CacheTrue'
    BY <2>1 DEF CmsInv, CacheTrue, OwnerAfter
  <2>5. CASE CacheHit(r)
    <3> DEFINE c == ownerCache[AuthChain(r)]
    <3>1. /\ answer' = [answer EXCEPT ![r] = c.owner] /\ Goto(r, "answered")
          /\ c.owner # NoOwner /\ now - c.at < OwnerTtl
      BY <1>2, <2>5 DEF AskOwner, CacheHit
    <3>2. c \in [owner: Accounts \cup {NoOwner}, at: Nat]
      BY <2>2 DEF CmsInv, CmsTypeOK
    <3>3. OwnerAfter(AuthChain(r), c.owner, c.at - 1)
      BY <2>2, <3>1 DEF CmsInv, CacheTrue
    <3>4. CmsTypeOK'
      BY <2>1, <2>3, <3>1, <3>2 DEF Goto, CmsInv, CmsTypeOK, Places
    <3>5. answer'[r] = c.owner /\ \A q \in Requests : q # r => answer'[q] = answer[q]
      BY <3>1 DEF CmsInv, CmsTypeOK
    <3>6. replacedAt[AuthChain(r)][c.owner] \in Int /\ c.at \in Nat /\ OwnerTtl \in Nat
      BY <2>2, <3>1, <3>2, CmsAssumption DEF CmsInv, CmsTypeOK, CmsAssumption
    <3>7. OwnerAfter(AuthChain(r), answer'[r], askedAt'[r] - OwnerTtl)
      BY <2>3, <3>1, <3>3, <3>5, <3>6 DEF OwnerAfter
    <3> QED
      BY <2>1, <2>2, <2>3, <2>4, <3>1, <3>4, <3>5, <3>7, HandlerAsks DEF Places
  <2>6. CASE ~CacheHit(r)
    <3>1. answer' = answer /\ Goto(r, "asking")
      BY <1>2, <2>6 DEF AskOwner
    <3>2. CmsTypeOK'
      BY <2>1, <2>3, <3>1 DEF Goto, CmsInv, CmsTypeOK, Places
    <3> QED
      BY <2>1, <2>2, <2>3, <2>4, <3>1, <3>2, HandlerAsks DEF Places
  <2> QED
    BY <2>5, <2>6
<1>3. ASSUME NEW r \in Requests, NodeReads(r)
      PROVE  CmsInv'
  <2>1. /\ pc[r] = "asking" /\ Goto(r, "replying")
        /\ answer' = [answer EXCEPT ![r] = owner[AuthChain(r)]]
        /\ UNCHANGED <<now, chainVars, entry, ownerCache, request, copy, askedAt>>
    BY <1>3 DEF NodeReads
  <2>2. AuthChain(r) \in Chains /\ askedAt[r] <= now
    BY <2>1 DEF CmsInv, AnswersTrue
  <2>3. answer'[r] = owner[AuthChain(r)] /\ owner[AuthChain(r)] \in Accounts
        /\ \A q \in Requests : q # r => answer'[q] = answer[q]
    BY <2>1, <2>2 DEF CmsInv, CmsTypeOK
  <2>4. CmsTypeOK'
    BY <2>1, <2>3 DEF Goto, CmsInv, CmsTypeOK, Places
  <2>5. CacheTrue' /\ OwnerAfter(AuthChain(r), answer'[r], askedAt'[r] - 1)
    BY <2>1, <2>3 DEF CmsInv, CacheTrue, OwnerAfter
  <2> QED
    BY <2>1, <2>2, <2>3, <2>4, <2>5, HandlerAsks DEF Places
<1>4. ASSUME NEW r \in Requests, RpcReplies(r)
      PROVE  CmsInv'
  <2> DEFINE new == [owner |-> answer[r], at |-> askedAt[r]]
  <2>1. /\ pc[r] = "replying" /\ Goto(r, "answered")
        /\ ownerCache' = [ownerCache EXCEPT ![AuthChain(r)] = new]
        /\ UNCHANGED <<now, chainVars, entry, request, copy, askedAt, answer>>
    BY <1>4 DEF RpcReplies
  <2>2. /\ AuthChain(r) \in Chains /\ askedAt[r] <= now
        /\ OwnerAfter(AuthChain(r), answer[r], askedAt[r] - 1)
    BY <2>1 DEF CmsInv, AnswersTrue
  <2>3. new.owner = answer[r] /\ new.at = askedAt[r]
        /\ new \in [owner: Accounts \cup {NoOwner}, at: Nat]
    BY DEF CmsInv, CmsTypeOK
  <2> HIDE DEF new
  <2>4. CmsTypeOK'
    BY <2>1, <2>2, <2>3 DEF Goto, CmsInv, CmsTypeOK, Places
  <2>5. CacheTrue'
    <3>1. ownerCache'[AuthChain(r)] = new
          /\ \A c \in Chains : c # AuthChain(r) => ownerCache'[c] = ownerCache[c]
      BY <2>1, <2>2 DEF CmsInv, CmsTypeOK
    <3> QED
      BY <2>1, <2>2, <2>3, <3>1 DEF CmsInv, CacheTrue, OwnerAfter
  <2>6. OwnerAfter(AuthChain(r), answer'[r], askedAt'[r] - OwnerTtl)
    <3>1. /\ OwnerTtl \in Nat \ {0} /\ askedAt[r] \in Nat
          /\ replacedAt[AuthChain(r)][answer[r]] \in Int
      BY <2>2, CmsAssumption DEF CmsInv, CmsTypeOK, CmsAssumption, OwnerAfter
    <3> QED
      BY <2>1, <2>2, <3>1 DEF OwnerAfter
  <2> QED
    BY <2>1, <2>2, <2>4, <2>5, <2>6, HandlerAsks DEF Places
<1>5. ASSUME NEW r \in Requests, Edit(r)
      PROVE  CmsInv'
  <2>1. /\ pc[r] = "answered" /\ pc' = [pc EXCEPT ![r] = "saving"] /\ Applies(r)
        /\ copy' = [copy EXCEPT ![r] = Edited(r)]
        /\ UNCHANGED <<now, chainVars, entry, ownerCache, request, askedAt, answer>>
    BY <1>5 DEF Edit, Goto
  <2>2. /\ pc'[r] = "saving" /\ copy'[r] = Edited(r)
        /\ \A q \in Requests : q # r => pc'[q] = pc[q] /\ copy'[q] = copy[q]
    BY <2>1 DEF CmsInv, CmsTypeOK
  <2>3. CmsTypeOK'
    BY <2>1 DEF CmsInv, CmsTypeOK, Places
  <2>4. Documents'
    BY <2>1, <2>2, EditedSound DEF CmsInv, Documents, Sound
  <2>5. CacheTrue'
    BY <2>1 DEF CmsInv, CacheTrue, OwnerAfter
  <2>6. AnswersTrue'
    BY <2>1, <2>2 DEF CmsInv, AnswersTrue, OwnerAfter, AuthChain, Registered
  <2> QED
    BY <2>3, <2>4, <2>5, <2>6 DEF CmsInv
<1>6. ASSUME NEW r \in Requests, RefuseChain(r) \/ RpcFails(r) \/ Refuse(r) \/ SaveFails(r)
      PROVE  CmsInv'
  <2> Return(r) /\ UNCHANGED <<now, chainVars, entry, ownerCache>>
    BY <1>6 DEF RefuseChain, RpcFails, Refuse, SaveFails
  <2> Sound(entry')
    BY DEF CmsInv, Documents
  <2> QED
    BY HandlerReturns
<1>7. ASSUME NEW r \in Requests, Save(r)
      PROVE  CmsInv'
  <2> Return(r) /\ Sound(entry') /\ UNCHANGED <<now, chainVars, ownerCache>>
    BY <1>7 DEF Save, CmsInv, Documents
  <2> QED
    BY HandlerReturns
<1>8. ASSUME NEW c \in Chains, NEW a \in Accounts, TransferOwner(c, a)
      PROVE  CmsInv'
  <2>1. /\ replacedAt' = [replacedAt EXCEPT ![c] = [replacedAt[c] EXCEPT ![owner[c]] = now]]
        /\ owner' = [owner EXCEPT ![c] = a]
        /\ UNCHANGED <<now, entry, ownerCache, pc, request, copy, askedAt, answer>>
    BY <1>8 DEF TransferOwner, handlerVars
  <2>2. CmsTypeOK' /\ Documents'
    BY <2>1 DEF CmsInv, CmsTypeOK, Documents, Sound
  <2>3. ASSUME NEW d \in Chains, NEW b, NEW t \in Int, t < now, OwnerAfter(d, b, t)
        PROVE  OwnerAfter(d, b, t)'
    BY <2>1, <2>3 DEF OwnerAfter, CmsInv, CmsTypeOK
  <2>4. CacheTrue'
    <3> SUFFICES ASSUME NEW d \in Chains, ownerCache[d].owner # NoOwner
        PROVE  OwnerAfter(d, ownerCache[d].owner, ownerCache[d].at - 1)'
      BY <2>1 DEF CmsInv, CacheTrue
    <3>1. ownerCache[d].at \in Nat /\ ownerCache[d].at <= now /\ now \in Nat
          /\ OwnerAfter(d, ownerCache[d].owner, ownerCache[d].at - 1)
      BY DEF CmsInv, CmsTypeOK, CacheTrue
    <3>2. ownerCache[d].at - 1 \in Int /\ ownerCache[d].at - 1 < now
      BY <3>1
    <3> QED
      BY <2>1, <2>3, <3>1, <3>2 DEF OwnerAfter
  <2>5. AnswersTrue'
    <3> SUFFICES ASSUME NEW r \in Requests
        PROVE  /\ askedAt'[r] <= now'
               /\ pc'[r] \in {"asking", "replying", "answered"} => AuthChain(r)' \in Chains
               /\ pc'[r] = "replying" => OwnerAfter(AuthChain(r), answer[r], askedAt[r] - 1)'
               /\ pc'[r] = "answered" =>
                    OwnerAfter(AuthChain(r), answer[r], askedAt[r] - OwnerTtl)'
      BY DEF AnswersTrue
    <3>1. AuthChain(r)' = AuthChain(r) /\ answer'[r] = answer[r] /\ askedAt'[r] = askedAt[r]
      BY <2>1 DEF AuthChain, Registered
    <3>2. /\ askedAt[r] \in Nat /\ askedAt[r] <= now /\ now \in Nat
          /\ OwnerTtl \in Nat \ {0}
      BY CmsAssumption DEF CmsAssumption, CmsInv, CmsTypeOK, AnswersTrue
    <3>3. /\ askedAt[r] - 1 \in Int /\ askedAt[r] - 1 < now
          /\ askedAt[r] - OwnerTtl \in Int /\ askedAt[r] - OwnerTtl < now
      BY <3>2
    <3>4. pc[r] \in {"asking", "replying", "answered"} => AuthChain(r) \in Chains
      BY DEF CmsInv, AnswersTrue
    <3>5. CASE pc[r] = "replying"
      <4>1. OwnerAfter(AuthChain(r), answer[r], askedAt[r] - 1)
        BY <3>5 DEF CmsInv, AnswersTrue
      <4> QED
        BY <2>1, <2>3, <3>1, <3>2, <3>3, <3>4, <3>5, <4>1 DEF OwnerAfter
    <3>6. CASE pc[r] = "answered"
      <4>1. OwnerAfter(AuthChain(r), answer[r], askedAt[r] - OwnerTtl)
        BY <3>6 DEF CmsInv, AnswersTrue
      <4> QED
        BY <2>1, <2>3, <3>1, <3>2, <3>3, <3>4, <3>6, <4>1 DEF OwnerAfter
    <3>7. CASE pc[r] \notin {"replying", "answered"}
      BY <2>1, <3>1, <3>2, <3>4, <3>7
    <3> QED
      BY <3>5, <3>6, <3>7
  <2> QED
    BY <2>2, <2>4, <2>5 DEF CmsInv
<1>9. ASSUME Tick \/ UNCHANGED vars
      PROVE  CmsInv'
  <2>1. /\ now' = now \/ now' = now + 1
        /\ UNCHANGED <<chainVars, entry, ownerCache, pc, request, copy, askedAt, answer>>
    BY <1>9 DEF Tick, vars, handlerVars
  <2>2. CmsTypeOK' /\ Documents'
    BY <2>1 DEF CmsInv, CmsTypeOK, Documents, Sound
  <2>3. CacheTrue'
    BY <2>1 DEF CmsInv, CmsTypeOK, CacheTrue, OwnerAfter
  <2>4. AnswersTrue'
    BY <2>1 DEF CmsInv, CmsTypeOK, AnswersTrue, OwnerAfter, AuthChain, Registered
  <2> QED
    BY <2>2, <2>3, <2>4 DEF CmsInv
<1> QED
  BY <1>1, <1>2, <1>3, <1>4, <1>5, <1>6, <1>7, <1>8, <1>9 DEF Next

LEMMA CmsInvariance == Spec => []CmsInv
<1>1. CmsInv /\ [Next]_vars => CmsInv'
  BY CmsStepInv
<1> QED
  BY CmsInitInv, <1>1, PTL DEF Spec

-----------------------------------------------------------------------------
\* registryAuth.ts: a write is let through for the owner on the chain, or for one who was
\* the owner less than OWNER_TTL_MS before the lookup began, whatever the order in which
\* lookups of the owner overlap and fill the cache.
THEOREM OwnerRecentlyHolds == Spec => OwnerRecently
<1>1. ASSUME CmsInv, [Next]_vars, NEW r \in Requests, pc[r] = "answered", pc'[r] = "saving"
      PROVE  \/ owner[AuthChain(r)] = request[r].signer
             \/ replacedAt[AuthChain(r)][request[r].signer] > askedAt[r] - OwnerTtl
  <2>1. Edit(r)
    <3> USE <1>1
    <3>1. pc \in [Requests -> Places] /\ pc' # pc
      BY DEF CmsInv, CmsTypeOK
    <3>2. ASSUME NEW q \in Requests, NEW place, Goto(q, place)
          PROVE  q = r /\ place = "saving"
      BY <3>1, <3>2 DEF Goto
    <3>3. ASSUME NEW q \in Requests, NEW body \in Bodies, Get(q, body)
          PROVE  FALSE
      BY <3>2, <3>3 DEF Get
    <3>4. ASSUME NEW q \in Requests, AskOwner(q)
          PROVE  FALSE
      BY <3>2, <3>4 DEF AskOwner
    <3>5. ASSUME NEW q \in Requests, RefuseChain(q) \/ RpcFails(q) \/ Refuse(q) \/ Save(q)
                                   \/ SaveFails(q)
          PROVE  FALSE
      BY <3>2, <3>5 DEF RefuseChain, RpcFails, Refuse, Save, SaveFails, Return
    <3>6. ASSUME NEW q \in Requests, NodeReads(q) \/ RpcReplies(q)
          PROVE  FALSE
      BY <3>2, <3>6 DEF NodeReads, RpcReplies
    <3>7. ASSUME NEW q \in Requests, Edit(q)
          PROVE  q = r
      BY <3>2, <3>7 DEF Edit
    <3>8. ~Tick /\ ~(\E c \in Chains, a \in Accounts : TransferOwner(c, a))
          /\ ~(UNCHANGED vars)
      BY <3>1 DEF Tick, TransferOwner, vars, handlerVars
    <3> QED
      BY <3>3, <3>4, <3>5, <3>6, <3>7, <3>8 DEF Next
  <2>2. answer[r] = request[r].signer
    BY <2>1 DEF Edit
  <2>3. OwnerAfter(AuthChain(r), answer[r], askedAt[r] - OwnerTtl)
    BY <1>1 DEF CmsInv, AnswersTrue
  <2> QED
    BY <2>2, <2>3 DEF OwnerAfter
<1>2. CmsInv /\ [Next]_vars =>
        [\A r \in Requests :
           pc[r] = "answered" /\ pc'[r] = "saving" =>
             \/ owner[AuthChain(r)] = request[r].signer
             \/ replacedAt[AuthChain(r)][request[r].signer] > askedAt[r] - OwnerTtl]_vars
  BY <1>1
<1> QED
  BY CmsInvariance, <1>2, PTL DEF Spec, OwnerRecently

-----------------------------------------------------------------------------
(* What a write changes: the inductive invariant. *)

Before(r) == IF readAs[r] = NoEntry THEN DefaultEntry ELSE readAs[r]

\* What a handler has made of the entry that it read.
Follows(r) ==
  /\ copy[r] \in Entries
  /\ readAs[r] = NoEntry => Registered(copy[r])
  /\ Registered(readAs[r]) => copy[r].chain = readAs[r].chain
  /\ \A a \in Range(Before(r).announcements) \ Range(copy[r].announcements) :
       request[r].op = "delete-announcement" /\ request[r].target = a
  /\ \A a \in Range(copy[r].announcements) : a = r \/ a \in Range(Before(r).announcements)
  /\ \A h \in Before(r).guides \ copy[r].guides :
       request[r].op = "delete-ca-guide" /\ request[r].target = h

\* Until it is edited the copy is what was read; the chain was compared with it.
AsRead(r) ==
  /\ pc[r] \notin {"idle", "done"} =>
       request[r] \in Bodies /\ readAs[r] \in Entries \cup {NoEntry}
  /\ pc[r] \in {"read", "asking", "replying", "answered"} => copy[r] = readAs[r]
  /\ pc[r] \in {"asking", "replying", "answered"} => ChainAccepted(r)
  /\ pc[r] = "saving" => Follows(r)
  /\ readAs[r] # NoEntry => entry # NoEntry

WritesInv ==
  /\ entry \in Entries \cup {NoEntry}
  /\ DOMAIN readAs = Requests
  /\ \A r \in Requests : AsRead(r)

\* splice(idx, 1): the list is as before, without the element at one index.
LEMMA RemoveAtSound ==
  ASSUME NEW T, NEW s \in Seq(T), NEW i \in DOMAIN s
  PROVE  /\ RemoveAt(s, i) \in Seq(T)
         /\ Range(RemoveAt(s, i)) \subseteq Range(s)
         /\ Range(s) \ {s[i]} \subseteq Range(RemoveAt(s, i))
<1> DEFINE n == Len(s)
           p == SubSeq(s, 1, i - 1)
           q == SubSeq(s, i + 1, n)
           r == p \o q
<1>1. n \in Nat /\ DOMAIN s = 1..n /\ i \in 1..n /\ \A k \in 1..n : s[k] \in T
  OBVIOUS
<1>2. /\ p \in Seq(T) /\ Len(p) = i - 1 /\ \A k \in 1..(i - 1) : p[k] = s[k]
  BY <1>1, SubSeqProperties
<1>3. /\ q \in Seq(T) /\ Len(q) = n - i /\ \A k \in 1..(n - i) : q[k] = s[i + k]
  BY <1>1, SubSeqProperties
<1> HIDE DEF p, q
<1>4. /\ r \in Seq(T) /\ Len(r) = n - 1 /\ DOMAIN r = 1..(n - 1)
      /\ \A k \in 1..(n - 1) : r[k] = IF k < i THEN s[k] ELSE s[k + 1]
  <2>1. /\ r \in Seq(T) /\ Len(r) = Len(p) + Len(q)
        /\ \A k \in 1..(Len(p) + Len(q)) : r[k] = IF k <= Len(p) THEN p[k] ELSE q[k - Len(p)]
    BY <1>2, <1>3, ConcatProperties
  <2> HIDE DEF r, n
  <2>2. Len(p) + Len(q) = n - 1 /\ n - 1 \in Nat
    BY <1>1, <1>2, <1>3
  <2>3. DOMAIN r = 1..(n - 1)
    BY <2>1, <2>2
  <2>4. ASSUME NEW k \in 1..(n - 1)
        PROVE  r[k] = IF k < i THEN s[k] ELSE s[k + 1]
    <3>1. r[k] = IF k <= i - 1 THEN p[k] ELSE q[k - (i - 1)]
      BY <1>2, <2>1, <2>2
    <3>2. CASE k < i
      <4> k \in 1..(i - 1)
        BY <1>1, <3>2
      <4> QED
        BY <1>2, <3>1, <3>2
    <3>3. CASE ~(k < i)
      <4> k - (i - 1) \in 1..(n - i) /\ i + (k - (i - 1)) = k + 1 /\ ~(k <= i - 1)
        BY <1>1, <3>3
      <4> QED
        BY <1>3, <3>1, <3>3
    <3> QED
      BY <3>2, <3>3
  <2> QED
    BY <2>1, <2>2, <2>3, <2>4
<1>5. RemoveAt(s, i) = r
  BY DEF RemoveAt, p, q
<1> HIDE DEF n, r
<1>6. ASSUME NEW k \in 1..(n - 1)
      PROVE  r[k] \in Range(s)
  <2> k \in 1..n /\ k + 1 \in 1..n
    BY <1>1
  <2> QED
    BY <1>1, <1>4 DEF Range
<1>7. ASSUME NEW k \in 1..n, k # i
      PROVE  s[k] \in Range(r)
  <2>1. CASE k < i
    <3> k \in 1..(n - 1) /\ r[k] = s[k]
      BY <1>1, <1>4, <2>1
    <3> QED
      BY <1>4 DEF Range
  <2>2. CASE k > i
    <3>1. k - 1 \in 1..(n - 1) /\ ~(k - 1 < i) /\ (k - 1) + 1 = k
      BY <1>1, <2>2
    <3>2. r[k - 1] = s[k]
      BY <1>4, <3>1
    <3> QED
      BY <1>4, <3>1, <3>2 DEF Range
  <2> QED
    BY <1>1, <1>7, <2>1, <2>2
<1>8. \A y \in Range(r) : \E k \in 1..(n - 1) : y = r[k]
  BY <1>4 DEF Range
<1>9. \A y \in Range(s) \ {s[i]} : \E k \in 1..n : k # i /\ y = s[k]
  BY <1>1 DEF Range
<1> QED
  BY <1>4, <1>5, <1>6, <1>7, <1>8, <1>9

\* findIndex finds an announcement with the id, if there is one.
LEMMA FoundSound ==
  ASSUME NEW T, NEW list \in Seq(T), NEW r, request[r].target \in Range(list)
  PROVE  Found(r, list) \in DOMAIN list /\ list[Found(r, list)] = request[r].target
<1> DEFINE target == request[r].target
           U == {i \in DOMAIN list : list[i] = target}
<1>1. U # {} /\ U \subseteq Nat
  BY DEF Range
<1>2. PICK i \in U : \A j \in U : i <= j
  <2> HIDE DEF U
  <2> QED
    BY <1>1, LeastNumber
<1>3. ASSUME NEW j \in 1..(i - 1)
      PROVE  list[j] # target
  BY <1>2
<1>4. \E k \in DOMAIN list : list[k] = target /\ \A j \in 1..(k - 1) : list[j] # target
  BY <1>3
<1> QED
  BY <1>4 DEF Found

\* Every edit keeps what it was not asked to change.
LEMMA EditFollows ==
  ASSUME CmsInv, WritesInv, NEW r \in Requests, Edit(r)
  PROVE  Follows(r)'
<1> DEFINE e == copy[r]
           op == request[r].op
           new == Edited(r)
<1>1. /\ pc[r] = "answered" /\ Applies(r) /\ copy'[r] = new
      /\ readAs' = readAs /\ request' = request
  BY DEF Edit, CmsInv, CmsTypeOK
<1>2. /\ e = readAs[r] /\ e \in Entries \cup {NoEntry} /\ request[r] \in Bodies
      /\ ChainAccepted(r)
  BY <1>1 DEF WritesInv, AsRead
<1>3. /\ op \in Operations /\ request[r].chain \in Chains \cup {NoChain}
      /\ op = "put-ca-guide" => request[r].target \in CaHashes
  <2> PICK o \in Operations :
        request[r] \in [op: {o}, target: Targets(o), chain: Chains \cup {NoChain},
                        signer: Accounts]
    BY <1>2 DEF Bodies
  <2> QED
    BY DEF Targets
<1>4. Before(r)' = Existing(r) /\ Existing(r) \in Entries
  BY <1>1, <1>2 DEF Before, Existing, DefaultEntry, Entries
<1>5. NoEntry \notin Entries /\ NoChain \notin Chains
  BY CmsAssumption DEF CmsAssumption
<1>6. /\ e = NoEntry => request[r].chain # NoChain
      /\ Registered(e) => request[r].chain \in {e.chain, NoChain}
      /\ e # NoEntry /\ e.chain = NoChain => request[r].chain # NoChain
  BY <1>2 DEF ChainAccepted, AuthChain, Registered
<1> DEFINE x == Existing(r)
<1>7. /\ new \in Entries
      /\ e = NoEntry => new.chain # NoChain
      /\ Registered(e) => new.chain = e.chain
      /\ \A a \in Range(x.announcements) \ Range(new.announcements) :
           op = "delete-announcement" /\ request[r].target = a
      /\ \A a \in Range(new.announcements) : a = r \/ a \in Range(x.announcements)
      /\ \A h \in x.guides \ new.guides : op = "delete-ca-guide" /\ request[r].target = h
  <2> x.chain \in Chains \cup {NoChain} /\ x.announcements \in Seq(Announcements)
      /\ x.guides \subseteq CaHashes /\ (e = NoEntry => x.chain = NoChain)
      /\ (e # NoEntry => x = e)
    BY <1>4 DEF Entries, Existing, DefaultEntry
  <2>1. CASE op = "update-metadata"
    <3>1. new = IF request[r].chain = NoChain THEN x ELSE [x EXCEPT !.chain = request[r].chain]
      BY <2>1 DEF Edited, Metadata
    <3>2. new.announcements = x.announcements /\ new.guides = x.guides /\ new \in Entries
      BY <1>3, <1>4, <3>1 DEF Entries
    <3>3. new.chain = IF request[r].chain = NoChain THEN x.chain ELSE request[r].chain
      BY <1>4, <3>1 DEF Entries
    <3> QED
      BY <1>6, <3>2, <3>3
  <2>2. CASE op = "put-ca-guide"
    <3> DEFINE ch == IF x.chain = NoChain THEN request[r].chain ELSE x.chain
               more == x.guides \cup {request[r].target}
    <3>1. new = [x EXCEPT !.chain = ch, !.guides = more]
      BY <2>2 DEF Edited, GuidePut
    <3>2. ch \in Chains \cup {NoChain} /\ more \subseteq CaHashes
      BY <1>3, <2>2
    <3>3. /\ e = NoEntry => ch # NoChain
          /\ Registered(e) => ch = e.chain
          /\ x.guides \subseteq more
      BY <1>6 DEF Registered
    <3> HIDE DEF ch, more, x, e
    <3>4. new.announcements = x.announcements /\ new.guides = more /\ new.chain = ch
      BY <1>4, <3>1 DEF Entries, x
    <3>5. new \in Entries
      BY <1>4, <3>1, <3>2 DEF Entries, x
    <3> QED
      BY <3>3, <3>4, <3>5
  <2>3. CASE op = "post-announcement"
    <3>1. e # NoEntry /\ new = [x EXCEPT !.announcements = Append(x.announcements, r)]
      BY <1>1, <2>3 DEF Applies, Edited, Posted
    <3>2. r \in Announcements
      BY DEF Announcements
    <3> DEFINE list == x.announcements
               longer == Append(list, r)
    <3>3. longer \in Seq(Announcements) /\ Range(longer) = Range(list) \cup {r}
      <4> HIDE DEF list
      <4>1. list \in Seq(Announcements)
        BY DEF list
      <4>2. /\ Len(list) \in Nat /\ DOMAIN list = 1..Len(list)
            /\ longer \in Seq(Announcements) /\ DOMAIN longer = 1..(Len(list) + 1)
            /\ longer[Len(list) + 1] = r /\ \A k \in 1..Len(list) : longer[k] = list[k]
        BY <3>2, <4>1
      <4> HIDE DEF longer
      <4> QED
        BY <4>2 DEF Range
    <3> HIDE DEF longer
    <3>4. /\ new.announcements = longer /\ new \in Entries
          /\ new.guides = x.guides /\ new.chain = x.chain
      BY <1>4, <3>1, <3>3 DEF Entries, longer
    <3> QED
      BY <3>1, <3>3, <3>4
  <2>4. CASE op = "delete-announcement"
    <3> DEFINE list == x.announcements
               shorter == RemoveAt(list, Found(r, list))
    <3>1. e # NoEntry /\ request[r].target \in Range(list)
      BY <1>1, <2>4 DEF Applies
    <3>2. new = [x EXCEPT !.announcements = shorter]
      BY <2>4, <3>1 DEF Edited, AnnouncementGone
    <3>3. /\ shorter \in Seq(Announcements) /\ Range(shorter) \subseteq Range(list)
          /\ Range(list) \ {request[r].target} \subseteq Range(shorter)
      <4>1. list \in Seq(Announcements)
        OBVIOUS
      <4> HIDE DEF list
      <4> QED
        BY <3>1, <4>1, FoundSound, RemoveAtSound
    <3> HIDE DEF shorter
    <3>4. /\ new.announcements = shorter /\ new \in Entries
          /\ new.guides = x.guides /\ new.chain = x.chain
      BY <1>4, <3>2, <3>3 DEF Entries
    <3> QED
      BY <2>4, <3>1, <3>3, <3>4
  <2>5. CASE op = "delete-ca-guide"
    <3>1. e # NoEntry /\ new = [x EXCEPT !.guides = x.guides \ {request[r].target}]
      BY <1>1, <2>5 DEF Applies, Edited, GuideGone
    <3>2. /\ new.announcements = x.announcements /\ new \in Entries
          /\ new.guides = x.guides \ {request[r].target} /\ new.chain = x.chain
      BY <1>4, <3>1 DEF Entries
    <3> QED
      BY <2>5, <3>1, <3>2
  <2> QED
    BY <1>3, <2>1, <2>2, <2>3, <2>4, <2>5, CmsAssumption DEF CmsAssumption
<1> HIDE DEF x, new, op
<1> QED
  BY <1>1, <1>2, <1>4, <1>5, <1>7 DEF Follows, Registered, x, op

\* A handler that is not concerned stays as it is; an entry that is there stays there.
LEMMA OthersStay ==
  ASSUME WritesInv, NEW r \in Requests, UNCHANGED <<pc[r], request[r], copy[r], readAs[r]>>,
         entry # NoEntry => entry' # NoEntry
  PROVE  AsRead(r)'
<1>1. AsRead(r)
  BY DEF WritesInv
<1>2. Follows(r) => Follows(r)'
  BY DEF Follows, Before, Registered
<1>3. ChainAccepted(r) => ChainAccepted(r)'
  BY DEF ChainAccepted, AuthChain, Registered
<1> QED
  BY <1>1, <1>2, <1>3 DEF AsRead

LEMMA WritesInitInv == Init => WritesInv
  BY CmsAssumption DEF CmsAssumption, Init, WritesInv, AsRead

LEMMA WritesStepInv ==
  ASSUME CmsInv, WritesInv, [Next]_vars
  PROVE  WritesInv'
<1>1. /\ DOMAIN pc = Requests /\ DOMAIN request = Requests
      /\ DOMAIN copy = Requests /\ DOMAIN readAs = Requests
  BY DEF CmsInv, CmsTypeOK, WritesInv
<1>2. NoEntry \notin Entries
  BY CmsAssumption DEF CmsAssumption
<1> DEFINE Others(r) == \A q \in Requests : q # r => UNCHANGED <<pc[q], request[q], copy[q], readAs[q]>>
<1>3. ASSUME NEW r \in Requests, Others(r), AsRead(r)', DOMAIN readAs' = Requests,
             entry' \in Entries \cup {NoEntry}, entry # NoEntry => entry' # NoEntry
      PROVE  WritesInv'
  <2> ASSUME NEW q \in Requests
      PROVE  AsRead(q)'
    BY <1>3, OthersStay
  <2> QED
    BY <1>3 DEF WritesInv
<1>4. ASSUME NEW r \in Requests, NEW body \in Bodies, Get(r, body)
      PROVE  WritesInv'
  <2>1. /\ pc' = [pc EXCEPT ![r] = "read"] /\ request' = [request EXCEPT ![r] = body]
        /\ copy' = [copy EXCEPT ![r] = entry] /\ readAs' = [readAs EXCEPT ![r] = entry]
        /\ entry' = entry
    BY <1>4 DEF Get, Goto
  <2>2. /\ pc'[r] = "read" /\ request'[r] = body /\ copy'[r] = entry /\ readAs'[r] = entry
        /\ Others(r) /\ DOMAIN readAs' = Requests
    BY <1>1, <2>1
  <2> HIDE DEF Others
  <2>3. AsRead(r)'
    BY <2>1, <2>2 DEF AsRead, WritesInv
  <2> QED
    BY <1>3, <2>1, <2>2, <2>3 DEF WritesInv
<1>5. ASSUME NEW r \in Requests, NEW place, Goto(r, place), UNCHANGED <<entry, request, copy, readAs>>,
             \/ pc[r] = "read" /\ ChainAccepted(r) /\ place \in {"asking", "answered"}
             \/ pc[r] = "asking" /\ place = "replying"
             \/ pc[r] = "replying" /\ place = "answered"
      PROVE  WritesInv'
  <2>1. pc'[r] = place /\ Others(r)
    BY <1>1, <1>5 DEF Goto
  <2>2. ChainAccepted(r)
    BY <1>5 DEF WritesInv, AsRead
  <2>3. ChainAccepted(r)'
    BY <1>5, <2>2 DEF ChainAccepted, AuthChain, Registered
  <2> HIDE DEF Others
  <2>4. AsRead(r)'
    BY <1>5, <2>1, <2>3 DEF AsRead, WritesInv
  <2> QED
    BY <1>3, <1>5, <2>1, <2>4 DEF WritesInv
<1>6. ASSUME NEW r \in Requests, Edit(r)
      PROVE  WritesInv'
  <2>1. /\ pc[r] = "answered" /\ pc' = [pc EXCEPT ![r] = "saving"]
        /\ copy' = [copy EXCEPT ![r] = Edited(r)] /\ UNCHANGED <<entry, request, readAs>>
    BY <1>6 DEF Edit, Goto
  <2>2. pc'[r] = "saving" /\ Others(r)
    BY <1>1, <2>1
  <2>3. Follows(r)'
    BY <1>6, EditFollows
  <2> HIDE DEF Others
  <2>4. AsRead(r)'
    BY <2>1, <2>2, <2>3 DEF AsRead, WritesInv
  <2> QED
    BY <1>3, <2>1, <2>2, <2>4 DEF WritesInv
<1>7. ASSUME NEW r \in Requests, Return(r), entry' = entry \/ Save(r)
      PROVE  WritesInv'
  <2>1. /\ pc'[r] = "done" /\ readAs'[r] = NoEntry /\ Others(r)
        /\ DOMAIN readAs' = Requests
    BY <1>1, <1>7 DEF Return, Goto
  <2>2. entry' \in Entries \cup {NoEntry} /\ (entry # NoEntry => entry' # NoEntry)
    BY <1>2, <1>7 DEF Save, WritesInv, AsRead, Follows
  <2> HIDE DEF Others
  <2>3. AsRead(r)'
    BY <2>1 DEF AsRead
  <2> QED
    BY <1>3, <2>1, <2>2, <2>3
<1>8. ASSUME UNCHANGED <<entry, pc, request, copy, readAs>>
      PROVE  WritesInv'
  <2> ASSUME NEW q \in Requests
      PROVE  AsRead(q)'
    BY <1>8, OthersStay
  <2> QED
    BY <1>8 DEF WritesInv
<1> HIDE DEF Others
<1>9. ASSUME NEW r \in Requests, AskOwner(r) \/ NodeReads(r) \/ RpcReplies(r)
      PROVE  WritesInv'
  BY <1>5, <1>9 DEF AskOwner, NodeReads, RpcReplies
<1>10. ASSUME NEW r \in Requests,
              RefuseChain(r) \/ RpcFails(r) \/ Refuse(r) \/ Save(r) \/ SaveFails(r)
       PROVE  WritesInv'
  BY <1>7, <1>10 DEF RefuseChain, RpcFails, Refuse, Save, SaveFails
<1>11. ASSUME \/ Tick
              \/ \E c \in Chains, a \in Accounts : TransferOwner(c, a)
              \/ UNCHANGED vars
       PROVE  WritesInv'
  BY <1>8, <1>11 DEF Tick, TransferOwner, vars, handlerVars
<1> QED
  BY <1>4, <1>6, <1>9, <1>10, <1>11 DEF Next

LEMMA WritesInvariance == Spec => [](CmsInv /\ WritesInv)
<1>1. CmsInv /\ WritesInv /\ [Next]_vars => WritesInv'
  BY WritesStepInv
<1> QED
  BY CmsInvariance, WritesInitInv, <1>1, PTL DEF Spec

\* The entry changes by a save only.
LEMMA OnlySaves ==
  ASSUME CmsInv, [Next]_vars, entry' # entry
  PROVE  \E r \in Requests : Save(r) /\ Saving(r)
<1>1. PICK r \in Requests : Save(r)
  BY DEF Next, Get, AskOwner, RefuseChain, NodeReads, RpcReplies, RpcFails, Edit, Refuse,
     SaveFails, TransferOwner, Tick, vars
<1>2. Saving(r)
  BY <1>1 DEF Save, Saving, Return, Goto, CmsInv, CmsTypeOK
<1> QED
  BY <1>1, <1>2

\* PUT /:address and the guides: for any number of overlapping writes, an entry records
\* its chain, and only a write that read the entry without that chain replaces it.
THEOREM RegisteredChainKeptHolds == Spec => RegisteredChainKept
<1>1. ASSUME CmsInv, WritesInv, [Next]_vars
      PROVE  /\ entry = NoEntry /\ entry' # NoEntry => Registered(entry')
             /\ Registered(entry) /\ (entry').chain # entry.chain =>
                  \E r \in Requests :
                    /\ Saving(r)
                    /\ readAs[r] = NoEntry \/ readAs[r].chain # entry.chain
  <2>1. CASE entry' = entry
    BY <2>1
  <2>2. CASE entry' # entry
    <3>1. PICK r \in Requests : Save(r) /\ Saving(r)
      BY <1>1, <2>2, OnlySaves
    <3>2. pc[r] = "saving" /\ entry' = copy[r]
      BY <3>1 DEF Save
    <3>3. Follows(r) /\ (readAs[r] # NoEntry => entry # NoEntry)
      BY <1>1, <3>2 DEF WritesInv, AsRead
    <3>4. entry = NoEntry => Registered(entry')
      BY <3>2, <3>3 DEF Follows
    <3>5. ASSUME Registered(entry), (entry').chain # entry.chain, readAs[r] # NoEntry
          PROVE  readAs[r].chain # entry.chain
      BY <3>2, <3>3, <3>5 DEF Follows, Registered
    <3> QED
      BY <3>1, <3>4, <3>5
  <2> QED
    BY <2>1, <2>2
<1>2. CmsInv /\ WritesInv /\ [Next]_vars =>
        [/\ entry = NoEntry /\ entry' # NoEntry => Registered(entry')
         /\ Registered(entry) /\ (entry').chain # entry.chain =>
              \E r \in Requests :
                /\ Saving(r)
                /\ readAs[r] = NoEntry \/ readAs[r].chain # entry.chain]_vars
  BY <1>1
<1> QED
  BY WritesInvariance, <1>2, PTL DEF Spec, RegisteredChainKept

\* RegistryStore.ts:11, "last-writer-wins", and nothing worse: for any number of writes
\* that overlap in any way, what disappears was deleted or not yet there when the write
\* read the entry, and what comes back was still there when it did.
THEOREM LossOnlyByOverlapHolds == Spec => LossOnlyByOverlap
<1> DEFINE Lost(r) ==
             LET before == IF readAs[r] = NoEntry THEN DefaultEntry ELSE readAs[r]
             IN  /\ Saving(r)
                 /\ \A a \in Range(entry.announcements) \ Range((entry').announcements) :
                      a \in Range(before.announcements) =>
                        request[r].op = "delete-announcement" /\ request[r].target = a
                 /\ \A a \in Range((entry').announcements) \ Range(entry.announcements) :
                      a # r => a \in Range(before.announcements)
                 /\ \A h \in entry.guides \ (entry').guides :
                      h \in before.guides =>
                        request[r].op = "delete-ca-guide" /\ request[r].target = h
<1>1. ASSUME CmsInv, WritesInv, [Next]_vars, entry' # entry
      PROVE  \E r \in Requests : Lost(r)
  <2>1. PICK r \in Requests : Save(r) /\ Saving(r)
    BY <1>1, OnlySaves
  <2>2. pc[r] = "saving" /\ entry' = copy[r]
    BY <2>1 DEF Save
  <2>3. Follows(r)
    BY <1>1, <2>2 DEF WritesInv, AsRead
  <2>4. Lost(r)
    BY <2>1, <2>2, <2>3 DEF Follows, Before
  <2> QED
    BY <2>4
<1>2. CmsInv /\ WritesInv /\ [Next]_vars =>
        [entry # NoEntry /\ entry' # entry => \E r \in Requests : Lost(r)]_vars
  BY <1>1
<1> QED
  BY WritesInvariance, <1>2, PTL DEF Spec, LossOnlyByOverlap
=============================================================================
