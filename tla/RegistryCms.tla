---------------------------- MODULE RegistryCms ----------------------------
(***************************************************************************)
(* The registry metadata API (backend/src/routes/registries.ts): writes    *)
(* authorized by the on-chain owner (util/registryAuth.ts, util/onchain.ts)*)
(* over a store of whole entries (stores/).                                *)
(*                                                                         *)
(* A write reads the entry, waits for the owner's address, edits its own   *)
(* copy and saves all of it: between two awaits the other writes, the      *)
(* chain and the clock go on.  One registry address is modelled, which may *)
(* exist on several chains.  A signature binds the chain, operation and    *)
(* target; a request that is not signed for what it asks, not within the   *)
(* freshness window, or with a body the route rejects, changes nothing and *)
(* is not a step.  A handler's name is the id of the announcement it makes.*)
(***************************************************************************)
EXTENDS Integers, Sequences, SequencesExt

CONSTANTS
  Requests,          \* write handlers
  Published,         \* ids of announcements that were made earlier
  Chains,
  Accounts,          \* owners of the registry and other signers
  CaHashes,          \* keys of caGuides
  MaxAnnouncements,  \* LIMITS.announcements
  OwnerTtl,          \* OWNER_TTL_MS
  NoEntry, NoChain, NoOwner,
  InitialEntries,    \* what the store may hold at first
  Operations,        \* bound: the write operations that are called
  MaxTime,           \* bound: last value of the clock
  MaxTransfers       \* bound: changes of owner on the chains

Announcements == Requests \cup Published

\* What the store holds of a registry.
Entries == [chain: Chains \cup {NoChain}, announcements: Seq(Announcements),
            guides: SUBSET CaHashes]

ASSUME CmsAssumption ==
  /\ {MaxAnnouncements, MaxTime, MaxTransfers} \subseteq Nat
  /\ OwnerTtl \in Nat \ {0}
  /\ NoChain \notin Chains /\ NoOwner \notin Accounts
  /\ Operations \subseteq {"update-metadata", "post-announcement", "delete-announcement",
                           "put-ca-guide", "delete-ca-guide"}
  /\ NoEntry \notin Entries /\ InitialEntries \subseteq Entries \cup {NoEntry}

VARIABLES
  now,
  owner,        \* IdentityRegistry.owner() on each chain
  replacedAt,   \* history: when each account last stopped being the owner
  transfers,
  entry,        \* the stored document
  ownerCache,   \* per chain the owner and the time stamp of the cache entry
  pc,           \* where each handler is
  request,      \* what it was asked: operation, target, chain and signer
  copy,         \* the entry it has read, then edited
  readAs,       \* history: the entry as it was read
  askedAt,      \* Date.now() at the start of getRegistryOwner
  answer        \* the owner it has got

chainVars == <<owner, replacedAt, transfers>>
handlerVars == <<pc, request, copy, readAs, askedAt, answer>>
vars == <<now, chainVars, entry, ownerCache, handlerVars>>

Times == 0..MaxTime

Targets(op) ==
  CASE op \in {"update-metadata", "post-announcement"} -> {NoEntry}
    [] op = "delete-announcement" -> Announcements
    [] op \in {"put-ca-guide", "delete-ca-guide"} -> CaHashes

Bodies ==
  UNION {[op: {op}, target: Targets(op), chain: Chains \cup {NoChain},
          signer: Accounts] : op \in Operations}

DefaultEntry == [chain |-> NoChain, announcements |-> << >>, guides |-> {}]

Init ==
  /\ now = 0
  /\ owner \in [Chains -> Accounts]
  /\ replacedAt = [c \in Chains |-> [a \in Accounts |-> -OwnerTtl]]
  /\ transfers = 0
  /\ entry \in InitialEntries
  /\ ownerCache = [c \in Chains |-> [owner |-> NoOwner, at |-> 0]]
  /\ pc = [r \in Requests |-> "idle"]
  /\ request = [r \in Requests |-> NoEntry]
  /\ copy = [r \in Requests |-> NoEntry]
  /\ readAs = [r \in Requests |-> NoEntry]
  /\ askedAt = [r \in Requests |-> 0]
  /\ answer = [r \in Requests |-> NoOwner]

Goto(r, place) == pc' = [pc EXCEPT ![r] = place]

\* The handler returns, and what it held is gone.
Return(r) ==
  /\ Goto(r, "done")
  /\ request' = [request EXCEPT ![r] = NoEntry]
  /\ copy' = [copy EXCEPT ![r] = NoEntry]
  /\ readAs' = [readAs EXCEPT ![r] = NoEntry]
  /\ askedAt' = [askedAt EXCEPT ![r] = 0]
  /\ answer' = [answer EXCEPT ![r] = NoOwner]

-----------------------------------------------------------------------------
(* requireOwner *)

Get(r, body) ==
  /\ pc[r] = "idle"
  /\ request' = [request EXCEPT ![r] = body]
  /\ copy' = [copy EXCEPT ![r] = entry]
  /\ readAs' = [readAs EXCEPT ![r] = entry]
  /\ Goto(r, "read")
  /\ UNCHANGED <<now, chainVars, entry, ownerCache, askedAt, answer>>

Registered(e) == e # NoEntry /\ e.chain # NoChain

(* The chain whose owner has to sign: the registered one; a different one in
   the body is refused, and so is a body without one if none is registered. *)
AuthChain(r) == IF Registered(copy[r]) THEN copy[r].chain ELSE request[r].chain

\* Mutant: the chain of the body is taken when there is one.
ChainAcceptedAsSent(r) == AuthChain(r) # NoChain

ChainAccepted(r) ==
  /\ AuthChain(r) # NoChain
  /\ request[r].chain \in {AuthChain(r), NoChain}

(* getRegistryOwner: a young cache entry answers, else the chain is asked. *)
CacheHit(r) ==
  LET c == ownerCache[AuthChain(r)]
  IN  c.owner # NoOwner /\ now - c.at < OwnerTtl

AskOwner(r) ==
  /\ pc[r] = "read"
  /\ ChainAccepted(r)
  /\ askedAt' = [askedAt EXCEPT ![r] = now]
  /\ IF CacheHit(r)
       THEN /\ answer' = [answer EXCEPT ![r] = ownerCache[AuthChain(r)].owner]
            /\ Goto(r, "answered")
       ELSE Goto(r, "asking") /\ UNCHANGED answer
  /\ UNCHANGED <<now, chainVars, entry, ownerCache, request, copy, readAs>>

(* A chain that is missing or not the registered one: 400. *)
RefuseChain(r) ==
  /\ pc[r] = "read"
  /\ ~ChainAccepted(r)
  /\ Return(r)
  /\ UNCHANGED <<now, chainVars, entry, ownerCache>>

(* The node evaluates owner() at its head; its answer comes later. *)
NodeReads(r) ==
  /\ pc[r] = "asking"
  /\ answer' = [answer EXCEPT ![r] = owner[AuthChain(r)]]
  /\ Goto(r, "replying")
  /\ UNCHANGED <<now, chainVars, entry, ownerCache, request, copy, readAs, askedAt>>

\* Mutant: the entry is stamped when the answer arrives.
RpcRepliesStampedLate(r) ==
  /\ pc[r] = "replying"
  /\ ownerCache' = [ownerCache EXCEPT ![AuthChain(r)] =
                      [owner |-> answer[r], at |-> now]]
  /\ Goto(r, "answered")
  /\ UNCHANGED <<now, chainVars, entry, request, copy, readAs, askedAt, answer>>

RpcReplies(r) ==
  /\ pc[r] = "replying"
  /\ ownerCache' = [ownerCache EXCEPT ![AuthChain(r)] =
                      [owner |-> answer[r], at |-> askedAt[r]]]
  /\ Goto(r, "answered")
  /\ UNCHANGED <<now, chainVars, entry, request, copy, readAs, askedAt, answer>>

(* The lookup fails or there is no node for the chain: 503. *)
RpcFails(r) ==
  /\ pc[r] = "asking"
  /\ Return(r)
  /\ UNCHANGED <<now, chainVars, entry, ownerCache>>

-----------------------------------------------------------------------------
(* What each route makes of the entry it has read. *)

Existing(r) == IF copy[r] = NoEntry THEN DefaultEntry ELSE copy[r]

Metadata(r) ==
  LET e == Existing(r)
  IN  IF request[r].chain = NoChain THEN e
                                    ELSE [e EXCEPT !.chain = request[r].chain]

Room(r) == Len(copy[r].announcements) < MaxAnnouncements

Posted(r) == [copy[r] EXCEPT !.announcements = Append(@, r)]

\* findIndex: the first announcement with the id.
Found(r, list) ==
  CHOOSE i \in DOMAIN list :
    list[i] = request[r].target /\ \A j \in 1..(i-1) : list[j] # request[r].target

\* Mutant: splice(idx) for splice(idx, 1).
AnnouncementGoneToEnd(r) ==
  LET list == copy[r].announcements
  IN  [copy[r] EXCEPT !.announcements = SubSeq(list, 1, Found(r, list) - 1)]

AnnouncementGone(r) ==
  LET list == copy[r].announcements
  IN  [copy[r] EXCEPT !.announcements = RemoveAt(list, Found(r, list))]

GuidePut(r) ==
  LET e == Existing(r)
  IN  [e EXCEPT !.chain = IF @ = NoChain THEN request[r].chain ELSE @,
                !.guides = @ \cup {request[r].target}]

GuideGone(r) == [copy[r] EXCEPT !.guides = @ \ {request[r].target}]

\* Is there anything to save, or is the answer 404, 400 or 204 at once?
Applies(r) ==
  CASE request[r].op \in {"update-metadata", "put-ca-guide"} -> TRUE
    [] request[r].op = "post-announcement" -> copy[r] # NoEntry /\ Room(r)
    [] request[r].op = "delete-announcement" ->
         copy[r] # NoEntry /\ request[r].target \in Range(copy[r].announcements)
    [] request[r].op = "delete-ca-guide" ->
         copy[r] # NoEntry /\ request[r].target \in copy[r].guides

Edited(r) ==
  CASE request[r].op = "update-metadata" -> Metadata(r)
    [] request[r].op = "post-announcement" -> Posted(r)
    [] request[r].op = "delete-announcement" -> AnnouncementGone(r)
    [] request[r].op = "put-ca-guide" -> GuidePut(r)
    [] request[r].op = "delete-ca-guide" -> GuideGone(r)

(* The signer is compared with the owner, then the route edits its copy. *)
Edit(r) ==
  /\ pc[r] = "answered"
  /\ answer[r] = request[r].signer
  /\ Applies(r)
  /\ copy' = [copy EXCEPT ![r] = Edited(r)]
  /\ Goto(r, "saving")
  /\ UNCHANGED <<now, chainVars, entry, ownerCache, request, readAs, askedAt, answer>>

Refuse(r) ==
  /\ pc[r] = "answered"
  /\ answer[r] = request[r].signer => ~Applies(r)
  /\ Return(r)
  /\ UNCHANGED <<now, chainVars, entry, ownerCache>>

(* store.save: the whole document. *)
Save(r) ==
  /\ pc[r] = "saving"
  /\ entry' = copy[r]
  /\ Return(r)
  /\ UNCHANGED <<now, chainVars, ownerCache>>

SaveFails(r) ==
  /\ pc[r] = "saving"
  /\ Return(r)
  /\ UNCHANGED <<now, chainVars, entry, ownerCache>>

-----------------------------------------------------------------------------
(* Around the backend. *)

TransferOwner(c, a) ==
  /\ transfers < MaxTransfers
  /\ a # owner[c]
  /\ replacedAt' = [replacedAt EXCEPT ![c][owner[c]] = now]
  /\ owner' = [owner EXCEPT ![c] = a]
  /\ transfers' = transfers + 1
  /\ UNCHANGED <<now, entry, ownerCache, handlerVars>>

Tick ==
  /\ now < MaxTime
  /\ now' = now + 1
  /\ UNCHANGED <<chainVars, entry, ownerCache, handlerVars>>

Next ==
  \/ \E r \in Requests :
       \/ \E body \in Bodies : Get(r, body)
       \/ AskOwner(r) \/ RefuseChain(r) \/ NodeReads(r) \/ RpcReplies(r) \/ RpcFails(r)
       \/ Edit(r) \/ Refuse(r) \/ Save(r) \/ SaveFails(r)
  \/ \E c \in Chains, a \in Accounts : TransferOwner(c, a)
  \/ Tick

Spec == Init /\ [][Next]_vars

-----------------------------------------------------------------------------
\* Who gets a write through is, or was, the owner on the chain: a former owner
\* is accepted for less than OWNER_TTL_MS before the lookup began, although
\* slow lookups overlap and may fill the cache in the wrong order.
OwnerRecently ==
  [][\A r \in Requests :
       pc[r] = "answered" /\ pc'[r] = "saving" =>
         \/ owner[AuthChain(r)] = request[r].signer
         \/ replacedAt[AuthChain(r)][request[r].signer] > askedAt[r] - OwnerTtl]_vars

Saving(r) == pc[r] = "saving" /\ pc'[r] = "done"

\* An entry made through the API records its chain, and a recorded chain is
\* only ever replaced by a write that raced with its registration, never by
\* one that read the entry with that chain in it.
RegisteredChainKept ==
  [][/\ entry = NoEntry /\ entry' # NoEntry => Registered(entry')
     /\ Registered(entry) /\ (entry').chain # entry.chain =>
          \E r \in Requests :
            /\ Saving(r)
            /\ readAs[r] = NoEntry \/ readAs[r].chain # entry.chain]_vars

\* RegistryStore.ts:11, "two interleaved writes to the same registry are
\* last-writer-wins": an announcement or a guide disappears only by its own
\* deletion or under a write that read the entry before it was there, and
\* comes back only under a write that read it before it was deleted.
LossOnlyByOverlap ==
  [][entry # NoEntry /\ entry' # entry =>
       \E r \in Requests :
         LET before == IF readAs[r] = NoEntry THEN DefaultEntry ELSE readAs[r]
         IN  /\ Saving(r)
             /\ \A a \in Range(entry.announcements) \ Range((entry').announcements) :
                  a \in Range(before.announcements) =>
                    request[r].op = "delete-announcement" /\ request[r].target = a
             /\ \A a \in Range((entry').announcements) \ Range(entry.announcements) :
                  a # r => a \in Range(before.announcements)
             /\ \A h \in entry.guides \ (entry').guides :
                  h \in before.guides =>
                    request[r].op = "delete-ca-guide" /\ request[r].target = h]_vars
=============================================================================
