# zk-X509 in TLA+

zk-X509 lets the holder of an X.509 certificate prove to an Ethereum contract, in
zero knowledge, that a trusted CA has certified a key they control. This directory
holds TLA+ models of the parts of it that keep state or compute something that two
parts must agree on, the TLC runs that check them on small instances, and proofs,
checked by TLAPS, of what holds for every size.

Paths in this text are relative to the repository's root. `PROJECT.json` says, per
definition, which lines of the code it models (`map`), which run checks which
property (`runs`), which plausible bug each property would catch (`mutants`), and
where the code is hard to test (`hazards`).

    tlc -config MCClients.cfg MCClients       # any run: cfg and module from PROJECT.json
    tlapm IdentityRegistry_proofs.tla        # proofs: likewise the other _proofs, Inductions

## 1. The system

| Part | State it keeps | Operations | Modelled in |
|---|---|---|---|
| `contracts/src/IdentityRegistry.sol` | nullifier owners, revoked nullifiers, expiry per wallet; CA list, two roots, grace period; CRL root, field constraints, program key, pause, owner | `register`, `reRegister`, `revokeIdentity`, CA / CRL / policy administration, two-step ownership | `IdentityRegistry` (extends `CaTrust`, `ZkCircuit`, `CaMerkle`), `CaRecompute`, `IdentityLedger` |
| `contracts/src/RegistryFactory.sol` | published program keys, registry index, fee configuration, beacon | `createRegistry` (pays the fee, refunds, deploys), `updateProgramVKey`, `setFeeConfig`, beacon upgrade, ownership | `RegistryFactory` |
| `program/src/main.rs` | none; a function from certificate and host inputs to public values | the assertions of the circuit | `ZkCircuit`, `CaMerkle!MembershipRoot`, `CrlTree!CircuitAccepts` |
| `script/src/merkle.rs`, `script/src/smt.rs` | none | CA tree and path; CRL tree and non-inclusion proof | `CaMerkle`, `CrlTree` |
| `backend`: `POST /api/ca-registry/pr` | replay guard (memory or Firestore); branches and pull requests on GitHub | verify, consume signature, fork, sync, branch, commit, open pull request | `CaPullRequest` |
| `backend`: `/api/registries` | one JSON document per registry, cache of on-chain owners | five owner-authorised writes | `RegistryCms` |
| `frontend`: wallet session and account pages | account, signer, contract, owner flag; a list or form per page | load the session, follow the wallet, load and cancel, register or move | `Portal` |
| `frontend`: lists of registries; `sdk` | rows on screen | read addresses, batch the values, fall back, cut into rows | `RegistryReaders` |
| `frontend/app/create` | fee, form, status of the deployment | read the fee, approve, create, list | `CreatePage` |
| `frontend` admin console | CA list, selection, modal, forms, announcements | add and remove CAs, publish them, save settings, post | `AdminConsole`, `AdminForms` |
| `desktop` | one wizard state; scanned identities on the Rust side | connect, scan, configure, prove, consent | `DesktopProving` |
| `script/src/bin/server.rs` (signing), `prover-server.rs` | certificates found on the machine; compliance log | sign, refresh, check consent, prove, log | `DelegatedProver` |
| `script/src/bin/main.rs`, `evm.rs`, `stdin.rs`, `onchain.rs` | none | read the chain, prove, submit | not modelled |
| `backend` chat assistant, deployment scripts, CI | rate limiter; configuration | | not modelled |

How they interact:

- A **wallet** asks a host to prove with a certificate. The host reads CAs, CRL and
  constraints from the chain, proves, and the wallet sends the proof in a later
  block. So every value the proof was made for may be outdated when it is checked.
- A **registry** checks the proof's public values and asks the SP1 verifier with a
  program key that is its own or, if it was made by the factory, the factory's
  current one.
- The **registry's owner** changes CAs, CRL root, constraints, key, pause and owner
  at any time. Applications read `isVerified(wallet)`.
- The **backend** accepts writes that the on-chain owner signed. It asks a node who
  the owner is, keeps the answer for a minute, and stores documents whole. For
  a CA publication it drives GitHub through a fork shared by all requests.
- The **clients** hold copies: of the account the wallet has selected, of the contract's
  state, of documents of the backend. Every copy is read by a call that may be answered
  late, out of order or not at all, and every button acts on the copy.

What is hard, and the properties that make each part correct:

- *Registry.* Long sequences of legal calls: a slot (key, wallet index) is used,
  expires, is renewed, moved to another wallet, revoked. Every verified wallet must
  rest on exactly one live slot bound to it; a key has at most
  `MAX_WALLETS_PER_CERT` verified wallets; revocation is final; a wallet's status is
  never lost for a reason outside it; time is gained only from a certificate the
  policy *of that block* accepts.
- *CA list and grace period.* In-place tree and swap-and-pop batches; two roots and
  one time stamp. List, membership map and root must stay in step, the root just
  displaced must be honoured through the period and no longer.
- *Factory.* External calls in the middle of a creation: re-entrance, refusal, fee
  changes. Key history, index and balance must stay exact.
- *CRL tree.* Boundaries of a sorted list and padding of odd levels: no host is
  turned away, and a host's proof passes only while the registry's list does not revoke it.
- *Backend.* Awaits between check and use, stale owners, lost updates, resent
  signatures, restarts, failing GitHub calls, unanswered requests.
- *Portal and lists.* Effects that are cancelled or not, answers for an account that is no
  longer selected, batches that tear into single calls. What is shown must belong to the
  account on screen and have been true; once all is quiet it must be current.
- *Deployment page.* A fee that changes between display, approval and transaction, and is
  shown through decimals read by a call of its own; a form that is not locked, a
  confirmation that gets lost. Nobody pays more than was shown.
- *Admin console.* Removal by index of a list read earlier, guides that follow the list by
  calls of their own, saves of whole forms, transactions that are mined and reported as
  failed. What was not named or edited must stay.
- *Desktop wizard.* Steps that unmount while a command runs, state that outlives the step
  it is about, indices into a store that is replaced. Consent comes before the certificate
  leaves; the certificate used is the one shown.
- *Signing and proving as services.* Certificates are named by an index into a list that
  a refresh replaces, between two requests or in the middle of one; a proof takes long and
  its answer may get lost. Whoever gets registered is on record with their own consent.

## 2. The modules

### IdentityRegistry, CaTrust, ZkCircuit, CaMerkle: the registry

A contract call is one atomic step of its sender. A call that reverts changes nothing
and is no step; so the guards of an action are the `require`s of the function and of
everything it calls, and its primed variables the storage it writes. `now` is
`block.timestamp`; `Tick` is time between blocks.

`CaTrust` is the CA part (`caLeaves`, `caExists`, `caMerkleRoot`,
`previousCaMerkleRoot`, `caMerkleRootUpdatedAt`, `caRootGracePeriod` under the
contract's names). `addCA` and `removeCA` are batches of one: the code differs only
in that. Every list operation ends in `Rotate(MerkleRoot(caLeaves'))`, as in the code.
The history variable `displaced` remembers when each root last stopped being current;
only properties read it. `RemovesTheNamed` follows a batch of indices through the
swap-and-pop of every round. `CaTrust` can be run alone (`CaSpec`), and
`IdentityRegistry!UpdateCas` wraps its steps in `onlyOwner`.

`ZkCircuit` says which public values *some* proof exists for: the set
`ProvableValues` of all `Commit(c, x)` with `Satisfied(c, x)`, over the certificates
`c` and all host inputs `x`. Host inputs are free, so the model covers dishonest
hosts, hosts that are out of date, proofs for other registries and other builds of
the circuit, and proofs that anyone replays. It is not stateful: a proof made long
ago is in the same set. `Register` and `ReRegister` take any provable values from
any sender.

`IdentityRegistry` adds the rest: `nullifierOwner`, `revokedNullifiers`,
`verifiedUntil`, policy, ownership. `programVKey` is what `_getVKey()` returns; with
`factoryMode` the factory moves it (`FactoryPublishesVKey`) and the owner cannot.
The history variable `lastSlot` is the nullifier an address last used.

`IdentityLedger` is the abstract specification, for readers of `isVerified`: each
address has at most one credential (a slot), a slot serves at most one address, a
banned slot never serves again. `IdentityRegistry!ImplementsLedger` maps the
credential of an address to `Credential(w)`: its last slot, or none when its expiry
is zero. An expired wallet keeps its credential in this mapping; expiry is not an
event in the contract either. One freedom of the ledger is due to the code: revoking
or moving a slot clears the wallet it is bound to, *whichever* slot that wallet was
last verified through (`Leaves`).

### CaRecompute: the root loop

`_recomputeCaMerkleRoot` step by step, because it writes each level over the one it is
reading. One action per loop body or branch. It is compared with the host's
layer-by-layer tree of `CaMerkle`, which is what `CaTrust` uses for the root. There
`Layers` is the function from levels to their nodes, `Height` the first level of one node,
where `build_tree` stops, and `Indices` the `idx /= 2` of the path extraction.

### CrlTree: revocation lists

Host and circuit side of the non-inclusion proof. The children are not sorted here,
so a node is a pair. `sort` and `dedup` are modelled by what they do: a hash stands at the
place that the number of smaller ones gives it. What the circuit gets is the output of
`prove_non_inclusion`; the registry then compares the committed root with the one it
publishes, which a relayer made of a list of its own. The circuit does not tie the two
indices to the two paths, nor does it check the length of a path
(`program/src/main.rs:400-430, 595`): that they belong together is up to the host. So the
properties are about hosts that run this code, and nothing is said of inputs of another
origin.

### RegistryFactory

`createRegistry` writes its state only after two external calls. So a creation is a
*frame* on a call stack: while the recipient or the refunded sender has control, it may
call any function of the factory, create again, or refuse. `RevertCreate` restores
the snapshot the frame began with. The fee is read before the first call and again for
the refund, as in the code. All else is one step.

### CaPullRequest

One program counter per request; an action is what runs between two awaits. The
`existing` and `forkReady` flags are the two calls of the `Promise.all`. GitHub is
external: commits of upstream are numbered, the fork holds a prefix, a branch may not
start from a commit the fork lacks, names must be free, merges need the file to be
unchanged since the base. `durable` says which guard is configured: Firestore, which
survives a restart and may fail, or the map in memory, which forgets when an entry expires
or the process restarts. Firestore's entry carries `expiresAt`, counted from the call
(`asked`), and is removed some time after it or never (`Reap`). The guard's key is the
lowercased *text* of a signature, so texts are what the model has (`Texts`), and a text is
what the property is about: one signature has several encodings, which the guard takes for
different ones. A failing store rejects outside the route's `try`, which nobody handles;
Node ends the process and all requests under way with it (`GuardFails`).

### RegistryCms

One program counter per write. `Get` reads the document, `AskOwner` uses the cache or
begins a lookup, `NodeReads` is the moment the node evaluates `owner()`, `RpcReplies`
stores the answer with the time at which the lookup *began*, `Edit` compares the
signer and edits the handler's copy, `Save` writes the whole copy. An announcement is
named by the request that posted it. `owner` on the
chains and the clock move between any two of them.

### Groundwork: the parts that stand alone

`CaRecompute`, `CrlTree` and `RegistryFactory` share nothing; `Groundwork` puts them
into one run, where a behaviour is about one of them (`part`) and the others rest.

`Lists` holds the one helper on sequences that several modules need (`Keep`, the
`filter()` of the code), `Inductions` the principles that the proofs use.

### Portal, RegistryReaders, DesktopProving, DelegatedProver: Clients

`Clients` composes the four in the same way (`client`). `Null`, `Parties` and `KeyStore`
hold the constants they have in common.

`Portal` is `lib/wallet.tsx` and the effects of the pages under it. An answer of the
wallet, an `accountsChanged` event, each awaited call of a load, and each read of a page
is a step. React runs the effects of a state change with it, so an effect is part of the
step that changes its dependencies (`PageEffect`, `IdEffect`), and a cancelled read is
dropped where its cleanup runs. The loads of the session are not cancelled in the code
and are not here. A registration may also be mined and its `wait()` fail, as when the user
speeds it up (`WaitFails`): the page shows an error and reads nothing again. `reRegister`
takes the status of the wallet the certificate was bound to (`Registered`). The history
variables `crossed`, `failed`, `idCrossed`, `idFailed` and `idMissed` say when the code
gives no guarantee, and the properties name them.

`RegistryReaders` is the reading pattern of the three lists and the SDK: addresses, then
`multicallRead`, then rows cut from one flat result by offset. The batch is one moment of
the chain; its fallback is one call per value, each at its own moment and each free to
fail. The chain and the backend's listing change in between (`Change`). `was` collects
what each registry has been since the batch began.

`DesktopProving` is the reducer state of `App.tsx`, the four steps, and the commands of
`src-tauri`. Entering a step mounts its component, which captures `params` and registers
a progress listener; leaving unmounts it and leaves the command running, whose answer
goes into the shared state all the same.

`DelegatedProver` is the two servers. In the signing server each endpoint is a step, since
it takes the lock on the identities once; `sign_ownership` takes it twice and is two
(`HashOwnership`, `SignOwnership`), and so is a refresh, which scans before it takes it.
A signature is a record of its key and of what it is over. The program that asks for
signatures is not in the repository: it may ask in any order, at any index, and send parts
of different requests together. In the prover server a request is accepted (`Prove`), and
proved or not in a later step: `proving` holds what is under way. `Proved` writes the
compliance record before the answer, as in the code, and either may be lost. `Register` is
the part of the registry that concerns the age of the proof; the wallet that sends it is
the one it was made for. Requests that either server refuses change nothing.

### CreatePage, AdminConsole, AdminForms: OwnerPages

`CreatePage` keeps one record per click (`attempts`), since `handleDeploy` goes on when
its page is left and another may start. `Collects` is what the factory's `_collectFee`
takes. The fee on screen is `formatUnits` of the fee that was read: `UnitOf` is what the
smallest unit of a token counts in such an amount, and `tokenUnit` stands for the decimals
that the page has, 18 at first, then those of the last answer of an effect that is not
cancelled. An error of that effect hides the fee, and `canDeploy` asks for none of it
(`FeeTold`).

`AdminConsole` has the contract's CA list (`leaves`), the copy on screen, the selection,
the modal with its steps (transaction, signature, pull request), the batch removal, and
the calls that create and delete guides. Readings on their way are the lists they will
show. `refreshing` is the reload of the wallet session that follows a change and ends in
one more reading. `BatchUnseen` and `ModalTxUnseen` are transactions that are mined while
`tx.wait()` fails: `execTx` and the modal count them as failed, and guides and list stay as
they are. `ChangeElsewhere` is the same owner in a second session, or such a transaction
mined later.

`AdminForms` looks at one form at a time: what is stored, what the inputs hold, what each
field was filled with (`base`) and which have been edited since (`touched`). A save sends
all of the inputs. A save of any form may be stored and reported as failed (`SaveFailed`).
A call or a transaction that fails forever is one that is never answered in both modules.

## 3. The runs

Every run takes two to three minutes at most with two workers.

| Run | Question | States |
|---|---|---|
| `groundwork` | Does the in-place loop end, equal the host's tree, and accept exactly the paths of listed CAs (all lists of up to six distinct CAs)? Is every unrevoked serial provable, and does the registry take a host's proof only while its own list does not revoke the serial (every two lists of up to three serials out of four, any order, with repetitions)? Do key history and refunds survive re-entrance, refusals and fee changes? | 199,000 |
| `ca_trust` | CA list, map, root, what a batch removes, and the grace window under all owner operations: three CAs, batches of up to three, one root set by hand, two periods. | 41,000 |
| `ca_default_grace` | Does a registry have the documented default period? **No**, see section 5. | |
| `registry_lifecycle` | Two keys (one certified twice), three wallets, an owner that may change: ledger invariants and refinement. | 245,000 |
| `registry_policy` | One wallet, two CAs, CRL, constraint, key, pause, factory mode, a second registry whose proofs are around too: is time gained only soundly? | 353,000 |
| `factory_vkey` | Do registries keep their deployment-time key? **No**, see section 5. | |
| `ca_pr` | Two requests, two texts of signatures, both guards, failures anywhere, a restart or crash, entries that are reaped, merges. | 259,000 |
| `ca_pr_guard` | Is every request answered? **No**. | |
| `cms` | Two overlapping writes of all five kinds, slow lookups, a change of owner, two chains. | 1,527,000 |
| `clients` | Are session, lists and form those of the account on screen; are rows true and verified registries shown; does a certificate leave only with consent, and the one that was shown; is everyone who registers with the prover server's proof on record there? | 2,059,000 |
| `desktop_consent` | Does consent always come before the certificate leaves? **No**. | |
| `owner_pages` | Do removals hit what they name, guides stay with listed CAs, saves keep what was not edited, and the console catch up with what is stored? Does nobody pay more than was shown for a deployment, and is its outcome told truly? | 2,425,000 |

What the client properties except is as much a result as what they state: with two loads of
the session crossing, signer and account on screen may differ until the next load; with a
list changed in another session a removal by index may hit another CA; a registration or
removal that was mined while its wait failed is not on screen until something else reads; a
form whose reading failed saves defaults; tokens approved by an attempt that stopped can pay
a raised fee, and a click that comes while the decimals are in error or not there yet pays a
fee that was not told. Each exception is a named history variable or disjunct of the
property, and without it TLC finds the behaviour.

Bounds, and why they are enough to see the interesting cases:

- *Time.* `registry_lifecycle` runs to block time 3 with certificates that end at 1, 2
  and 3 and proofs that live one tick: registrations expire, are renewed with a second
  certificate of the same key, and a wallet gets a second slot after its first has
  lapsed. `ca_trust` runs to 4 with periods 1 and 2: two full windows, and a
  lengthening of the period after one has closed.
- *`ca_trust` also stops after three displaced roots* (`CONSTRAINT FewDisplaced`):
  `displaced` alone would multiply the states by the orders in which roots were left,
  and three suffice for back-and-forth rotation through list, hand-set and empty root.
  The constraint cuts behaviours, so it can hide violations that need four rotations;
  the three properties on the window and root are proved without it. The CAs are
  interchangeable (`SYMMETRY`): the root of a list is built from its hashes alone, and no
  liveness is checked in that run.
- *Wallets.* `MaxWallets = 1` with indices 0 and 1 offered: the limit is met at once.
  Three addresses let a slot move away from a wallet that has since been verified
  through another key, with a third left over.
- *`registry_policy`* has a single address, since `GrantSound` is about one grant at a
  time; in exchange all of the policy varies.
- *`groundwork`.* Lengths 0 to 6 have every mix of odd and even levels of heights 0 to 3.
  In the factory two nested creations, a recipient that is a contract and also the owner,
  fees of 0, 1, 2 of a coin and of a token; one implementation, since nothing but the
  beacon reads it.
- *`ca_pr`.* `FreshWindow` and `Ttl` are one tick each: in the code, too, they are equal
  (ten minutes), so that a signature can be fresh up to two windows while an entry of the
  guard lasts one. Time runs to 1: one text is dated 0, its entry made at 0 expires while it
  is still fresh; the other is dated 2, ahead of the clock. Two commits are enough for a
  base the fork does not have. Branch names are the clock in milliseconds, so equal names
  are common here and rare in life: the harder case.
- *`cms`.* Two handlers; TTL and time of one tick: an answer asked for at 0 may arrive,
  and be used, at 0 or at 1, is young at 0 and too old at 1, and the owner may
  change before, between and after. Two ticks were also checked (5.1 million states)
  and show nothing else. Two announcements are the limit, one of which may be there
  at first, so that a deletion has a neighbour to spare and a third post is one too
  many. Handlers and accounts are interchangeable
  (`SYMMETRY`); no liveness is checked in that run.
- *`clients`.* Two accounts, one of which owns the registry: the least for a load, a list
  or an identity to be of the wrong one; three switches of the wallet for the lists, one
  for the registration form, which has a transaction besides; three loads, so that one is
  overtaken by two; once they are used up the form sends nothing, since what follows a
  confirmation is another load. Two registries, the first in any state but never verified beyond the
  block, the second on every list or just made, so that an offset that is off by one lands
  in another registry's values; one change and one failing call during a read, and both
  paths of the batch. Two registries for the wizard,
  one that requires its prover and one that offers it; a key store that loses its first
  certificate between scans, so that an index changes its meaning; four commands. For
  the servers six requests and calls, where a registration needs five, so that one refresh
  or one second signature fits in; consents and proofs live one tick of two, so that a
  fresh consent can date a proof that is too old, and a fast clock one of the future.
- *`owner_pages`.* A contract with two of three CAs, a file for the third, two
  transactions of the console and one change elsewhere, two readings on their way at a
  time: enough to remove, add again, remove behind a stale list, and for two readings to
  cross; with no transaction left nothing is selected or filed for one. For the settings all seven forms, two fields of two values, one change
  elsewhere, and a third reading and second save where the form is not filled from the
  contract; two announcements and three calls about them. Two clicks on deploy, ether and
  two tokens of three different decimals, three amounts of the first two (none, some,
  more) and one of the third, fees and decimals read until the last click, and three
  moves: edits of the form (three are needed to name it and choose a use case beyond its
  limit), changes of the fee (one, and a new connection, for the page to read the metadata of
  two tokens), disconnecting and leaving.

`CHECK_DEADLOCK FALSE` is used where the modelled program ends: the loop of
`CaRecompute`, the one check of `CrlTree`, the backend runs, whose handlers return
(each handles one request), and the clients, whose users may stop.

**Fairness.** Two specifications state it, each only where the code's execution justifies
it. `Groundwork`: weak fairness of the step of the root loop, since one EVM call runs on to
its end. `CaPullRequest`: weak fairness per request that has begun, since Node's event loop
resumes every handler whose await has settled, and the calls awaited settle, with an error
at the latest when the client gives up. Nothing is assumed fair of users, maintainers,
restarts or the clock. No liveness is claimed of the contracts: nobody is obliged to call
them; nor of the clients, where an answer may stay away forever: `IdentityCatchesUp`,
`ListCatchesUp` and `FormCatchesUp` say instead what must hold whenever nothing is on its
way.

## 4. What is proved

Eight modules hold the proofs, next to the models they are about. What they show holds for
every set of addresses, keys, certificates, CAs, registries and requests, for lists of any
length, every wallet limit, grace period, age and TTL, and for an unbounded clock: the
bounds in the guards (`MaxTime`, `MaxCalls`, ...) are any natural numbers and no lemma uses
that one is small. Every safety property that a passing run checks is a theorem here, and so
is every action property; only liveness is left to TLC.

*Induction* (`Inductions`). Much of the code is loops over lists: a batch that removes by
index, a tree built level by level, `filter`, a call stack. The induction theorems of the
library take an operator as a parameter, which the provers used here cannot instantiate, so
`Inductions` states induction for sets instead: a set of naturals that has 0 and is closed
under successors is all of them (`SetInduction`, `IntervalInduction`), and a function that
is defined by its predecessor exists (`Recursion`). A lemma then puts the set of the indices
at which the claim holds. For the same reason the modules write their loops as recursive
functions, and `Lists!Keep` is `filter()` written in that way.

*The grace window* (`IdentityRegistry_proofs`). `TrustWindow` is not inductive: it says
nothing of when the previous root was displaced if it is not accepted at the moment, and the
owner may lengthen the period. `TrustInv` strengthens it by `PreviousRecorded`: the previous
root, accepted or not, left its place exactly when the time stamp says. One lemma,
`AdminStepRotates`, reduces all owner operations to two cases: one `Rotate` and the period
unchanged, or roots unchanged. From it follow

- `TrustWindowHolds`: an accepted root that is not current was displaced no longer ago than
  the grace period;
- `InFlightRootSurvivesHolds`: no step makes the root that was current unacceptable;
- `RootFollowsListHolds`: a step that changes the list leaves the new list's root.

*The list of CAs* (the same module). `removeCAs` removes one index after another, each from
the list the one before left. `Matched` says that a list has n different CAs and that the
map has exactly those; one swap-and-pop takes a matched list of n to one of n - 1
(`RemoveOneMatched`), and induction over the rounds of the loop does the rest
(`RemoveAllMatched`). Hence `CaListConsistentHolds`. The same induction carries that the
places up to the next index are as the caller saw them, since every index is below the one
before: `RemovesTheNamedHolds`.

*The ledger* (the same module). The inductive invariant is `RegInv`: `LedgerTypeOK` and
`VerifiedWalletBacked`. The second conjunct is the strengthening that all the rest needs: it
ties a wallet's expiry, which the code keeps per wallet, to the one nullifier that justifies
it, which the code keeps per nullifier. Only three kinds of step touch the ledger
(`StepCases`), and each is proved to keep the tie: a registration takes a free slot, a move
clears the wallet it leaves, a revocation clears the wallet bound. From it:

- `LedgerTypeCorrect`, `VerifiedWalletBackedHolds`;
- `WalletLimitHolds`: the wallets of a key map one-to-one to wallet indices below the limit;
- `SlotLifecycleHolds`, `LiveWalletUndisturbedHolds`;
- `GrantSoundHolds`, which also uses `RegistryTrustInvariance` (the invariant of `CaTrust`
  carried over to the registry) and `ProvableCertificate` (behind all provable values is a
  certificate that meets the circuit's assertions);
- `LedgerRefinement`: `Spec => ImplementsLedger`, step by step: a registration or a move is
  a `Grant`, a revocation a `Ban`, all else a stutter.

*The two trees* (`Groundwork_proofs`). First, of a tree of any number of leaves: each layer
has half as many nodes, rounded up, so that one has a single node (`PlacesExist`,
`HeightSound`), and the path of a leaf leads to that node (`PathLeadsToRoot`,
`CrlPathLeadsToRoot`). Then

- the contract's loop. `LoopInv` says what the array holds in the middle of a level
  (`AtLayer`): up to the node being written it is the layer above, from the one being
  written on still the layer below. A node is written at or below the place of its first
  child, so nothing is overwritten before it is read. A hash of two nodes determines them as
  a pair without order (`HashPairInjective`), so of two CAs only one leads to the root by a
  given path (`MembershipRootInjective`). Hence
  `PathsProveMembershipHolds`. `LoopIsBounded` is the part of termination that is not about
  fairness: every step of the loop leaves fewer to take, 3n + 1 at most for n CAs, and
  before the end the condition of some step holds;
- the revocation tree. The sorted leaves are given by rank, and `SortedSound` shows that
  this is the ascending list of all of them. A serial that is not a leaf has both
  neighbours, thanks to the sentinels (`HostProofWorks`), so that the circuit accepts the
  host's proof: `HostProofAcceptedHolds`. The registry compares roots only. A root says how
  high its tree is and which leaves it has, and padding adds only copies of the last one
  (`CrlRootOfLeaf`, `SameRootSameLeaves`), so that two lists have one root exactly if they
  are one set (`RootIsTheSet`). `CrlInv` carries this through the steps to
  `TakenIsUnrevokedHolds`.

*The factory* (`RegistryFactory_proofs`). A creation that reverts restores the state it
found. So `FactoryInv` says of every state saved on the call stack what it says of the
current one: keys in order (`KeysInOrder`), index in order (`IndexInOrder`). A step either
pushes a snapshot of a sound state, restores one, or changes the current state soundly. From
it `FactoryTypeCorrect`, `KeyHistoryHolds`, `IndexHolds`. For the balance it is not enough
that each saved state is sound in itself: `SavedExact` says that a saved balance is what the
frames *below* it account for, and with it the sum over the stack is right again after a
revert at any depth: `RefundsExactHolds`.

*The clients* (`Clients_proofs`). Four modules that share nothing but constants.

The wizard. The three properties speak of a proof that runs while the user may click, and of
what its answer leaves. `WizardInv` strengthens them by

- `OneProof`: a running proof is the only one, and step 3 is mounted with the parameters it
  was started with. The views of a running proof offer neither Back nor Reset and every
  other one is guarded by the status; without this an answer could arrive after its step was
  left;
- `StoreShown`: the list on screen is the one in the store of the Rust side, or empty after
  a reset, and the last scan on its way is the one in the store;
- `SelectionInList`, `SelectionKept`: past its step the selection still names the
  certificate that was confirmed, unless a scan was running when the user went on;
- `ConsentKept`: a delegated step past its gate has its prover agreed to, unless it was
  mounted after another proof.

Each action is one step of `WizardStepInv`. From it `CertificateAsShownHolds`,
`ConsentUnlessRemountedHolds`, `ShownResultCurrentHolds` and `OneProofHolds`. The exceptions
in the statements are real; the run `desktop_consent` shows the second.

The portal. `SessionOfAccount` speaks of a quiet wallet only. Its strengthening `SessionInv`
says what the messages and loads on their way will do: `QueueTells` (the last message tells
the account the site may see, so that an empty queue means the account on screen is the
wallet's), `IgnoredFirst` (the one answer that is ignored comes before all events) and
`LoadsOfAccount` (once no message changes the account, every load is of it at each of its
awaits). `ListInv` adds that a list reads for the account on screen only. `IdentityInv` says
for which readings an identity is on its way. From them `SessionOfAccountHolds`,
`ListOfAccountHolds`, `IdentityCatchesUpHolds`.

The lists of registries. The code finds the results of a registry again by its offset in one
flat array. `Positioned` says that each place holds an answer to its own call, and `Glue` is
the arithmetic of it: place (k - 1) n + j belongs to call j of registry k. `Possible` and
`Remembered` say that an answer is one that was true since the batch began, although each
may be of another moment; `SteadyRead`, that a registry which stays verified is on the lists
the read goes through. From them `RowsAreTrueHolds` and `VerifiedStayVisibleHolds`.

The servers. `DelegationInv`: what is being proved has a consent by the key of its
certificate; every proof that got out has a record that backs it or was not written down;
every registration was in time. No conjunct speaks of the signing server: whatever it mixes
up, consent check and circuit together let only parts by one key through, and that is what
the proof shows. From it `RegistrantsOnRecordHolds`.

*The owner's pages* (`OwnerPages_proofs`). `RemovalsHitNamed` needs that the indices which
the page sends, in descending order, remove from the list the rows that were selected: an
index above all that are still to come moves none of them (`RowsRemoved`, by induction over
the batch). `ConsoleInv` adds what a modal or batch was made from (`AsShown`), which guides
may go (`GuidesReleased`) and what the readings on their way will show (`ReadingIsCurrent`);
from it `RemovalsHitNamedHolds`, `GuideOfListedCaKeptHolds`, `ListCatchesUpHolds`. For the
forms `FormInv` says what a field was filled with as long as it is not edited (`AsFilled`,
`AsSeen`) and, for every kind of form, what the readings, the session's copy and the calls
of announcements on their way will show (`FillingIsCurrent`, `CopyIsCurrent`,
`ListIsCurrent`); from it `UneditedKeptHolds` and `FormCatchesUpHolds`. The proof showed
that the latter needs new announcements to have new identifiers (`New`), as
`crypto.randomUUID()` gives them (`backend/src/routes/registries.ts:224`).

For the page that deploys, `CreateInv` numbers attempts by the click that started them
(`Numbered`) and says when an attempt has made its registry (`MadeAtItsTime`), what the
factory may take and who approved it (`ApprovedByAttempts`), that tags fit the limit in
every form under way (`FormsFit`), and that the status is the one of the latest attempt
(`StatusOfLatest`). `UnitOfToken` says which decimals the page has: if its readings of the
metadata never crossed there is at most one, of the token of the fee, and without an error
its answer is that token's. So an attempt whose fee was told showed it (`ToldIsShown`). From
these `PaidAsShownHolds`, `ListedTagsFitHolds`, `OutcomeShownHolds`.

*Pull requests* (`CaPullRequest_proofs`). `PrInv` has `GuardTells` (of every text that was
accepted the guard has the entry made last, or that entry has expired, as long as the guard
in memory was not restarted) and `BranchOwned` (from its branch to its pull request a
request shares the branch with none). From it `AcceptedOncePerTtlHolds`
and `PrCarriesOwnCommitHolds`. The TTL has to be positive: the route passes 600 seconds
(`ca-registry.ts:108`). `AdvanceInv` adds the types of what is on GitHub (`GitTypeOK`:
every commit and branch has a date that was given to it, the fork holds a prefix of the
commits, a request past its reads has what it read). From it `HandlersEnd`: a handler makes
at most ten steps of its own, no step of another takes it back (`StepsAhead`), and only the
durable guard takes a handler down (`CrashedByGuard`).

*Metadata* (`RegistryCms_proofs`). `CmsInv` says what a cached owner and an answer are
worth: `CacheTrue` (a cached owner was the owner when its lookup began, or later) and
`AnswersTrue` (so was the answer that a handler holds, or a TTL earlier when it came from
the cache). An older lookup that ends after a newer one overwrites it with an older time
stamp, and so the invariant survives it. From it `OwnerRecentlyHolds`. `WritesInv` says how
a handler's copy differs from the entry it read (`AsRead`, `Follows`), which is all that a
save can lose or bring back: `RegisteredChainKeptHolds`, `LossOnlyByOverlapHolds`.

Assumptions: those the modules state about their constants (`RootAssumption`,
`TimeAssumption`, `CertificateAssumption`, `CrlAssumption`, `InputAssumption`,
`RegistryAssumption`, `SlotAssumption`, `FactoryAssumption`, `GroundworkAssumption`,
`PortalAssumption`, `ReaderAssumption`, `CreateAssumption`, `KeyStoreAssumption`,
`DesktopAssumption`, `DelegationAssumption`, `AdminAssumption`, `FormAssumption`,
`PullRequestAssumption`, `CmsAssumption`), which TLC evaluates in the runs. Most say that a
bound is a natural number or that a value that stands for "none", "failed" or "not yet read"
is not one of the values it is told apart from; `Ids`, the announcements of the console, is
a finite set. And what the model itself takes for granted:

- hashes and signatures are perfect, and the SP1 verifier accepts exactly the provable
  values of the key it is given;
- a nullifier is a term of key, registry and wallet index. That holds if the hosts'
  signatures are deterministic (RSA PKCS#1 v1.5, RFC 6979), which
  `docs/paper/paper.md:413` states as a requirement; the circuit cannot check it. With
  randomised signatures one key has many nullifiers and `WalletLimit` is void;
- `CrlPathsAsClaimed`: the two Merkle paths of a CRL proof are those of the indices
  given with them. The circuit compares the indices with each other only
  (`program/src/main.rs:595`). Where the constant is false, `CrlCheck` and the
  corresponding conjunct of `GrantSound` say nothing.

Only model-checked:

- liveness: `LoopTerminates` and `UnansweredOnlyByCrash`. Both follow from fairness, and the
  version of TLAPS used here does not treat `ENABLED`, which fairness is defined by. What
  they need besides it is proved: `LoopIsBounded` and `HandlersEnd`;
- the findings of section 5, which are counterexamples.

## 5. Findings

Each is a run that is expected to fail; `PROJECT.json` quotes code and text.

1. **No default grace period** (`ca_default_grace`). `caRootGracePeriod = 24 hours` is a
   field initializer; registries are proxies and `initialize` does not set it, so it is
   0 until the owner sets it, and a CA update invalidates proofs in flight one second
   later. Comments and paper say 24 hours.
2. **Deployment-time program key** (`factory_vkey`). A comment of the factory says
   existing registries keep theirs; they read the factory's current key at every proof.
   A test of the repository expects what the code does.
3. **Unanswered request** (`ca_pr_guard`). A transient failure of Firestore in the replay
   guard rejects outside the route's `try`; Express 4 does not handle it, and Node ends the
   process with every request under way. A comment of the other routes says that errors
   become a clean 500.
4. **Consent taken over** (`desktop_consent`). `ProveStep` derives consent from the status
   of the session's last proof. After a proof that has ended, going back, choosing
   delegated proving and generating again shows no consent gate, and the retry sends the
   certificate to the prover. The comment above the line asks for explicit consent before
   any data leaves the device. `ConsentUnlessRemounted` says that this is the only way.

Limits that the models show and the code accepts: there is a single previous root, so two CA
updates within one grace period drop the older one at once (`InFlightRootSurvives` is about
one update); and the replay guard gives a text back when its entry has expired, or after a
restart if it is in memory, although a signature dated ahead of the clock may still be fresh
then (`AcceptedOncePerTtl` says what it does give). Revoking or moving a slot clears its
wallet also if that wallet has since been verified through another slot. Overlapping writes
of the metadata API are last-writer-wins by design; `LossOnlyByOverlap` says that nothing
else is lost.

Divergences seen while modelling, without a run of their own:

- `backend/src/services/github.ts:212` reads `service.json` before the head that the pull
  request is based on; a merge in between loses the creation date that
  `routes/ca-registry.ts:140` says is preserved (`CaPullRequest!CreatedAt`).
- `AdminContent.tsx:2259-2264` drops a CA whose registration failed from the pending
  files; the design document of the guides wants a retry.
- `app/admin/page.tsx:69` fills the list of owned registries by the factory's creator, so
  that a registry that has changed hands stays with its creator.
- `RegistryFactory.sol:168` fixes the proof age at creation and the contract has no setter
  for it or for filters; the console offers both (`AdminForms!Supported`). Acceptance of an
  ownership transfer has no button.
- `sdk/src/client.ts:75` gives null for a wallet that was never verified and a date in the
  past for an expired one.

## 6. What is not modelled

- *Inside the circuit*: signature verification, certificate chains, ASN.1, the DER CRL.
  They are computations over bytes with no state; `ZkCircuit` takes what they establish.
- *Text* of registries, announcements, guides, tags, explorer settings: the models keep
  what distinguishes one write from another.
- *Requests that are refused before they change anything*, in the backend.
- *Read-only routes* of the backend.
- *Chat assistant*: a best-effort rate limiter of one process.
- *Prover server*: ECIES decryption and the query of the compliance log. One registry
  and one wallet index are modelled, since the consent names the registry and a proof for
  another one is not taken (`IdentityRegistry` has both).
- *Host scripts*: sequential programs around the modelled trees and circuit. Their inputs
  are free in `ZkCircuit`, so nothing proved about the registry depends on them. Hazards
  that live in them are listed without a property.
- *Frontend*: layout, texts, parsing of certificate files, search, compliance log, the
  chat widget, landing page. A chain change reloads the page and starts over. A
  registration of the portal or save of a form whose wait has failed and that is mined
  only later: the models mine it with the failure or never (`ChangeElsewhere` has it for
  the list of CAs).
- *CRL inputs* that `prove_non_inclusion` does not produce, see section 2.
- *Encodings* of a signature: the guard's key is a text, see section 2.
- *Desktop*: Docker, the key store and proving itself are outcomes; the signing server
  that the application carries.
- *Deployment, CI, data files, vendored libraries* (`forge-std`).

## 7. Plan

In order of importance; the first six are done, each with proofs of its safety properties.

1. `CaMerkle`, `CaRecompute`, `CaTrust`: the trust anchor.
2. `ZkCircuit`, `IdentityRegistry`, `IdentityLedger`: ledger, policy, refinement.
3. `CrlTree`, `RegistryFactory`.
4. `CaPullRequest`, `RegistryCms`. To add: explorer settings, the file store as a unit of
   crash.
5. The clients: `Portal`, `RegistryReaders`, `CreatePage`, `DesktopProving`,
   `AdminConsole`, `AdminForms`.
6. `DelegatedProver`: signing and prover server. To add: the registry's inputs that the
   prover gets from its caller (CA root, constraints), read from the chain at different
   times, and the CRL inputs the hosts never fill.
7. Depth in the circuit: chain of certificates, the DER CRL as an optional input.
