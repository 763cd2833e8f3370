# Caracal: TLA+ models of the authority core

Caracal gives agents bounded, revocable authority. A *coordinator* keeps a tree
of governed sessions and a graph of delegations between them; a *token service*
(STS) mints mandates from that graph; *gateways* and SDK verifiers admit calls
that carry those mandates; SDKs in three languages drive the coordinator.
This directory models the part in which a mistake costs most and which tests
reach least: who holds which authority while sessions start, are suspended,
lapse, end, delegate, lose their lease and are cleaned up, by several processes
and jobs at once; how a request is made once and only once, how an approval is
spent, how a provider's token is renewed, and how a revocation travels to those
who must refuse.

Paths below are relative to the repository.

## 1. Inventory

### 1.1 Components, state and operations

| Component | Where | State | Operations |
|---|---|---|---|
| Session tree | `apps/coordinator/src/routes/agents.ts`, `agent-services.ts`, `jobs/ttl-sweeper.ts`, `jobs/service-lease-sweeper.ts` | `sessions` (status, parent, depth, child_count, subject record, ttl, lease deadline and generation) | start, suspend, resume, terminate, lease, heartbeat, two sweeps |
| Delegation graph | `routes/delegations.ts`, `delegationEpochs.ts` | `delegation_edges`, `delegation_graph_epochs` | create, inherit (inside start), revoke with cascade, list, traverse |
| Retention | `jobs/retention-cleaner.ts` | deletes from all coordinator tables | expire edges, prune edges, sessions, outbox rows, receipts |
| Invocations | `routes/invocations.ts`, `jobs/deadline-enforcer.ts` | `agent_invocations` (status, attempts, deadline) | create, start, complete, cancel, deadline sweep |
| Outbox, lifecycle relay | `outbox.ts`, `jobs/outbox-publisher.ts`, `routes/outbox.ts`, `jobs/lifecycle-relay.ts` | `caracal_outbox`, Redis streams | enqueue with the transaction, claim, publish, retry, dead-letter, requeue |
| Idempotency | `idempotency.ts`, `config.ts` | receipts by keyed digest | reserve, replay, refuse, complete, prune, rotate the HMAC keys |
| STS exchange | `services/sts/internal/exchange.go`, `runcredential.go`, `stepup.go`, `db.go` | `authority_records`, `step_up_challenges` | validate a chain, evaluate policy, raise, decide and consume an approval, mint |
| STS revocation consumer | `services/sts/internal/consumer.go` | record status, stream position, failure counts | revoke a record and its descendants, replay, dead-letter |
| Provider credentials | `services/sts/internal/refresh.go`, `apps/api/src/routes/provider-connections.ts` | `provider_connections`, a lease, a result and a circuit in Redis | connect, revoke, lease a refresh, call the provider, store under a version |
| Gateway | `services/gateway` | revocation cache, replay store | snapshot, stream, admit |
| Verifiers | `packages/backends/redis`, `packages/verify` | the revocation store: graph epoch and revoked anchors | apply epochs and revocations, check a token |
| Audit | `services/audit` | per-zone hash chain | ingest, verify |
| SDK session handle | `packages/sdk/ts/src/primitives.ts` (and Go, Python) | lease generation, heartbeat loop, closing flag | start, attach, beat, close, retire |
| API, auth, web, CLI, shared packages | `apps/*`, `packages/*` | configuration | CRUD, UI, libraries |

### 1.2 How they interact

- A coordinator route is one Postgres transaction under READ COMMITTED. Start
  and terminate take the zone's *session* advisory lock, delegation routes the
  zone's *delegation* lock; suspend and resume take only row locks.
- A transaction that ends sessions writes outbox rows in the same commit; the
  publisher puts them on Redis streams; the STS consumer of
  `caracal.sessions.revoke` revokes the authority record and all derived ones;
  gateways consume the same stream into a cache.
- The STS reads the coordinator's tables directly, one query at a time and
  outside a transaction. It puts the graph epoch it read into the token, and
  verifiers compare it with the newest epoch they were told of.
- Approvals are raised by the STS's two mint routes, decided through the API
  (operators) or the STS (subjects), and consumed by a later mint.
- Provider connections are written by the API's routes and by the STS's refresh,
  which share nothing but the row's version.
- A service session is renewed by an SDK process through HTTP calls that may
  time out, be served late, or lose their caller. The lease generation fences
  earlier holders.

### 1.3 What is hard

Overlap of transactions that hold different locks; state read before a lock is
waited for; requests served after their caller gave up; shared authority
records whose last referent must be noticed; counters kept by increments and
decrements in several handlers; walks cut at a depth that paths need not obey;
retention that deletes through foreign keys; sweeps in bounded batches; two
services that apply the same hop allowance with different meanings; a cache fed
by snapshots and by a stream; a policy read twice in one request; an external
service that takes a token only once.
`PROJECT.json` lists each under `hazards` with the line where it bites.

### 1.4 What makes each component correct

- *Session tree*: a live session's parent is live; child counts are exact; an
  ended session stays ended; expired tasks end; lapsed leases are parked; the
  last session of a user's record takes the record with it, and no other does.
- *Delegation graph*: active edges run between live sessions; links only
  narrow; no cycle is closed that the cycle check reaches round; a broken chain
  stays broken and every change of the live graph raises the epoch, the pruning
  of a chain's sessions apart.
- *Service lease*: one holder per generation; an earlier holder cannot end its
  successor's session; a loss is reported only when it is final; a holder that
  lost its lease stops renewing.
- *STS*: a chain that is minted from is no deeper than its first edge allows; a
  token of a cut chain is refused by every verifier that was told; an approval
  releases one mandate, and only what was decided; a refresh token that was
  rotated reaches the row, and the newest consent stays.
- *Receipts, invocations*: one resource per key; one outcome per attempt, no
  event lost, nothing overdue left running.
- *Feed*: what was committed is applied or parked; a gateway learns all that its
  queries return and forgets none of it.

## 2. Modules

| Module | Models | State and actions |
|---|---|---|
| `Grants` | one edge's grant and the narrowing rule (`parentAllowsDelegation`, `resourcesNarrowParent`, the request schema) and the STS's reading of a grant (`delegationAllowsResource`, `parseDelegationConstraints`) | operators only |
| `DelegationChain` | one chain of edges, grown by `POST /delegations` and by inheritance, read by `GetDelegationLineage` and `buildDelegationChain` | first and newest grant, length, applications; `Delegate`, `Inherit` |
| `Coordinator` | the zone's sessions, edges, records, epoch and revocation feed; one action per committed transaction of every session route, delegation route, sweep and retention step, and the STS consumer | `session`, `edge` (functions from ids to rows), `record`, `epoch`, `feed`, `now` |
| `TreeRace` | start, terminate, suspend, resume and the cascade of delegation revoke, statement by statement, with advisory locks, row locks, rollback and the table's CHECK constraint | committed rows, locks, and for each transaction its statement and what its recursive query returned |
| `ServiceLease` | one service session between SDK handles, the lease, heartbeat and terminate routes, an administrator and the lease sweeper | the row, the handles, calls under way |
| `Receipts` | `startIdempotency` and `completeIdempotency` around a creating route, with overlapping transactions whose `now()` is older than the lock, quota, pruning and the rotation of the HMAC keys on a fleet that is rolled server by server | servers' transactions, receipts, resources made, the stage of each server and when the fleet settled on it |
| `Invocations` | the invocation routes and the deadline enforcer, with the outbox's deduplication keys | rows, outbox keys, the clock |
| `Job` | what an invocation promises: numbered attempts, one at a time, a limit, closed for good | phase and attempt of each job; implemented by `Invocations` |
| `RevocationFeed` | a revocation from the committing transaction through outbox, publisher and stream to the STS's consumer and a gateway's cache, with sessions ended by a caller or by their ttl, reloads by the poller and on request, crashes, failed calls and lost acknowledgements | outbox rows, sessions that expired, publishers' transactions, stream, both consumer groups, cache and reloads |
| `Delivery` | at-least-once delivery with parking, of a set of items | sent, owed, applied, parked; implemented by `RevocationFeed` |
| `Approvals` | approval holds from the gate of a policy to the release, on both mint routes, both deciding planes, with policy reloads, expiry, reissue and sweep | holds, released records and credentials, handlers, installed bundle |
| `DelegatedToken` | the STS's reads of a chain, query by query, against revocations and terminations; the verifiers' store and check | active edges, live sessions, epoch, messages, store, handlers, tokens |
| `ProviderRefresh` | `coordinatedGrantRefresh`: the lease of the row a request found, reread of the subject's row, call, versioned write, conflict, result; reconnect, revoke, hang-ups, crashes, lapsing leases, the circuit | connection rows, the provider's side of each consent, lease and result of each row, the circuit, flights |
| `MC*` | instances for TLC | |
| `CoordinatorProofs`, `TreeRaceProofs`, `ReceiptsProofs`, `ApprovalsProofs`, `RevocationFeedProofs`, `ProviderRefreshProofs` | theorems about the module each is named after | |
| `DelegationProofs` | theorems about `DelegationChain` and `DelegatedToken` | |
| `ServiceProofs` | theorems about `Invocations` and `ServiceLease` | |

`Coordinator` and `DelegationChain` extend `Grants`, so both use the same
narrowing rule. `TreeRace` examines the assumption `Coordinator` makes, that a
transaction is one step. `ServiceLease` takes the lease part of `Coordinator`
apart into request, transaction start, service and answer. `RevocationFeed` opens
up the `feed` of `Coordinator`, and the messages of `DelegatedToken` travel as it
describes; what `DelegatedToken` needs of the epoch is `EpochTracksGraph`.
`Receipts` is what stands before `Invocations!Create`. `DelegatedToken` and
`ServiceLease` give their specification a prefix (`TokenSpec`, `LeaseSpec`), so that
one module can state theorems about two components.

### 2.1 Choices of abstraction

- *Time* is an integer that ticks; `now()` is Postgres' transaction time. In
  `ServiceLease` a call reads the clock when its transaction begins and is
  served later, because the advisory lock is waited for in between.
- *A rolled-back handler* changes nothing and is no action of `Coordinator`;
  in `TreeRace` it is (`Rollback`).
- *Who may call* a route is left open: any caller the route admits may call at
  any time. Token checks, audit rows, events without a reader in the model
  (lifecycle notifications), labels and metadata are left out.
- *Ids* are never reused (they are v7 UUIDs): a pruned row is `deleted`, not
  `absent`.
- *The outbox* is its contract in `Coordinator`: what was committed is delivered
  at least once, in some order (`feed` is a set, and `HandleRevocation` may take
  any member at any time, or never). `RevocationFeed` shows under which faults the
  contract is kept.
- *What a gateway's SELECTs return* are records `revoked`, sessions `terminated`
  and edges `revoked` (`revocations.go:239`). A session the TTL sweeper ended is
  `expired`: it is announced on the stream and is in no snapshot (`expired` and
  `Durable` of `RevocationFeed`).
- *Budget*: a child without `constraints.budget` is measured against its
  parent's budget by its number of scopes and is stored without one, so the
  bound does not travel along a chain and `ChainNarrows` does not claim it.
- *TreeRace* starts from any committed tree closed under parents, of the shape
  its constants give, and runs each transaction once.
- *A request of `Approvals`* is everything the binding hash covers but the policy
  version; a policy version is what it demands of requests (nothing, or a class
  of approver). Clients keep no state: a lost response is the same hold id
  presented again.
- *A provider's token* is the consent it comes from and how often it was rotated;
  the provider accepts the newest only and may or may not rotate it. A flight of
  `ProviderRefresh` is the one that singleflight lets through in its process; the
  waiters share its answer. It keeps the row it began for (`key`), which
  names its lease and its result, apart from the row it refreshes. A token that a
  refresh found fresh outlives the few writes that follow. The count of the
  provider's failures is reduced to whether the circuit is open, and of a row that
  is no longer active only the version is kept, which is all that a refresh on its
  way back to it compares.
- *Types*: each module's `TypeOK` documents its state; it is checked and proved
  for `Coordinator` and a conjunct of the invariant proved for `DelegationChain`,
  `Invocations`, `Receipts`, `Approvals` and `ProviderRefresh`. The other proofs
  use shapes of their own, in which what a bound of the instance caps (epochs,
  generations) is any natural number.

## 3. Runs

All bounds are named constants of the modules.

| Run | Instance | Shows |
|---|---|---|
| `coordinator_graph` | three tasks of one user, three edges, grants with and without room to chain, `MAX_DEPTH` 2, expiry, edges and sessions pruned from the next instant on, batches of one | the tree stays closed, counts exact, ended sessions ended; edges end with their sessions, no cycle of up to three edges is closed (the longest that a walk of two must see), broken chains stay broken and the epoch tracks the live graph but for the pruning of a chain's session, revocations are complete and not collateral |
| `coordinator_liveness` | two sessions, task and service, an edge, a user's record and one derived from it, fair clock and sweeps | expired tasks end, lapsed leases are parked |
| `tree_race` | two transactions on a tree of five sessions | the locks and the CHECK constraint carry what `Coordinator` assumes |
| `service_lease` | two processes, generations up to three (no attach begins from the second on), three instants, one lost call, the sweeper | fencing: successors and reported losses |
| `service_lease_liveness` | two processes, two generations, three instants, fair timers and servers | a holder without the lease stops |
| `delegation_chain` | chains of three edges over every mix of scopes, resource forms, hops, ttl and expiry | links only narrow; depth of a mintable chain |
| `receipts` | two connections, two keys and bodies, quota 2, three resources, the documented rotation (new key with the former as previous, then alone), rolled server by server | one resource per key for as long as the receipt is kept, except through a server that the roll has not reached |
| `invocations` | two invocations of two attempts, five instants, batches of one | one outcome per attempt, events complete, no overdue attempt kept, `Job` implemented |
| `revocation_feed` | a session, terminated or expired, and a record, one publisher, three stream entries, the poller and a reload on request, one fault of any kind | `Delivery` implemented; the gateway keeps refusing what its queries return, unless it applies an overtaken snapshot, and learns all of it |
| `approvals` | an exchange and a run credential, two handlers, two holds, two releases, two policy versions and a reload, three instants | one release per hold, no gated release without a decision for it, rejections stand |
| `delegated_token` | a chain of three edges between four sessions, a revocation that follows two of them (`WalkDepth`), one handler, epochs up to 3, two tokens | a token of a cut chain is refused once the verifier has been told; refusals last |
| `provider_refresh` | two processes, two rows, two consents, one rotation each, one attempt at the provider and two at the write | one holder of each row's lease, rotated tokens kept under it, reconnects stand, leases freed |

The bounds are the smallest in which the hazards happen: two actors that overlap
and a third thing (a successor, a second attempt, a second consent, a copy of an
entry) for one of them to damage. One publisher is enough for duplicates, since a
rolled-back transaction publishes its rows again; the publisher's retries
(`MaxAttempts` above 1) and a second fault are left to `DeliveryTheorem`. One
handler is enough for `DelegatedToken`, whose handlers share nothing they write.

`CHECK_DEADLOCK FALSE` everywhere: the bounded clock, the bounded set of ids
and the bounded chain bring every instance to a stop, and a zone in which
nothing is left to do is a legal state. Symmetry is used for ids only, in runs
without liveness.

Each property is broken by a plausible bug in the code, written as an operator
marked *Mutant* before the definition it stands in for: a cascade that follows
active sessions only, a missing decrement, an unfenced terminate, a walk one
edge too long, and so on.

### 3.1 Fairness

`Coordinator!Fairness`: the clock, the TTL sweep and the lease sweep, which
`makeIntervalJob` starts again after every interval whatever the last run did.
The consumer of revocations is not fair: an entry whose handling failed waits for
the next start of the token service (`consumer.go:72`) and is parked after enough
failures, so that a revocation is eventually applied is not claimed. No caller
owes a call. Weak fairness is enough: a sweep that has something to do keeps
having it.

`ServiceLease!LeaseFairness`: a handle's heartbeat timer fires, a call that has a
caller waiting is begun, served and answered, and the sweeper and the clock
run. Calls that were given up, processes, administrators and the end of the
user's record owe nothing.

`Invocations!Fairness`: the clock and the enforcer's interval job.

`RevocationFeed!Fairness`: the publisher's interval job, the read loops of both
consumers, the gateway's poller and its reaper. Faults, requeues and the restart
of the token service are not fair, so `NoRevocationLost` promises that nothing is
forgotten, not that everything is applied; `GatewayLearns` holds through the
poller even if the stream never delivers. Reloads on request are not fair.

`ProviderRefresh!Fairness`: a flight goes on, because every call it makes has a
timeout, and Redis expires each row's lease when its holder is gone. No caller, no
administrator and no restart is fair.

## 4. Proofs

The theorems hold for every value of the constants: any sets of sessions, edges,
records, requests, processes, transactions and handlers, any grants, policies and
limits. Assumptions are the named `ASSUME`s of the modules: ids differ from `None`,
limits are naturals, tables of parents and expiries are functions on the rows they
describe, the set of sessions is finite where children are counted. No proof uses
a bound of an instance beyond its being a natural number, positive where its
`ASSUME` says so.

Every invariant, action property and refinement that a run checks is stated by a
theorem, in the words of the definition the run checks. Where the code does not
keep the plain statement, the definition itself names the exception, and the
theorem is about every behaviour:

| Exception | In | The code behind it (5) |
|---|---|---|
| `PrunesChain`: the step prunes an ended session at an end of an edge from which a live edge is chained | `BrokenLineageStaysBroken`, `EpochTracksGraph` | session retention makes a root of the live edge, and raises no epoch |
| only cycles of at most `MAX_DEPTH + 1` edges | `NoShortCycle` | `wouldCreateCycle` follows `MAX_DEPTH` edges |
| `AheadOfTheRoll`: the receipt is stored under a key that the second server does not have yet | `OneResourcePerKey` | a rotation in one step |
| `AppliesOvertaken`: the step applies a snapshot whose rows were read before another one was applied | `GatewayKeepsRefusing` | overlapping reloads |
| `lost`: an answer was lost, or got without the lease of the row it is for | `RotatedTokenKept` | leases belong to rows, refreshes to subjects |

Three theorems of `TreeRaceProofs` have a hypothesis, `Serialized`: the delegation
routes are left out, which end sessions without the session lock (5). The run
leaves them out as well. `StagedRotationTheorem` has one, `RotationIsStaged`, and
says what an operator gains by meeting it: a new key is given to every server
before the first one uses it, and `AheadOfTheRoll` never happens.

`CoordinatorProofs`

- `TypeTheorem`: one lemma per group of statements (`SuspendTyped`,
  `SessionsTerminatedTyped`, ...), because several actions share them.
- `NoLiveOrphanTheorem`, `ChildCountTheorem`, `EdgeEndpointsTheorem`,
  `LastReferentTheorem` from one inductive invariant, `TypeOK /\ Safe`, where
  `Safe` is the conjunction of the four. None is inductive alone: that counts
  are exact after a termination needs that no live child hangs from an ended
  session, and retention keeps the tree closed only because an ended parent
  has no live child. Every step is one of four kinds, and the invariant is
  shown for each kind once: *quiet* steps change only statuses within the live
  ones and deadlines; *ending* steps end a set closed under live children
  (`SubtreeClosed` shows the recursive query yields one), decrement the parents
  left behind, cut the edges at its members and send the records without other
  referents; a *start* adds a leaf; *retention* deletes ended sessions without
  children and edges.
- `EndedStaysEndedTheorem`: an action property, from `OnlyNewLive`: a session
  that is live after a step was live or absent before it.
- `NoCollateralTheorem`: what a step adds to the feed is spared only by being a
  record without active referents or the record of a cut edge's target; shown for
  each statement that enqueues.
- `EpochTheorem`, `BrokenLineageTheorem`: a step thins the live graph or creates
  one edge (`Thinning`, `Growing`). A new edge is chained from an edge that is live
  and no live edge is chained from it, since nothing is chained from an edge that
  does not exist (`ParentsThere`, an invariant). So a chain that is whole after the
  step, less the new edge, was whole before: `Lineage` is the least set closed
  under parents, and the old one is such a set. A step that is `PrunesChain` is
  the properties' exception; every other retention step thins.
- `NoShortCycleTheorem`: a cycle after a step passes through the edge it created.
  `WayRound` turns it so that this edge comes first; the other edges, at most
  `MAX_DEPTH`, are a live path from the new target back to the new source
  (`Paths`), which the walk of `wouldCreateCycle` would have found.

`TreeRaceProofs`, statement by statement, for any tree and any number of
overlapping transactions:

- `EndedStaysEndedTheorem`, without hypothesis: what a transaction has written and
  not committed is within what it read, locked, and was live when it was locked
  (`RowInv`); a row that is locked is written by nobody else.
- `NoLiveOrphanTheorem`, `ChildCountTheorem`, `LastReferentTheorem`: `ZoneInv` says
  what a handler's reads are still worth at its later statements. The holder of
  the session lock is alone (`SessionLocked`); the parent a start read is still
  live (`StartsBelowLive`), the set a termination read is still closed
  (`TreeStands`), its exemptions are still right (`ExemptionStands`); counts are
  exact for sessions that are still to be started as well (`CountsKept`).

`ReceiptsProofs`

- `OneResourceTheorem`: `ReceiptKept` follows the receipt of a resource: it is
  kept under the current key of the stage it was made in, until the idempotency key
  is free again. That needs that a transaction's clock is not ahead (`BegunBefore`;
  pruning and expiry then compare with a time that has come) and that the key's
  lock has one holder (`OneHolder`). That a server finds it needs that servers are
  in adjacent stages (`StagesAdjacent`), each of which knows the key of the one
  before, and that a key is removed only when the fleet has settled on its successor
  for a retention window (`SettledAfter`, `KnownAhead`).
- `StagedRotationTheorem`: from the same invariant.

`ServiceProofs`

- `Typed`, `OneOutcome`, `EventsAgree`: the invariant adds to the two properties
  that an outcome in the outbox is of an attempt that was made, and the newest
  attempt's is what the row says, and that a row's attempts fit its status.
- `NoEventSwallowedTheorem`: nothing is in the outbox about attempts and requests
  still to come (`FreshInv`), so the key of a status change is new.
- `Implements`: `Spec => IsJob`. The mapping takes a failed invocation with
  attempts left for a resting job; each action is shown to be a step of `Job` or
  a stutter, for each invocation by itself, because one sweep moves several.
- `SuccessorTheorem`, `LostTheorem`: `LeaseInv` speaks of generations in handles,
  calls under way and the row. No two handles stand for one generation; a lease
  that was granted and not yet delivered is nobody else's; a terminate call under
  way names no generation that a process has and has not closed (`GensApart`). A
  call fits the state of the caller that waits for it (`CallsFit`, `Alone`): that
  is what a caller that gave up no longer does, and why late calls of it are
  harmless. If a terminate call ended the session, nobody keeps its generation and
  nobody is about to receive it (`EndedByHolder`).

`ApprovalsProofs`

- `OneReleaseTheorem`, `GatedTheorem`, `RejectionTheorem`: a handler that is past
  the gate has an approval raised for its request or a policy without a gate
  (`HandlersOK`), a release points at a hold approved for it and used up
  (`ReleasesOK`), a binding has one hold in force (`OneHoldPerBinding`, the unique
  index). The guarded UPDATE makes the consumption exclusive: a second handler
  with the same approval finds it consumed.

`RevocationFeedProofs`

- `DeliveryTheorem`: the refinement of `Delivery`. Under the mapping a revocation
  is owed from its commit until it is applied or parked; `FeedInv` says where it is
  meanwhile: pending in the outbox, or on the stream at a position the group has not
  read, or in its pending list. That a row marked sent is on the stream
  (`SentOnStream`) needs that claims of publishers are disjoint. Each step is a step
  of `Delivery` or a stutter.
- `KeepsRefusingTheorem`: `SnapshotCovers`: if the stream marked nothing since a
  reload began and no other snapshot was applied since it read its rows, these
  contain every mark of the cache that the SELECTs return, because what is marked
  was committed before.

`DelegationProofs`

- `ChainTypeTheorem`, `ChainNarrowsTheorem`, `MintedDepthTheorem`: chains of
  any length over any scopes and resources. `IInv` adds to `ChainNarrows` that
  the newest edge passed `resolveResourceAuthority` (a `resource_id` is among
  the identifiers when both are given): `resourcesNarrowParent` compares a child
  with one of the parent's two bounds, while the STS applies both, and only that
  consistency makes the one imply the other. `ResourceLinkNarrows` is the case analysis over
  `resource_id` and `constraints.resources`; `NarrowerTransitive` carries it
  along the chain.
- `CutTheorem`, `RefusalsTheorem`: every edge of a token, and every edge that a
  handler past its read of the epoch has read since, is active, or the epoch has
  moved on, or it is the leaf and was gone before (`TokensJustified`,
  `HandlersJustified`). Edges end only with a new epoch, which is sent (`EpochHeard`),
  so a verifier that processed it refuses the token. A store's epoch and marks only
  grow, whatever the order of the messages.

`ProviderRefreshProofs`

- `RefreshTyped`, `OneRefresherTheorem`: the lease of a row is held by the flight
  past `SetNXTTL` on that row's key, or that flight has lost it.
- `ReconnectTheorem`: `ReconnectStands`, an action property. The invariant says
  what the version check is worth: a flight's expected version is older than the
  row's, or the row still has the flight's consent, or the row's token was over or
  without expiry when the flight took its version after a conflict
  (`VersionTells`). That needs the unique active row (`OneActive`: the conflict
  re-read finds the row the UPDATE names, or that row is not active), that a
  flight's row exists and that nobody has a token of a consent still to come.
  Most actions move one flight and leave the table alone, or write one row:
  `FlightStep` and `RowKeeps` treat the two kinds once.
- `RotatedTokenTheorem`: a consent belongs to one row and the flights that renew it
  are that row's (`RowsApart`, `FlightsHome`); a flight that carries a token has the
  one the provider gave out last (`Carries`), and while its row still has the
  consent, the row's version is the one it read (`Reads`), unless an answer was
  lost or got without the row's lease (`Bare`: the lease slipped, or the flight
  began for a row that was replaced). At most one flight is not bare on a row
  (`OneBared`), so the write that would lose the token to a conflict does not meet
  one.

Only model-checked: the liveness properties (`ExpiredTaskEnds`, `LapsedLeaseParks`,
`OverdueEnds`, `HolderResigns`, `GatewayLearns`, `LeaseIsFreed`), since the prover
has no rules for fairness and `ENABLED`; and what the recursive function `Subtree`
computes, beyond what follows from one unfolding or from a least element of a set of
numbers. The runs evaluate it in full.

## 5. Deviations

Formulas of the repository's comments and documents that the models refute. The
runs leave them out, or the property names them as its exception; each is found by
the change named.

- *Delegation revoke and the session lock.* `PATCH /delegations/:id/revoke`
  (`delegations.ts:588`) runs the terminate cascade under the delegation lock
  only. A start that overlaps with it commits a live child below an ended parent;
  an overlap with a termination can decrement one parent's `child_count` twice.
  `agents.ts:70` says: "Session start and cascade terminate serialize on one
  zone-wide advisory lock". (`TreeRace` with `"revoke"` among `Kinds`:
  `NoLiveOrphan`.)
- *Retention heals broken chains.* Pruning an ended session
  (`retention-cleaner.ts:162`) deletes its revoked edges and clears
  `parent_edge_id` of the live edges chained from them; the chain is then
  complete, although the edge pruning in the same job takes care to keep such
  edges. `concepts/delegation.mdx:47` says: "Revoking an upstream Delegation
  should invalidate downstream authority." (`Coordinator`:
  `BrokenLineageStaysBroken` without its `PrunesChain`. The pruning raises no epoch
  either: `EpochTracksGraph` without it.)
- *Long cycles.* `wouldCreateCycle` follows at most `MAX_DEPTH` edges
  (`delegations.ts:899`), while paths of root edges may be longer: the edge that
  closes a cycle of more than `MAX_DEPTH + 1` edges is accepted.
  `concepts/delegation.mdx:45` says: "Delegation paths must not cycle."
  (`Coordinator` with four sessions, four edges and `MAX_DEPTH` 2: `NoShortCycle`
  for paths of four edges.)
- *Rotation of the HMAC keys in one step.* While servers are rolled from the old
  key to the new one with the old as previous, a server that has only the old key
  does not find a receipt that a new server stored, and a retry that reaches it
  creates the resource again. `guides/idempotency.mdx:147` describes this rotation:
  "During key rotation, set `IDEMPOTENCY_HMAC_KEY_PREVIOUS` for at least one full
  receipt-retention window, then remove it." (`Receipts`: `OneResourcePerKey` without
  its `AheadOfTheRoll`. With the new key given to all servers as the previous one
  first, there is no such case: `StagedRotationTheorem`.)
- *The lease sweeper suspends fresh leases.* It selects before it waits for the
  session lock and does not look at the deadline again
  (`service-lease-sweeper.ts:54`), while its header says it "suspends Sessions
  with expired heartbeat leases". (`ServiceLease` with one process,
  `Lease` 2 and `MaxClock` 3: a step of `SweepSuspend` that changes `status` while
  `deadline > now`, after a suspend and a resume.)
- *A re-delegated edge cannot be used.* It must have fewer hops than its parent,
  and `GetDelegationLineage` (`db.go:435`) walks only as many edges as the
  presented edge's own hops: an edge re-delegated from one with two hops is never
  found. `sdk/go/primitives.go:65` says: "pass Constraints with MaxHops 2 (or
  more) when the child must re-delegate or sub-narrow". (`DelegationChain`: an
  edge with `length > 1`, `root.hops = 2` and `last.hops = 1` is accepted.)
- *A policy rollout and a held exchange.* `exchange.go:407` reads the bundle for
  the approval's binding and line 655 evaluates with the one installed then; the
  run-credential route compares the two (`runcredential.go:265`), the exchange
  does not. An approval given under one version can thus release a token
  evaluated under the next, whose gate may be another. `concepts/approvals.mdx`
  says: "A policy rollout or execution-context change therefore requires a fresh
  decision." (`Approvals`: the policy of a release is that of its hold.)
- *Pending revocations wait for a restart.* The STS replays its pending entries
  at start-up only (`consumer.go:72`), while `api/event-topics.mdx:42` says:
  "Pending messages must be claimed and retried". (`RevocationFeed`: a committed
  record is eventually applied or parked.)
- *Expired sessions and the gateway's snapshots.* The TTL sweeper ends sessions as
  `expired` (`ttl-sweeper.ts:53`), and `reloadRevocationSnapshot` selects those that
  are `terminated` (`revocations.go:250`). The next poll drops the mark that the
  stream set, unless something was marked meanwhile, and a gateway that joined the
  stream later never learns of the session. (`RevocationFeed`: `GatewayKeepsRefusing`
  and `GatewayLearns` with `Owned` for `Owned \ expired` and for what `Durable`
  takes of it.)
- *Overlapping reloads of the gateway.* `applyRevocationSnapshot`
  (`revocations.go:120`) compares `streamGeneration`, which the stream's marks
  advance and a reload (line 231; on request from `server.go:392`) does not. A
  snapshot read earlier and applied later takes back what the other reload had
  marked. (`RevocationFeed`: `GatewayKeepsRefusing` without its `AppliesOvertaken`.)
- *Refresh leases of replaced rows.* Lease and result are keyed by the connection
  row a request found (`refresh.go:382`), while the refresh reads the subject's row
  again (line 119). After a revoke and a reconnect, a flight begun for the old row
  and one begun for the new row refresh the new row together. If the provider
  rotates the token for one of them only, the answer without rotation may be stored
  first and the rotated token is dropped at the conflict (line 472). The comment at
  line 292 says that a refresh "never loses its lease mid-flight to a second
  concurrent refresher". (`ProviderRefresh`: `RotatedTokenKept` with
  `req[h].slipped` alone for `Bare`.)
- *Reconnects and refreshes.* `MarkProviderConnectionExpired` (`db.go:1255`)
  names the row by id only, so a connection that was renewed since it was read is
  marked expired. After a version conflict a newer consent without an expiry is
  taken for stale and overwritten (`refresh.go:472` asks `latest.ExpiresAt !=
  nil`), while the comment at line 445 says: "if a peer already produced fresh
  tokens, the call returns nil without re-writing". (`ProviderRefresh`: an active
  row is marked only if its token is over; `ReconnectStands` without its
  `"forever"`.)

Seen in the models, and stated here rather than as properties because the code
is plain about what it does:

- `suspendSubtree` sends the records of the suspended sessions for revocation;
  `resume` does not bring them back, while `concepts/sessions-revocation.mdx`
  calls suspension reversible.
- `suspendSubtree` follows active children of active sessions, so an active
  session below a suspended one is not reached.
- The capacity query does not count an active service whose lease has lapsed
  and counts it again once it is suspended: a zone can exceed its limit.
- Delegation revoke sends the records of its target sessions without asking
  `revocationExemptSessions`.
- The walk of delegation revoke is cut at `MAX_DEPTH` edges too
  (`delegations.ts:563`): edges further down a longer path stay active. Tokens
  minted from them before are refused through the epoch, and the lineage of those
  chained from the revoked edge is broken.
- A failed service start whose single terminate call is lost leaves a session
  that only a caller can end: the TTL sweeper skips services.
- `buildDelegationChain` compares the first hop's application with the newest
  edge's source, which refuses chains through a second application; an
  inherited copy of an edge with one hop, and every edge with a budget
  (`DisallowUnknownFields`), cannot be minted from.
- Suspend and resume name the rows they write by id only. What keeps them from
  reviving a session whose termination committed in between is
  `sessions_terminal_fields_check`: the UPDATE would leave a live row with the
  columns of an ended one. `TreeRace` shows the revival without it.

- An invocation whose cancellation was requested is not swept, so it stays
  `cancel_requested` until its executor answers; if the answer is a failure it can
  be started again. A failed invocation with attempts left cannot be cancelled.
  Completions do not name the attempt: a late answer of an earlier attempt is
  taken for the current one's.
- The quota of receipts is counted without a lock on the scope and can be
  exceeded by overlapping requests. A retry after its session ended is refused
  with 404 rather than replayed.
- The leaf edge of a chain is not read again before a token is issued. If its
  source session ends between the first read and the read of the epoch, and the
  target's record is exempt, verifiers accept the token; `CutOnceTold` names the
  case.
- A run credential that was released and lost on the way needs a second decision:
  nothing is stored to reissue. A hold raised before the zone's policy is loaded
  is bound to the empty version. The class of approver comes from the version
  that was evaluated, the binding from the one read first.
- A gateway on a new host misses what is published between its boot snapshot and its
  group's creation until the next poll.
- `InsertDelegatedAuthorityRecord` (`db.go`), which would re-check the epoch in
  the inserting transaction, has no caller outside tests: the epoch is checked by
  verifiers only.
- A caller's hang-up between the provider's answer and the write loses a rotated
  refresh token, because the write uses the caller's context. A lease lost on the
  way (renewals failing for a whole lease) lets a second refresher spend the same
  token.

## 6. Plan

Modelled so far, in the order of the first plan: the tree and the graph, the
lease, the chain, the delegated mint and its verifiers, the outbox and the
consumers, invocations, receipts, approvals, the gateway's cache, the provider
refresh. Next:

1. `AuditChain`: the per-zone hash chain under concurrent ingest, and the
   client's bounded buffer.
2. The lifecycle relay and the in-memory revocation stores, if they differ from
   what `RevocationFeed` and `DelegatedToken` assume.
3. The operator assistant's execution lease and run limiter.
4. The Go and Python session handles where they differ from the TypeScript one.

Theorems next: that a chain is minted only from edges whose links narrow, across
`Coordinator` and `DelegationChain` (the graph as a set of chains); that a process
reports a lost lease once. The hazards without a property have their reasons in
`PROJECT.json`: the code does not keep what a property would have to say.

## 7. Not modelled

Token verification and other cryptography, HTTP and configuration; Rego
evaluation; proxying; read-only routes; the API's CRUD; the auth service (an
identity library); web console and CLI. Each is listed in `PROJECT.json` with
the reason. Of the modelled parts: the long-poll waiter, the audit rows and the
privacy modes of approvals; trimming of streams, expiry of marks and invalid
signatures in the feed; suspension in `DelegatedToken`; connections shared by
several subjects and upstream token revocation in `ProviderRefresh`; the lifecycle
relay.

The web console, the operator assistant's prompts and tools, the SDK clients and
the CRUD routes are most of the repository's lines. They transform and display
data one request at a time and keep no state that a second actor shares, so a
transition system has nothing to say about them that a test does not.
