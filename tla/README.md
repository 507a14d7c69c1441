# AgentPalace: TLA+ models, model checking and proofs

AgentPalace is a local memory store for agents: drawers (documents with embeddings in Lance) and a
knowledge graph and operational tables (SQLite) in one *palace* directory, served over MCP to local
agents and over HTTP to other palaces. Several processes share one palace; palaces replicate
mutations to each other and coordinate work through leased tasks. This directory holds TLA+ models
of the parts whose correctness depends on the order in which processes, requests, crashes and
timeouts interleave.

Contents: [inventory](#1-inventory) · [modules](#2-modules-and-how-they-correspond-to-the-code) ·
[runs](#3-runs-bounds-and-what-they-show) · [fairness](#4-fairness) · [proofs](#5-proofs) ·
[findings](#6-where-the-code-differs-from-what-it-says) · [limits](#7-assumptions-and-what-is-not-modelled)
· [plan](#8-plan).

## 1. Inventory

Paths are relative to `src/crates/`. "Correct" names what makes a component correct; the properties
in brackets exist today.

### Coordination store — `agentpalace-storage/src/coordination.rs`
- *State*: SQLite tables of tasks (state, revision, owner, executor affinity, lease end, deadline),
  artifacts, messages and acknowledgements, results, and one event feed.
- *Operations*: create and import a task, claim, renew, yield, hand a checkpoint over, transition,
  put an artifact; send, list and acknowledge messages; read paginated feeds. Each is one
  `BEGIN IMMEDIATE` transaction with a compare-and-swap on the task's revision.
- *Used by*: MCP tools (including the separate lease lane that stays responsive while memory tools
  run), server routes, the A2A mapping.
- *Hard*: leases and deadlines run out between any two calls; lost responses are retried by
  rereading; checkpoint affinity outlives leases.
- *Correct*: one executor at a time [LiveLeaseExcludes, OwnershipConsistent], work stays with the
  executor that holds its checkpoint [AffinityMovesByHandoff], late executors cannot finish
  [FinishedByLastClaimant], deadlines stop new work [NoNewExecutorAfterDeadline], terminal is final
  [TerminalIsFinal], the event feed is the history [AuditTrail].

### Replication outbox — `agentpalace-storage/src/outbox.rs`
- *State*: one table; every row is an operation with destination, ordering key, global sequence,
  state, revision, lease and retry time.
- *Operations*: enqueue (and revive a cancelled operation), activate, cancel, claim_next,
  claim_by_id, renew, acknowledge, schedule_retry, fail, reclaim an expired lease.
- *Hard*: takeover of leases, revival under an old id, late workers.
- *Correct*: ordered delivery per group [DeliveredInOrder, DeliversFifo], no lost or abandoned
  operation [NeverAbandoned], exclusive attempts [LiveLeaseKept, LeaseConsistent], unambiguous order
  and compare-and-swap [SequencesUnique, RevisionNamesRow].

### Local-first writes, reconciliation and the replication worker — `agentpalace-mcp/src/lib.rs`, `replication.rs`
- *State*: none of their own but the in-flight tool call under the runtime mutex; they drive the
  palace and the outbox.
- *Operations*: `tool_kg_add`, `tool_kg_invalidate`, the drawer tools: stage an intent, commit
  locally, activate the intent; reconcile staged intents at startup and every 30 seconds; claim,
  send, acknowledge or reschedule.
- *Hard*: crashes between the three steps, several processes over one palace, keyed replays,
  reconciliation that infers a commit from the present state of the palace.
- *Correct*: the remote ends up with what the palace has [Converged], a committed mutation is
  delivered and a call in progress keeps its intent [IntentsKept], nothing stays staged for good
  [IntentsSettle], and so for the drawers [DrawersConverge, CrashWindowClosed].

### Server mutation routes and receipts — `agentpalace-server/src/lib.rs`, `agentpalace-storage/src/receipt.rs`
- *State*: `mutation_receipts` (pending or completed, request hash, details, response), the graph,
  the drawers, the change log, one in-memory lock for keyed invalidations, a file lock per ingested
  source.
- *Operations*: add and invalidate facts, add and delete drawers, ingest batches; each begins a
  receipt, applies, logs an event, completes the receipt, in separate transactions of SQLite and
  calls of LanceDB.
- *Hard*: repeats after lost answers, overlapping copies, crashes and failed calls between any two
  steps, a drawer deleted and added again under its old id, batches of one source out of order.
- *Correct*: each operation lands once and is told [ReceiptInv, DrawerInv, BatchInv], the replica
  follows the client [ReplicaFollows], what was committed stays [CommittedAddStays, AckedAddStays],
  a source's drawers are those of its last record [RecordStored].

### Storage engine — `agentpalace-storage/src/engine.rs`, `lance.rs`, `sqlite.rs`, `replicated_ingest.rs`
- *State*: rows of LanceDB; in SQLite ingest runs with manifests, the last ingested hash of each
  source, diary summaries; a lock file per source; staged effects in the outbox.
- *Operations*: `commit_ingest`, `replace_source_drawers`, `remove_source_key`,
  `commit_diary_ingest`, `update_diary_entry`, the recovery of staged ingestions, and `reconcile`,
  which every opening of a palace runs.
- *Hard*: two stores without a common transaction, cleanup by age from other processes.
- *Correct*: a skipped file is stored [SkipIsRight], the remote is told in order what is stored
  [JournalInv], an acknowledged diary entry stays and has both its parts [EntryConsistent].

### Background maintenance — `agentpalace-storage/src/engine.rs`, `maintenance.rs`
- *State*: a lease row, an activity signal per process. *Operations*: `run_maintenance` with three
  tiers, lease claim, renewal and release.
- *Hard*: leases lost while a tier runs, suspended processes, activity between tiers.
- *Correct*: one maintainer at a time, every run gives its lease back [LeaseDiscipline].

### Skill registry — `agentpalace-storage/src/skills.rs`
- *State*: versions of a skill and the review log. *Operations*: propose, record an outcome, promote,
  retire.
- *Hard*: long sequences of legal calls: versions promoted out of order, successors of another scope.
- *Correct*: one authoritative version [OneAuthority], a log that explains every status and
  promotions that were governed [ReviewsExplain].

### Delegation spans — `agentpalace-storage/src/delegation.rs`
- *State*: span rows, checkpoint rows. *Operations*: start, checkpoint, close, trace.
- *Hard*: trace reads with several queries while spans change; a cap computed from two units.
- *Correct*: depth, fan-out and cap add up, a trace belongs together and shows closed spans whole
  [SpansInv].

### MCP request queues — `agentpalace-mcp/src/lib.rs`
- *State*: two semaphores, the runtime mutex, a channel of capacity one, the memory thread, the set
  of pending requests of the stdio loop.
- *Hard*: callers that leave, jobs that panic or never end, a loop that stops reading.
- *Correct*: work is bounded and the channel never full [AdmissionHolds], leases are served beside
  stuck memory work [LeaseAnswered], every caller is answered [EveryCallAnswered].

### Remote client and OAuth sessions — `agentpalace-remote/src/client.rs`, `oauth.rs`; issuer: `agentpalace-demo-hub/src/lib.rs`
- *State*: a grant in memory per process, one shared credential store, a login lock, an epoch and a
  generation; at the issuer, families of rotating refresh tokens.
- *Operations*: requests with early refresh and recovery from a 401, interactive login, loading a
  stored session, logout with revocation.
- *Hard*: everything is awaited; requests, sign-in and sign-out overlap; other processes rotate the
  stored grant.
- *Correct*: a sign-out that reports its record deleted leaves nothing behind [SessionInv], a
  sign-out sticks, no spent refresh token is shown [SessionSteps, NoSpentTokenShown].

### Demo hub grants — `agentpalace-demo-hub/src/lib.rs`, `access_policy.rs`
- *State*, all in memory: browser transactions, device grants, authorization codes, verified claims
  parked for a consent form, token pairs in families, the access policy.
- *Operations*: begin a browser or a device sign-in, verify, consent or decline, exchange or poll,
  refresh with rotation, reuse detection, revocation, edits of the policy.
- *Hard*: callbacks await the identity provider, forms and polls come in any order, a rotation takes
  the lock twice, the policy changes in between.
- *Correct*: a grant is exchanged once, a refresh token rotated once, an admitted consent stands behind
  every token [HubInv], a revoked family stays revoked [RevokedStays].

### Feeds — `coordination.rs`, `sqlite.rs`, server routes, `agentpalace-mcp/src/federation.rs`
- *State*: messages with acknowledgements, coordination events, tasks, the change log; a reader keeps
  one cursor for each origin, the local palace and every remote.
- *Operations*: send and acknowledge messages, append events, read a page locally and from every remote
  at once.
- *Hard*: rows posted between pages, scopes that filter, remotes that fail, events that are inserted
  later than their time, readers that crash between two pages.
- *Correct*: a reader that continues from its cursors skips nothing, a keyed repeat posts nothing twice
  [FeedInv].

### Components without a model
| Component | State and operations | Hard behaviour, correctness |
| --- | --- | --- |
| Federation router but its feeds (`agentpalace-mcp/src/federation.rs`, `agentpalace-federation`) | routes, merged search and graph results | no state between calls |
| Demo hub forwarding (`agentpalace-demo-hub/src/forwarding.rs`) | forwarding table, limits, connections | policy is applied to every forwarded request |
| Server coordination routes but their pages, token files | wrappers, token reload | scopes |
| Search, dialect, embeddings | pure data transformation | no interleaving |
| Core types, configuration, A2A and MCP task types | values and mappings | mapping tables only |
| CLI, migration, setup | commands, file input and output | sequential |

The knowledge graph (`agentpalace-graph`) is modelled for one fact inside `LocalFirstWrites` and
`KgReceipts`, the ingestion pipeline (`agentpalace-ingest`) for one file inside `SourceMine`.

`PROJECT.json` lists each component with its sources and status, and under `hazards` the places where
they can go wrong in a way a test hardly reaches.

## 2. Modules and how they correspond to the code

| Module | Models | Extends / instantiates |
| --- | --- | --- |
| `CoordinationTasks` | the task half of the coordination store | |
| `Outbox` | the replication outbox, every operation that changes a row | instance of `FifoDelivery` |
| `FifoDelivery` | what the outbox promises: one queue per (remote, ordering key) | |
| `LocalFirstWrites` | tool calls, reconciliation, crashes and delivery for one fact | |
| `DrawerWrites` | the same for drawers of one content, with their ids, rows and ingest runs | |
| `KgReceipts` | the server's two graph mutation routes over receipts | |
| `DrawerRoutes` | the server's drawer add and delete routes | |
| `IngestBatch` | the server's ingest batches of one source | |
| `SourceMine` | mining, replicated ingestion and reconcile for one file | |
| `DiaryStore` | diary entries in two stores | |
| `MaintenanceRun` | background maintenance under a lease | |
| `SkillRegistry` | versions and reviews of one skill | |
| `DelegationSpans` | span trees, checkpoints, trace | |
| `RequestQueues` | admission, memory thread and transports of the MCP server | |
| `OAuthSession` | sessions of a remote client over a shared store and an issuer | |
| `HubGrants` | one sign-in to the demo hub and its token family | |
| `FeedPages` | a worker that follows local and remote feeds page by page | |
| `MCClient` | `LocalFirstWrites`, `DrawerWrites` and `OAuthSession` for TLC | all three |
| `MCLive` | `LocalFirstWrites` and `RequestQueues` for TLC, with fairness | both |
| `MCRemote` | `KgReceipts`, `DrawerRoutes`, `IngestBatch`, `HubGrants`, `FeedPages` for TLC | all five |
| `MCStorage` | `SourceMine`, `DiaryStore`, `MaintenanceRun`, `SkillRegistry`, `DelegationSpans` for TLC | all five |
| other `MC*` | one module each for TLC | |
| `CoordinationTasks_proofs`, `Outbox_proofs`, `KgReceipts_proofs` | theorems about one module | it |
| `Writes_proofs` | theorems | `LocalFirstWrites`, `DrawerWrites` |
| `Routes_proofs` | theorems | `IngestBatch`, `DrawerRoutes` |
| `McpServer_proofs` | theorems | `RequestQueues`, `SourceMine`, `FeedPages` |
| `Registries_proofs` | theorems | `MaintenanceRun`, `SkillRegistry`, `DiaryStore`, `DelegationSpans` |
| `Authorization_proofs` | theorems | `HubGrants`, `OAuthSession` |

**CoordinationTasks.** A store operation is one SQLite write transaction that also reads the clock
inside it, so it is one action; `Tick` moves the clock between transactions. `task` is the task
table, `artifact` the artifact table reduced to owning task and role, `events` the event feed. The
operations keep their names (`CreateTask`, `ImportTask`, `ClaimTask`, `RenewLease`, `TransitionTask`,
`PutArtifact`); `transition_task` to pending of running work is split into `YieldTask` and
`HandOffCheckpoint`, and the one rejection that writes, claiming after the deadline, is `Expire`.
Callers pass any revision, so stale calls are in the model. Guards are operators (`MayClaim`,
`MayYield`, `MayTransition`, `ValidHandoff`) in the order of the code's tests.

**Outbox, FifoDelivery.** The same reading of `outbox.rs`. `claim_next` takes the due head with the
lowest sequence among the groups of a remote; `reclaim_expired_lease` takes the oldest orphan without
looking for predecessors, which is what makes the order worth proving. `FifoDelivery` knows only
staged, queued and settled items with a place in a group; `Outbox` refines it by forgetting leases,
workers, clocks and revisions (`Fifo == INSTANCE FifoDelivery WITH ...`). The history variable `caller`
names the worker whose call the last step was, so that `NeverAbandoned` and `LiveLeaseKept` can speak of
the very worker that holds a lease, and not only of a lease that is live.

**LocalFirstWrites.** One fact with one remote. A process (`proc[p]`) is down, reconciling, ready or
inside a tool call; the steps of a call are the SQLite transactions between which others interleave:
`StageIntent` or `ReuseIntent`, `RegisterEntities`, `CommitLocal`, `FinishCall` (activation), or
`FailLocal`/`FailCancel`. A reconciliation pass is `ListStaged`, then `ProbeIntent` and `Decide` for
each entry of its snapshot, then `EndPass`, as in `reconcile_staged_replication`. The fact is
`known` (entities exist), `open` (no end date) or `lingering` (ended today, and so still current for
`is_active_on`). The history variable `strayed` records that the behaviour met one of the divergences of
section 6 (`RepeatsLate`, `EndedToday`, `Meets`); without it the properties would have to leave out keys,
dates or crashes altogether. `Deliver` is the whole life of an activated operation in `Outbox`, with the order
`Outbox` guarantees.

**DrawerWrites.** One process and one content, so that a second addition is a duplicate of the first.
`intents` is the outbox in the order of its sequence, with the key of each row: the caller's, the digest
of a drawer id (an unkeyed addition), or one that is never found again (an unkeyed deletion).
`tool_add_drawer` is `AddReplayed` (nothing happens), `AddDuplicate` or `AddDrawer`, which takes the
id an earlier attempt pinned (`Pinned`) or mints one; then `StoreDrawer` and `CommitDrawer`, the two
stores of `commit_ingest`, and `ActivateIntent`. `tool_delete_drawer` is `DeleteDrawer`,
`RemoveDrawer`, `ActivateIntent`, or `RecoverDelete`, or `ForwardDelete` for a drawer the palace does
not have. `FailWrite` and `FailCommit` end a call in the middle, `CrashTool` the process; `OpenPalace`
prunes rows whose run never committed. The remote refuses what `DrawerRoutes` refuses.

**KgReceipts.** Each request slot walks through the transactions of `route_kg_add` or
`route_kg_invalidate`: lock, receipt, effect, marker, event, completion, answer. The client is an
outbox group: it sends the next operation only after an acknowledgement and repeats after a lost
answer, and for the operations in `Overlapping` also while an earlier copy is still running. `Abort`
is a transaction that fails, `Crash` ends the server.

**DrawerRoutes.** The same client and slots for one drawer id. A drawer row is known by the ingest run
that stored it, which is what `filed_at` tells: the incarnation a delete captures in its receipt. A
request makes one call of one store per step (`Begin`, `LookUp` or `RecoverAdd`, `CheckDuplicate`,
`CreateRun`, `CheckExisting`, `AddRow`, `CommitRun`, `Capture`, `DeleteRow`, `DrawerLog`,
`DrawerComplete`); another client without operation ids adds and deletes the drawer, too.
`DrawerRestart` is the reconciliation every start of the server runs.

**IngestBatch.** Records of one source file, delivered in order and repeated, with late copies. A
request holds the source lock from `BeginRecord` to its end, as the guard of `route_ingest_batch`
does, and walks through validation, details, the ingest run, the sweep, the event and the cleanup.
`Recovering` is `recovering_committed_ingest`: whether the record's content was committed already.

**SourceMine.** Two processes mine a file that is edited, deleted and restored. `replicated` chooses
whether mines go through the journal (`LockSource`, `ApplyStaged`, `StageEffect`, `Activate`) or only
through the store (`CaptureExisting`, `CreatePendingRun`, `ClearExisting`, `AddRows`, `CommitMine`,
`Sweep`, or `RemoveRows`, `Forget`). Opening the palace reconciles: `ListStale`, `ReadCommitted`,
`Prune`, `MarkStale`, a step per call, so that what it read may be stale when it prunes.

**DiaryStore.** One entry, its body in LanceDB and its summary in SQLite; writes with their gate
(`create_pending_diary_run`), updates, deletions, failures and their cleanup, reconciliation of old
runs. Histories say whether calls overlapped or were interrupted, where the code promises less.

**MaintenanceRun.** The lease counts down a clock; a run is claimed, checked for activity, works
through three tiers with a renewal per tick, and releases. `Sleep` is a suspended process, the only
one that can miss a renewal unnoticed.

**SkillRegistry, DelegationSpans.** One action per transaction. `trace` has no transaction: a reader
takes a step per query. Summaries have a size in bytes and one in characters, because the code adds
one to the other; the run has summaries of one byte a character.

**RequestQueues.** Where each request is, who holds permits, mutex, channel and thread; over stdio
the loop reads and writes, over HTTP callers may leave at any time. A job may return, panic or never
end.

**OAuthSession.** Tasks (`hand`) of one or two processes; an await that leaves the process ends a
step. The issuer is modelled from the demo hub: `Rotated`, `FamilyRevoked`, `AccessEnds`. A save, a
revocation and a clear of the credential store may each fail (`SaveFails`, `RevocationFails`,
`ClearFails`), wherever the code makes one: in a sign-out, a recovery or an early refresh. A recovery
that cannot read the metadata or the store ends in `GiveUpRecovery`. `Logout` is a sign-out that knows its issuer, from its argument or
from memory; `LogoutUnnamed` is the one that does not, and ends before it touches the store. The history
variable `cleared` says whether the last sign-out of a process reported that it had emptied the store.

**HubGrants.** One sign-in, `kind` "browser" or "device". `grant` is the stored transaction or device
grant and the code that follows, `parked` the verified claims waiting for a consent form, `visit` the
browser requests in flight, between the callback and the verifier's answer (`Callback`, `Verified`,
`NotVerified`) or between the taking of the claims and the decision (`TakeClaims`, `Consent`,
`Decline`). A rotation (`refresh`) is three steps: `SpendToken` under the first lock, `CheckRole` or
`RefuseRotation` by the policy of that moment, `IssueNext` under the second lock. `EditPolicy`,
`ExpireGrant` and `RevokeFamily` happen at any time. The JSON form of device verification, which sends
claims and decision together, has no further state.

**FeedPages.** `feed` says which feed the worker follows; `log` is the rows of every palace in the order
of their sequence. `Post` is one transaction, which also assigns the sequence; a change event instead
takes its time where it is built (`StampEvent`) and is inserted later (`AppendEvent`). A tool call reads
the local page first and then asks the remotes (`ReadPage`, `FailPage`), which answer in any order.
Inbox, events and task list filter in their query, the change log filters after its page is cut. The
worker (`EndCall`) stores the non-null cursors of an answer when it has dealt with its rows, as
`docs/Coordination.md` asks; `LoseCall` is a crash before that.

**Composite modules.** Components that share no state are checked in one run each for the client, the
remote side, the stores and liveness. `focus`, chosen in the initial state and never changed, names the
component a behaviour is about; the others stay in one initial state of theirs. The behaviours of the
run are exactly those of its components, one after the other, never their interleavings: between
components without shared state these add nothing.

**How they fit.** `Outbox` justifies the one-step `Deliver` of `LocalFirstWrites` and the clients of
the receipt modules; those justify that a delivery, repeated or not, changes the remote once.
`SourceMine` stages the effects whose arrival `IngestBatch` handles.

## 3. Runs, bounds and what they show

| Run | Bounds | Shows |
| --- | --- | --- |
| `tasks_one` | 1 task, 2 workers, 1 artifact, with and without a deadline, clock to 3, revision to 4 | all eight properties of the task store |
| `outbox_store` | 3 operations, 2 remotes, 1 key, 2 workers, clock to 2, revision to 4 | all safety properties of the outbox and the refinement of `FifoDelivery` |
| `client` | writes: 1 process with 4 unkeyed operations and 2 faults; 1 process with an addition, 2 keyed invalidations that may end today and a fault; 1 process with a keyed addition, a keyed invalidation that may end today, 2 faults and 5 revisions; 2 processes with an addition, a keyed invalidation and a fault; drawers: 2 ids, 3 intents, a keyed addition, a keyed deletion, 2 faults; sign-in: 2 tasks of a process, 3 grants, 1 lost answer, failed save or failed clear | palace and remote converge in facts and drawers, intents are kept, a sign-out sticks, no spent token is shown |
| `live` | writes: 1 process, a keyed invalidation called again, 2 faults; requests: 3 memory calls, 1 lease call, limit 2 per lane | every intent settles, every caller is answered, leases are served beside stuck work, work is bounded |
| `remote` | facts: 6 operations, 3 slots, 4 faults; drawers: 3 operations, 2 slots, 2 requests of another client, 2 faults; ingest: 4 records, 2 slots, 3 faults; hub: 2 browsers, 2 refreshers, 2 attempts, 5 tokens; feeds: 2 palaces, 3 rows, pages of 2, 2 writers, clock to 3 | operations land once, are told once and stay; grants and tokens are used once; a reader skips nothing |
| `storage` | mining: 2 processes, 2 versions, 3 effects, 1 fault; diary: 2 processes, 3 texts, 2 faults; maintenance: 2 processes, 3 claims, 1 fault; skills: 2 actors, 2 wings, 3 versions; spans: 2 tasks, 3 spans, 2 checkpoints | the promises of the stores |
| `writes_replay`, `drawers_lost`, `mine_open`, `oauth_shared`, `drawers_window`, `hub_revoked` | smallest that show it | the findings of section 6 |

Why these bounds are enough to be interesting. Tasks: four revisions reach claim, yield, handoff or
reclaim, and completion; a clock of three lets a lease of each length run out before and after the
deadline; two workers are an executor and a rival, and the theorems below cover any number. Outbox:
three operations of one group are a predecessor, an orphan and a successor, which is what takeover
and revival need; a second remote shows that sequences are shared while order is not. Local-first:
an operation and its opposite before and after it, with two faults, put a crash on each side of every
step of an earlier operation while a later one proceeds. A keyed pair with five revisions is staged,
cancelled and staged again twice, so that each of the two can be called again before and after the other,
on the day the fact ends and after it. Drawers of the palace: three intents are an
addition, its deletion and one under the next id or a repeat; two faults are a failed write whose
cancellation fails, too, or a crash and a lost answer. Facts: three slots are a stalled copy, its
repeat, and the next operation; operation 6 is several operations past any copy that can still stall.
Drawer routes: add, delete, add again is the shortest sequence in which an incarnation matters, and two
faults are a crash and a failed repeat. Ingest: grow, shrink, remove and restore a source, with a
refusal in between. Mining: three effects are an interrupted one, its recovery's successor and a
removal. Diary: a write, its racing or repeated twin and an update. Maintenance: a lease of three
ticks renewed every tick can be missed by a sleeper and by nobody else; the third claim follows a
crash and a takeover. Skills: a promoted version, its successor and an older version promoted after
both. Spans: a root, its child and a sibling or grandchild. Requests: limit two, so that one of three
memory calls is refused, one waits and one runs. Sessions: three grants are the first, its rotation,
and the one after a sign-out. Hub: two browsers are a late callback and the form of its successor, two
refreshers a token used twice; five tokens let two rotations overlap and go on. Feeds: three rows are a
full page, its successor, and one that is posted, hidden or late in between.

TLC explores each run to the end; `CHECK_DEADLOCK FALSE` is set because all models stop at their
bounds (clock, revisions, number of operations), where the real system would go on. The symmetry sets
are of interchangeable model values and are used in no run that checks liveness. Some properties are
conjunctions of named parts with the module's type invariant (`DrawerInv`, `EntryConsistent`, ...).

`PROJECT.json` gives for each property a *mutant*: a plausible bug in a definition (for instance
`MayYieldLate`, which forgets the deadline test of a yield) under which the run finds the property
violated. The mutated operators stand next to the definitions they replace and are used nowhere else.

## 4. Fairness

Only the run `live` assumes fairness. `LiveSpec` states, for the behaviours about each component, what
the modules call `WritersAreFair` and `QueueFairness`.

`LocalFirstWrites`:
- `WF Start`: an MCP client restarts a server that ended.
- `WF Reconcile(p)`, `WF Serve(p)`: a pass or a tool call that began goes on to its end; both run on
  the process's own thread.
- `SF BeginPeriodic(p)`: the poll loop runs for the life of the process and waits for the runtime
  lock, a tokio mutex, which is granted in order of arrival. Tool calls may disable the step again and
  again by taking the lock, hence strong fairness.
- `SF Deliver(o)`: the worker loop polls for the life of the process; crashes interrupt it.
- `WF GracePasses(o)`: the clock moves on.

`RequestQueues`: weak fairness of the loop's reading and writing, of admission, of the fair mutex
(`LockRuntime` grants it in order of arrival), of the memory thread taking its job, of lease calls,
which are single SQLite transactions, and of a reply on its way. Nothing makes a memory job end: that
memory jobs end is an assumption inside `EveryCallAnswered`, and `LeaseAnswered` does without it.

Nothing is assumed of callers, crashes, failed cancellations, panics or midnight. Faults are bounded
by the setups of the runs: `IntentsSettle` is about systems that fail finitely often.

## 5. Proofs

TLAPS checks the following for every value of the constants that satisfies the assumptions of the
modules, which TLC evaluates in the runs. Most of those are plain: sentinels are not members of the
sets they stand beside, two kinds of operations share no id, bounds and durations are numbers, the
sets of processes or remotes that are counted are finite. These say more, and the code justifies them:
- `LeaseAssumption`: a maintenance lease lasts at least three renewals (`engine.rs` renews a
  lease of five minutes every minute). With less, a lease could run out under a healthy holder.
- `FeedAssumption`: a page has at least one row. `HubAssumption`: a sign-in has at least one attempt.

Some theorems have a condition of their own, `ASSUME ... PROVE Spec => []P`. Each is the condition the
runs have too, and each excludes a behaviour of the code that section 6 describes:

| Condition | Theorems | What it excludes |
| --- | --- | --- |
| `Overlapping \cap Adds = {}` | `KgReceipts_proofs`: all | overlapping copies of a keyed addition, which takes no lock |
| `DrawerOverlapping \cap DrawerAdds = {}` | `Routes_proofs`: `DInvHolds`, `DrawersHold`, `AckedOperationStays` | overlapping copies of a drawer addition |
| `~OpenWhileMining` | `McpServer_proofs`: `MineInvHolds`, `SkippingIsRight`, `JournalHolds` | an opening that prunes another process's staged ingestion |
| `OneSharer` | `Authorization_proofs`: `SessionHolds`, `SessionStepsHold` | a second process that rotates the stored grant |
| `OneByteACharacter` | `Registries_proofs`: `SpansKeptHolds`, `SpansAlwaysAddUp` | summaries with more bytes than characters, which the cap does not see |

`CoordinationTasks_proofs`
- `TypeCorrect` (`TypeOK`) is inductive alone, one step per action.
- `OwnershipHolds` (`OwnershipConsistent`): inductive together with `TypeOK`. The invariant is about
  one row at a time (`RowConsistent`); `WriteConsistent` shows once that a write of a consistent row
  is harmless, and each action then has to show only that its new row is consistent.
- `TerminalStaysFinal` (`TerminalIsFinal`): needs `OwnershipConsistent`, because `renew_lease` tests
  only owner and lease; a terminal row has neither.
- `LeaseExcludes` (`LiveLeaseExcludes`), `AffinityStays` (`AffinityMovesByHandoff`),
  `DeadlineStopsExecutors` (`NoNewExecutorAfterDeadline`): action properties from the same
  invariants. `StepOfTask` reduces a step that changes a task to an operation on that task; one lemma
  per operation (`ExpireEffect`, `ClaimEffect`, ...) says what it does to owner, affinity and lease.
- `AuditTrailAlways` (`AuditTrail`), `LastClaimantFinishes` (`FinishedByLastClaimant`): about the whole
  event sequence. `HistoryInv` ties a row to its events: their revisions are at most the row's, the last
  one shows the row's state, and who owns the task is who claimed it last. `TaskEventsGrow` says once
  what appending one event does to the events of every task.

`Outbox_proofs`
- `InvHolds`: the inductive invariant joins types, *sequences are at most lastSeq*, uniqueness,
  delivery order and the lease columns. Order alone is not inductive: that a reclaimed orphan has no
  active predecessor is true because it had none when it was leased and because everything staged or
  revived since got a sequence above `lastSeq`. From it follow `OrderedDelivery`, `UniqueSequences`,
  `ConsistentLeases`, and the action properties `ActivatedIsNeverAbandoned`, `LiveLeaseStays` and
  `RevisionsNameRows` (`RevisionNamesRow`).
- `OutboxImplementsFifo` (`DeliversFifo`): under the invariant, every step of `Outbox` is a `Stage`,
  `Decide` or `Settle` of `FifoDelivery` or leaves the mapped state unchanged. That acknowledge and fail
  settle only a head is `DeliveredInOrder`.

`Writes_proofs`
- `WritesInvHolds`, from which `WritesConverge` (`Converged`) and `IntentsAreKept` (`IntentsKept`)
  follow, for any processes, keys, dates and faults: no hypothesis restricts the setups; the properties
  themselves say what they claim once a behaviour has `strayed`, and for how many processes. That two
  replicas agree when all is settled is not inductive. Of a single process the invariant says that its
  call is the last to have staged an intent (`OneCallsInOrder`) and what settling would do: the last
  operation on its way to the remote makes the remote's fact the local one (`Tells`), but for at most one
  mutation, the last of all, which is committed here and not activated yet; that one is in a call, or a
  pass will list it and read its commit off the palace (`SentOrRecovered`). A call of the process itself
  is never disturbed, strayed or not (`OneServes`). With several processes it says that no two are in
  calls of one key, that a call's intent is not cancelled while it is young, and that a reconciler's
  verdict against an intent is about one that is old or was settled meanwhile (`OthersKeepIntents`); the
  compare-and-swap on the revision does the rest.
- `DrawersInvHolds`, from which `DrawersAgree` (`DrawersConverge`) follows: what the rows of a drawer
  still owe the remote. `HeldDrawers`, `GoneDrawers` and `NewDrawers` are the three situations of a
  drawer whose operations did not fail.

`KgReceipts_proofs`
- `ReceiptsStay`, from which `OperationsLandOnce` (`ReceiptInv`) and `ReplicaShowsLast`
  (`ReplicaFollows`) follow. A request that has begun its receipt and not completed it is the only one
  of its kind and works on the operation that is being delivered; every operation before it has landed,
  none after it has.

`Routes_proofs`
- `BInvHolds` gives `BatchIsToldOnce` (`BatchInv`): lock, receipts and log. `FileInvHolds` gives
  `LastRecordIsStored` (`RecordStored`): for every step of a request it says which rows, runs and
  manifest a crash at that point leaves, as a mixture of what the record before left and of the record
  delivered, and why a repeat completes it.
- `DInvHolds` gives `DrawersHold` (`DrawerInv`) and `AckedOperationStays` (`CommittedAddStays`): an
  incarnation of a drawer is named by its ingest run; the invariant says whose each run is, who captured
  it before deleting it, and that only that one is removed.

`McpServer_proofs`
- `AdmissionAlwaysHolds` (`AdmissionHolds`): a waiting request owns a permit and one place in the
  queue of the mutex; `QueueInv` says that
  a guard that is held has exactly one job, in the channel or in the memory thread, so that a send never
  finds a full channel.
- `MineInvHolds` gives `SkippingIsRight` (`SkipIsRight`) and `JournalHolds` (`JournalInv`): what an
  interrupted ingestion leaves is named by the effect that stays staged, and that effect is the last one
  and is recovered before the file is compared again.
- `FeedKeptHolds` gives `NothingIsSkipped` (`FeedInv`): whatever the cursor of a page in hand would pass
  is on the page or has been dealt with (`PagesCover`), and a cursor passes nothing that could still
  become visible below it (`CursorsKept`).

`Registries_proofs`
- `MaintInvHolds` gives `MaintenanceExcludes` (`LeaseDiscipline`); the renewal clock of a run bounds
  the age of its lease.
- `SkillInvHolds` gives `OneAuthorityAlways` (`OneAuthority`) and `LogExplainsAlways`
  (`ReviewsExplain`), for any length of the log: a row is governed by what stood when it was written,
  and no later transition takes that back (`KeepsProvenance`).
- `DiaryInvHolds` gives `EntryStaysConsistent` (`EntryConsistent`): until writers race with a deletion
  (`racing`), it says of every step of a call what body, summary and run it has written and not written.
- `SpansKeptHolds` gives `SpansAlwaysAddUp` (`SpansInv`): the siblings of a family have the numbers below
  their count, so that the order by number lists each of them once (`OrderLists`). Of a trace in progress
  it says that everything on the frontier is the root or a child of a node, which is why no span is
  listed twice although the tables grow between its queries, and that rows only grow and leave a closed
  span alone (`TraceIsKept`).

`Authorization_proofs`
- `HubIInvHolds` gives `GrantsAreSpentOnce` (`HubInv`): `GrantInv` is about the sign-in, `FamilyInv`
  about the tokens, and a rotation between its two locks has the only right to the successor of its
  token; `ExchangedFirst` joins them.
- `AuthInvHolds`, for any number of processes, says for every await of a task what the login lock keeps
  the others from doing. From it follow `SignedOutStaysOut` (`SignOutSticks`, a part of `SessionSteps`)
  and, for one process, `SessionHolds` (`SessionInv`) and `SessionStepsHold` (`SessionSteps`). `SessionInv`
  is about a sign-out that reported its record deleted (`cleared`): from then on nothing of what was under
  way fills the store again.

Every safety invariant and every action property of the passing runs is stated by a theorem. The
invariants were run through TLC before they were proved; several were strengthened there first.

Only model-checked: liveness under fairness (`IntentsSettle`, `LeaseAnswered`, `EveryCallAnswered`),
which is outside what the provers support, and the properties whose violation section 6 reports. What a
recursive definition or a fold computes for every input would need induction over data, which is out of
reach as well; the models count with sets and cardinalities instead, where they are proved about.

## 6. Where the code differs from what it says

Each is the single property of a run that TLC shows violated; `PROJECT.json` quotes the lines.

1. `writes_replay` (`ReplicasAgree`) — `kg_add` called again with the id of a delivered addition, after the fact was
   invalidated, opens the local fact again and sends nothing; `kg_invalidate` has a check against
   this, `kg_add` has none (`agentpalace-mcp/src/lib.rs:4479`).
2. `drawers_lost` — the recovery of a drawer add takes any stored row for an applied add and answers
   success; a row whose run was never committed is deleted by a later start of the server
   (`agentpalace-server/src/lib.rs:1863`).
3. `mine_open` — opening a palace prunes, without the source lock and from a list read earlier, the
   drawers of a staged ingestion that is older than an hour, while its recovery commits them
   (`agentpalace-storage/src/engine.rs:476`).
4. `oauth_shared` — the early refresh uses the grant in memory without a look at the shared store,
   which another process has rotated: a spent refresh token is shown, and the hub revokes the family
   (`agentpalace-remote/src/client.rs:822`).
5. `drawers_window` — a keyed deletion of a drawer that a crash left staged is repeated after an
   addition of the same content was staged for that drawer: it commits last and is delivered first,
   and the remote keeps a drawer the palace deleted (`agentpalace-storage/src/outbox.rs:380`).
6. `hub_revoked` — `refresh` spends a token under one lock and inserts its successor under another; a
   family revoked in between, by a reuse or by its user, gains a live pair
   (`agentpalace-demo-hub/src/lib.rs:1250`).

Seen while the models were built, described here only:

- An invalidation that ends a fact *today* and whose process stops before activation looks
  uncommitted to reconciliation, which cancels its intent (`agentpalace-mcp/src/lib.rs:2108`).
- A key whose intent a crash left staged, called again after later operations on the fact were staged:
  `enqueue` returns the row in its old place (`agentpalace-storage/src/outbox.rs:380`), the repeat commits
  last and is delivered before the others. It is the case of finding 5 for facts.
- Two processes that call one key at a time share its intent; when the first one's local write fails, it
  cancels the intent that the second one's mutation still needs (`agentpalace-mcp/src/lib.rs:2139`).
- A sign-out whose `token_store.clear` fails has signed the process out and leaves the grant stored, where
  another process, or this one after a restart, finds it (`agentpalace-remote/src/client.rs:1031`); the
  same error in a recovery (`776`) or an early refresh (`830`) leaves a rejected grant. `logout` without an
  issuer and with no grant in memory marks the process signed out and looks neither at the store nor at
  the issuer (`1003`).
- A drawer whose process ends between its row and the commit of its run is delivered by the next start
  and pruned from the palace by a start more than an hour later, while the remote keeps it
  (`agentpalace-storage/src/engine.rs:153`). If the commit fails with the row in place, the intent is
  cancelled and the palace keeps a drawer the remote never gets, at least until the call is repeated.
- Two processes that make the same keyed addition: the second insertion fails and cancels the intent
  which the comment on activation (`agentpalace-mcp/src/lib.rs:2139`) takes to be shared by an
  idempotent mutation; the stored drawer stays behind until the call is repeated.
- A deletion that waits for a retry is overtaken by an addition of the same content under a new id,
  which is another ordering group: the remote refuses it for good as a duplicate. An addition of a
  content that is already replicated, under another key, is likewise queued and refused.
- Two processes that stage operations in one order and commit them in the other leave palace and
  remote different; nothing in the code orders them (`agentpalace-mcp/src/lib.rs:4688`).
- `route_kg_add` takes no lock: a stalled first copy adds the fact again after its repeat and a later
  invalidation are done (`agentpalace-server/src/lib.rs:2574`). Overlapping copies of a drawer delete
  may likewise tell it twice (`lib.rs:2201`), overlapping adds may store the row twice
  (`agentpalace-storage/src/lance.rs:502`).
- Effect and effect marker of an invalidation are two transactions; a crash between them and the
  repeat leave a transition without a change event (`lib.rs:2823`).
- A record that was interrupted while it replaced drawers and is then refused for good leaves its
  drawers under the manifest of the record before; a later record with that older content is skipped as
  unchanged (`lib.rs:3563`).
- A deletion of a diary entry that overlaps two writers of it opens the gate that keeps the writers
  apart: the late cleanup of the summary lets the second one in, and the id may get two rows
  (`agentpalace-storage/src/lance.rs:502` refuses a row that is there, not one that is being added).
- A failed first tier is reported as a partial run when activity interrupts a later tier
  (`agentpalace-storage/src/engine.rs:937`).
- Activity that begins between the second and the third tier ends a maintenance run without changing
  its status (`agentpalace-storage/src/engine.rs:1028`); the lease is tested inside tiers, not
  between them (`engine.rs:538`).
- Retiring the promoted version of a shared skill leaves the skill without a governing version, so
  that its next proposal needs no review.
- The cap of a span's summaries adds a length in characters to one in bytes; with wider characters
  more is stored than the cap allows (`agentpalace-storage/src/delegation.rs:456`).
- A provider callback parks the claims it verified although its attempt was superseded or its
  transaction is over by then; nothing prunes them (`agentpalace-demo-hub/src/lib.rs:2101`, `2428`).
- A change event may be inserted behind a reader's cursor, after a younger one that was inserted first
  (`agentpalace-storage/src/sqlite.rs:2278`), although `docs/Demo-Hub-REST-Inventory.md:582` calls the
  log ordered and append-only. A remote without a cursor is asked from the local `since`; what it
  logged while it was unreachable is skipped when the reader has moved `since` meanwhile
  (`agentpalace-mcp/src/lib.rs:4962`).
- `get_changes_since` selects times after `since` with a limit: of several local events at one time,
  those after the end of a page are lost (`sqlite.rs:2206`). Times are compared as text, and
  `encode_time` (`sqlite.rs:2644`) trims fractions of a second, which puts some times after later ones.

What the passing runs leave out because of these, and the theorems too, by the same conditions in the
properties or as their hypotheses:

- `Converged` and, of `IntentsKept`, that committed operations are not cancelled, claim nothing of a
  behaviour from the step on at which it `strayed`. With one process there are three such steps: a key is
  called again for an intent still staged behind later ones; a key is called again for an addition that is
  past staging, after the fact has ended; a pass looks at an intent on the day the fact ended. Keys, dates
  and faults are otherwise combined freely. Both say nothing of several processes, nor does
  `IntentsKept` of a call that takes longer than the grace period while another process reconciles, or once
  two calls of one key have met.
- `SignOutEmptiesStore` speaks of sign-outs that reported their record deleted.
- `ReceiptInv` has no overlapping copies of an addition and claims nothing about the log after a fault.
- `DrawerInv` counts deletions only while copies do not overlap; `CommittedAddStays` speaks of adds
  whose run was committed.
- `RecordStored` speaks of sources of which no record was refused for good.
- `SkipIsRight` has no opening that finds another process's staged ingestion older than an hour.
- `EntryConsistent` claims nothing of body and summary after an update or a deletion overlapped another
  call, but for their types.
- `DrawersConverge` has one process, and claims nothing of drawers one of whose operations failed for
  good, whose ingest run did not commit, or with an intent that was taken up again in its old place.
- `SessionSteps` has one process, and speaks of spent tokens only as long as nothing failed.
- `SpansInv` has summaries of one byte a character.
- `HubInv` claims that a family stays revoked only if it was not revoked between the two locks of a
  rotation.
- `FeedInv` claims nothing of change events inserted after a younger one, nor of local events that share
  a time; its worker keeps its `since` while a remote it has no cursor of failed.

Each module states its condition at the property.

## 7. Assumptions and what is not modelled

- SQLite transactions are atomic and isolated (`BEGIN IMMEDIATE`), a LanceDB call is atomic, and
  committed data survives a process crash.
- The wall clock does not go backwards, and processes sharing a palace share it.
- `Outbox` leaves out attempt counts, error texts and per-entity sequences, which no transition reads;
  payload comparison on replay is reduced to remote and key. Comparison of due times by `julianday`
  is taken as comparison of times.
- `LocalFirstWrites`: one fact and one remote, which no other palace writes; no start dates; an end
  date in the future behaves like one that is today. A delivery succeeds eventually: permanent
  rejection is part of `Outbox` and `DrawerWrites` only.
- `DrawerWrites`: contents that are similar but not equal, other metadata and several remotes are left
  out; a remote repeats its answer to an operation that took effect.
- `KgReceipts`: an operation id always carries the same request (the conflict answer is left out), an
  explicit end date, and one owner; the client is the only writer of the fact.
- `DrawerRoutes`: drawer ids are pinned by the client and contents of one id do not differ; near
  duplicates are a case of finding an existing row.
- `IngestBatch`: a record's drawers are named by its version; validation is a verdict of the record.
- `SourceMine`: one file; whether its walk finds it is the state of the disk. Clock time matters only
  as "older than an hour".
- `DiaryStore`: one entry; `MaintenanceRun`: tiers succeed, fail or lose their lease, what they
  compact is left out; `SkillRegistry`: one skill, outcomes are counted as success or failure.
- `DelegationSpans`: summaries of one byte a character; the cap is scaled down with them.
- `RequestQueues`: a request is a memory call or a lease call; what it computes is left out.
- `OAuthSession`: one remote; discovery, PKCE and the browser are one step of the user.
- `HubGrants`: one sign-in of one owner; role ceilings and scopes are left out, an owner is admitted or
  not; lifetimes end by steps that may happen at any time.
- `FeedPages`: all palaces read one clock, and times are ordered as their texts; a worker follows one
  feed with one filter, and its token's scope does not change. The state filter of the task list, which
  is documented to show current rows and no snapshot, is left out.

Not modelled: the components of the last table of section 1; results and reads by id of the
coordination store; the limits, connections and token files of the demo hub; `remove_source_prefix` and
re-embedding of the storage engine; the back-off of the worker. Search, dialect, embeddings,
configuration, command line and the protocol types transform data without state that several steps share.

## 8. Plan

In this order; each step adds a module, its run and then its theorems.

1. `ExclusiveLease`, an abstract lease that coordination tasks, outbox rows and the maintenance lease
   each implement by a refinement mapping.
2. Results of the coordination store and its reads by id, which fall back to the remotes.
3. The merging of search and graph results from several palaces.

Theorems: those of the modules above, the refinements to `ExclusiveLease` first; an abstract replica that
`LocalFirstWrites` and `KgReceipts` implement together; the drawer routes with overlapping additions, for
what still holds of them.
