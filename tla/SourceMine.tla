----------------------------- MODULE SourceMine -----------------------------
(***************************************************************************)
(* Mining one source file (agentpalace-ingest/src/lib.rs) over the storage *)
(* engine (agentpalace-storage/src/engine.rs and replicated_ingest.rs).    *)
(* The drawers of the file are rows of LanceDB; its runs, manifests and    *)
(* last ingested hash are in SQLite; nothing spans the two.  A replicated  *)
(* mine stages the exact effect in the outbox first and applies it under a *)
(* file lock, and every later mine completes staged effects before its own;*)
(* a local mine has neither.                                               *)
(*                                                                         *)
(* Every step of a process is one call of one store.  A process may stop   *)
(* after any of them; starting it opens the engine, which reconciles stale *)
(* pending runs.  Ids of drawers are stable across versions of the file.   *)
(* Delivery is left to Outbox but for its failure.                         *)
(***************************************************************************)
EXTENDS Integers, FiniteSets, Sequences

CONSTANTS
  Miners,         \* processes that mine the palace
  FileVersions,       \* contents of the file
  ChunksOf,       \* the ids of the drawers each version is cut into
  Gone,           \* the file is not there
  Modes,          \* whether the mines replicate, in different behaviours
  OpenWhileMining,\* a process may open the palace while another one stores
  MaxEffects,     \* bound on the effects staged, and on the runs of a local mine
  MaxMineFaults   \* bound on crashes, failed writes and failed deliveries

Ids == UNION {ChunksOf[v] : v \in FileVersions}

Contents == FileVersions \cup {Gone}

MineRuns == 1..(2 * MaxEffects)

VARIABLES
  replicated,  \* whether the mines replicate; never changes
  disk,        \* the file
  drawers,     \* LanceDB rows: id and version
  record,      \* ingest_files: the version last committed, Gone without a row
  runOf,       \* ingest_runs, with the version whose ids the manifest lists
  staged,      \* outbox operations of the source
  holder,      \* the process that holds the file lock, or none
  miner,       \* the processes
  mineFaults   \* faults so far

mineVars == <<replicated, disk, drawers, record, runOf, staged, holder, miner, mineFaults>>

Effect == [version : Contents, previous : SUBSET Ids, state : {"staged", "queued", "failed"}]

NoOne == "no process"

ASSUME MineAssumption ==
  /\ Gone \notin FileVersions /\ NoOne \notin Miners /\ Modes \subseteq BOOLEAN
  /\ MaxEffects \in Nat /\ MaxMineFaults \in Nat

MinerState ==
  [pc       : {"down", "listing", "reading", "pruning", "marking", "ready", "waiting", "locked",
               "capturing", "creating", "clearing", "adding", "committing", "sweeping",
               "removing", "forgetting", "activating"},
   want     : Contents \cup {NoOne},  \* the version still to be staged
   apply    : Contents,               \* the version being applied
   effect   : 0..MaxEffects,          \* the staged effect it belongs to
   run      : MineRuns \cup {0},
   existing : SUBSET Ids,             \* committed ids of the source before the run
   stale    : SUBSET MineRuns,        \* reconcile: the runs listed
   known    : SUBSET Ids]             \* reconcile: the committed ids read

Off == [pc |-> "down", want |-> NoOne, apply |-> Gone, effect |-> 0, run |-> 0, existing |-> {},
        stale |-> {}, known |-> {}]

ReadyMiner == [Off EXCEPT !.pc = "ready"]

MineTypeOK ==
  /\ replicated \in BOOLEAN /\ disk \in Contents
  /\ drawers \subseteq Ids \X FileVersions
  /\ record \in Contents
  /\ runOf \in [MineRuns -> [status  : {"none", "pending", "stale", "committed", "failed"},
                             version : FileVersions]]
  /\ staged \in Seq(Effect) /\ Len(staged) <= MaxEffects
  /\ holder \in Miners \cup {NoOne}
  /\ miner \in [Miners -> MinerState]
  /\ mineFaults \in 0..MaxMineFaults
  /\ \A p \in Miners : miner[p].pc \in {"locked", "activating"} => holder = p

MineInit ==
  /\ replicated \in Modes
  /\ disk \in FileVersions
  /\ drawers = {} /\ record = Gone
  /\ runOf = [r \in MineRuns |-> [status |-> "none", version |-> disk]]
  /\ staged = <<>>
  /\ holder = NoOne
  /\ miner = [p \in Miners |-> Off]
  /\ mineFaults = 0

-----------------------------------------------------------------------------
(* Helpers.                                                                *)

On(p, pc)      == miner[p].pc = pc
Step(p, pc)    == miner' = [miner EXCEPT ![p].pc = pc]
Chunked(v)     == IF v = Gone THEN {} ELSE ChunksOf[v]
IdsOf(r)       == ChunksOf[runOf[r].version]
With(status)   == {r \in MineRuns : runOf[r].status = status}
SetRuns(rs, s) == runOf' = [r \in MineRuns |-> IF r \in rs THEN [runOf[r] EXCEPT !.status = s]
                                                           ELSE runOf[r]]
Unused         == {r \in MineRuns : \A q \in MineRuns : q >= r => runOf[q].status = "none"}
Without(ids)   == {d \in drawers : d[1] \notin ids}

\* committed_drawer_ids: every manifest ever committed.
EverCommitted == UNION {IdsOf(r) : r \in With("committed")}

\* committed_drawer_ids_for_source_key: the latest committed run.
LatestCommitted ==
  UNION {IdsOf(r) : r \in {q \in With("committed") : \A x \in With("committed") : x <= q}}

Opening(p)  == miner[p].pc \in {"listing", "reading", "pruning", "marking"}
Storing(p)  == miner[p].pc \notin {"down", "ready"} /\ ~Opening(p)

-----------------------------------------------------------------------------
(* StorageEngine::open and reconcile.                                      *)

\* Local mines of one source at the same time are not modelled.
StartMiner(p) ==
  /\ On(p, "down")
  /\ ~replicated => \A q \in Miners : On(q, "down")
  /\ OpenWhileMining \/ \A q \in Miners : ~Storing(q)
  /\ Step(p, "listing")
  /\ UNCHANGED <<replicated, disk, drawers, record, runOf, staged, holder, mineFaults>>

ListStale(p) ==
  /\ On(p, "listing")
  /\ miner' = [miner EXCEPT ![p].stale = With("stale"),
                            ![p].pc = IF With("stale") = {} THEN "ready" ELSE "reading"]
  /\ UNCHANGED <<replicated, disk, drawers, record, runOf, staged, holder, mineFaults>>

ReadCommitted(p) ==
  /\ On(p, "reading")
  /\ miner' = [miner EXCEPT ![p].known = EverCommitted, ![p].pc = "pruning"]
  /\ UNCHANGED <<replicated, disk, drawers, record, runOf, staged, holder, mineFaults>>

\* Rows with an id of a stale run that no committed manifest lists.
Prune(p) ==
  /\ On(p, "pruning")
  /\ drawers' = Without((UNION {IdsOf(r) : r \in miner[p].stale}) \ miner[p].known)
  /\ Step(p, "marking")
  /\ UNCHANGED <<replicated, disk, record, runOf, staged, holder, mineFaults>>

MarkStale(p) ==
  /\ On(p, "marking")
  /\ SetRuns({r \in miner[p].stale : runOf[r].status # "none"}, "failed")
  /\ miner' = [miner EXCEPT ![p] = ReadyMiner]
  /\ UNCHANGED <<replicated, disk, drawers, record, staged, holder, mineFaults>>

-----------------------------------------------------------------------------
(* ingest_project_with_replication: one file.                              *)

LastEffect == staged[Len(staged)]

\* An unchanged file is skipped; a replicated mine still journals it unless the latest effect of the
\* source has this content and did not fail.
Queued ==
  staged # <<>> /\ LastEffect.version = disk /\ LastEffect.state # "failed"

Skips == record = disk /\ (replicated /\ disk # Gone => Queued)

\* The sweep removes a source whose file is gone, and stages a removal again that failed.
FailedRemoval == staged # <<>> /\ LastEffect.version = Gone /\ LastEffect.state = "failed"

Mines == IF disk = Gone THEN record # Gone \/ (replicated /\ FailedRemoval) ELSE ~Skips

Enter(p) == IF replicated THEN "waiting" ELSE IF disk = Gone THEN "removing" ELSE "capturing"

BeginMine(p) ==
  /\ On(p, "ready")
  /\ Mines
  /\ OpenWhileMining \/ \A q \in Miners : ~Opening(q)
  /\ Len(staged) < MaxEffects /\ Unused # {}
  /\ miner' = [miner EXCEPT ![p].pc = Enter(p), ![p].want = disk, ![p].apply = disk]
  /\ UNCHANGED <<replicated, disk, drawers, record, runOf, staged, holder, mineFaults>>

\* recover_replicated_ingestion, at the start of a mine and of the MCP server.
BeginRecovery(p) ==
  /\ On(p, "ready") /\ replicated
  /\ \E i \in DOMAIN staged : staged[i].state = "staged"
  /\ OpenWhileMining \/ \A q \in Miners : ~Opening(q)
  /\ Unused # {}
  /\ Step(p, "waiting")
  /\ UNCHANGED <<replicated, disk, drawers, record, runOf, staged, holder, mineFaults>>

-----------------------------------------------------------------------------
(* replicated_ingest.rs.                                                   *)

LockSourceNot(p) ==
  /\ On(p, "waiting")
  /\ holder' = p
  /\ Step(p, "locked")
  /\ UNCHANGED <<replicated, disk, drawers, record, runOf, staged, mineFaults>>

LockSource(p) ==
  /\ On(p, "waiting")
  /\ holder = NoOne
  /\ holder' = p
  /\ Step(p, "locked")
  /\ UNCHANGED <<replicated, disk, drawers, record, runOf, staged, mineFaults>>

\* recover_replicated_source_locked takes the staged effects in insertion order.
Recoverable == {i \in DOMAIN staged : staged[i].state = "staged"}

ApplyStaged(p) ==
  /\ On(p, "locked")
  /\ \E i \in Recoverable :
       /\ \A j \in Recoverable : i <= j
       /\ miner' = [miner EXCEPT ![p].effect = i, ![p].apply = staged[i].version,
                                 ![p].pc = IF staged[i].version = Gone THEN "removing"
                                                                       ELSE "capturing"]
  /\ UNCHANGED <<replicated, disk, drawers, record, runOf, staged, holder, mineFaults>>

\* commit_replicated_source: the ids to clean up are captured before the effect is staged.
CapturedNothing(v) == {}

Captured(v) == LatestCommitted

StageEffect(p) ==
  /\ On(p, "locked") /\ Recoverable = {} /\ miner[p].want # NoOne
  /\ Len(staged) < MaxEffects
  /\ staged' = Append(staged, [version |-> miner[p].want, previous |-> Captured(miner[p].want),
                               state |-> "staged"])
  /\ miner' = [miner EXCEPT ![p].want = NoOne]
  /\ UNCHANGED <<replicated, disk, drawers, record, runOf, holder, mineFaults>>

ReleaseSource(p) ==
  /\ On(p, "locked") /\ Recoverable = {}
  /\ miner[p].want = NoOne \/ Len(staged) = MaxEffects
  /\ holder' = NoOne
  /\ miner' = [miner EXCEPT ![p] = ReadyMiner]
  /\ UNCHANGED <<replicated, disk, drawers, record, runOf, staged, mineFaults>>

Activate(p) ==
  /\ On(p, "activating")
  /\ staged' = [staged EXCEPT ![miner[p].effect].state = "queued"]
  /\ miner' = [miner EXCEPT ![p] = [ReadyMiner EXCEPT !.pc = "locked", !.want = miner[p].want]]
  /\ UNCHANGED <<replicated, disk, drawers, record, runOf, holder, mineFaults>>

-----------------------------------------------------------------------------
(* replace_source_drawers, commit_ingest and put_drawers with Overwrite.   *)

CaptureExisting(p) ==
  /\ On(p, "capturing")
  /\ miner' = [miner EXCEPT ![p].existing = LatestCommitted, ![p].pc = "creating"]
  /\ UNCHANGED <<replicated, disk, drawers, record, runOf, staged, holder, mineFaults>>

CreatePendingRun(p) ==
  /\ On(p, "creating")
  /\ \E r \in Unused :
       /\ \A x \in Unused : r <= x
       /\ runOf' = [runOf EXCEPT ![r] = [status |-> "pending", version |-> miner[p].apply]]
       /\ miner' = [miner EXCEPT ![p].run = r, ![p].pc = "clearing"]
  /\ UNCHANGED <<replicated, disk, drawers, record, staged, holder, mineFaults>>

\* Overwrite deletes the rows that have an id of the new ones before it adds them.
ClearNothing(p) ==
  /\ On(p, "clearing")
  /\ Step(p, "adding")
  /\ UNCHANGED <<replicated, disk, drawers, record, runOf, staged, holder, mineFaults>>

ClearExisting(p) ==
  /\ On(p, "clearing")
  /\ drawers' = Without(ChunksOf[miner[p].apply])
  /\ Step(p, "adding")
  /\ UNCHANGED <<replicated, disk, record, runOf, staged, holder, mineFaults>>

AddRows(p) ==
  /\ On(p, "adding")
  /\ drawers' = drawers \cup {<<i, miner[p].apply>> : i \in ChunksOf[miner[p].apply]}
  /\ Step(p, "committing")
  /\ UNCHANGED <<replicated, disk, record, runOf, staged, holder, mineFaults>>

\* mark_run_committed does not look at the status the run has.
CommitMine(p) ==
  /\ On(p, "committing")
  /\ runOf' = [runOf EXCEPT ![miner[p].run].status = "committed"]
  /\ record' = miner[p].apply
  /\ Step(p, "sweeping")
  /\ UNCHANGED <<replicated, disk, drawers, staged, holder, mineFaults>>

\* Old ids the new version does not have: those found now and those staged with the effect.
Leftover(p) ==
  (miner[p].existing \cup IF miner[p].effect = 0 THEN {} ELSE staged[miner[p].effect].previous)
    \ Chunked(miner[p].apply)

AfterStore(p) ==
  miner' = [miner EXCEPT ![p] = IF replicated THEN [@ EXCEPT !.pc = "activating"] ELSE ReadyMiner]

Sweep(p) ==
  /\ On(p, "sweeping")
  /\ drawers' = Without(Leftover(p))
  /\ AfterStore(p)
  /\ UNCHANGED <<replicated, disk, record, runOf, staged, holder, mineFaults>>

\* remove_source_key: the rows of the latest committed run, then all of the source's metadata.
RemoveRows(p) ==
  /\ On(p, "removing")
  /\ drawers' = Without(LatestCommitted)
  /\ Step(p, "forgetting")
  /\ UNCHANGED <<replicated, disk, record, runOf, staged, holder, mineFaults>>

Forget(p) ==
  /\ On(p, "forgetting")
  /\ SetRuns(MineRuns, "none")
  /\ record' = Gone
  /\ miner' = [miner EXCEPT ![p] = IF replicated THEN [@ EXCEPT !.pc = "sweeping", !.existing = {}]
                                                 ELSE ReadyMiner]
  /\ UNCHANGED <<replicated, disk, drawers, staged, holder, mineFaults>>

-----------------------------------------------------------------------------
(* The user, time and faults.                                              *)

Edit ==
  /\ disk' \in Contents \ {disk}
  /\ UNCHANGED <<replicated, drawers, record, runOf, staged, holder, miner, mineFaults>>

\* A pending run nobody works on gets older than stale_after, an hour.
RunsAge ==
  LET old == {r \in With("pending") : \A p \in Miners : miner[p].run # r} IN
    /\ old # {}
    /\ SetRuns(old, "stale")
    /\ UNCHANGED <<replicated, disk, drawers, record, staged, holder, miner, mineFaults>>

\* A LanceDB write fails, before or after it took effect; the run is marked failed and the mine
\* ends with an error.  The lock goes with it.
FailWrite(p) ==
  /\ miner[p].pc \in {"clearing", "adding"}
  /\ mineFaults < MaxMineFaults
  /\ mineFaults' = mineFaults + 1
  /\ drawers' \in {drawers} \cup
                  (IF On(p, "adding")
                     THEN {drawers \cup {<<i, miner[p].apply>> : i \in ChunksOf[miner[p].apply]}}
                     ELSE {Without(ChunksOf[miner[p].apply])})
  /\ SetRuns({miner[p].run}, "failed")
  /\ miner' = [miner EXCEPT ![p] = ReadyMiner]
  /\ holder' = IF holder = p THEN NoOne ELSE holder
  /\ UNCHANGED <<replicated, disk, record, staged>>

CrashMiner(p) ==
  /\ ~On(p, "down")
  /\ mineFaults < MaxMineFaults
  /\ mineFaults' = mineFaults + 1
  /\ miner' = [miner EXCEPT ![p] = Off]
  /\ holder' = IF holder = p THEN NoOne ELSE holder
  /\ UNCHANGED <<replicated, disk, drawers, record, runOf, staged>>

ExitMiner(p) ==
  /\ On(p, "ready")
  /\ miner' = [miner EXCEPT ![p] = Off]
  /\ UNCHANGED <<replicated, disk, drawers, record, runOf, staged, holder, mineFaults>>

FailDelivery(i) ==
  /\ staged[i].state = "queued"
  /\ mineFaults < MaxMineFaults
  /\ mineFaults' = mineFaults + 1
  /\ staged' = [staged EXCEPT ![i].state = "failed"]
  /\ UNCHANGED <<replicated, disk, drawers, record, runOf, holder, miner>>

Open(p)  == ListStale(p) \/ ReadCommitted(p) \/ Prune(p) \/ MarkStale(p)

Store(p) ==
  \/ CaptureExisting(p) \/ CreatePendingRun(p) \/ ClearExisting(p) \/ AddRows(p) \/ CommitMine(p)
  \/ Sweep(p) \/ RemoveRows(p) \/ Forget(p)

Journal(p) ==
  LockSource(p) \/ ApplyStaged(p) \/ StageEffect(p) \/ ReleaseSource(p) \/ Activate(p)

MineNext ==
  \/ \E p \in Miners :
       \/ StartMiner(p) \/ Open(p) \/ BeginMine(p) \/ BeginRecovery(p) \/ Journal(p) \/ Store(p)
       \/ FailWrite(p) \/ CrashMiner(p) \/ ExitMiner(p)
  \/ \E i \in DOMAIN staged : FailDelivery(i)
  \/ Edit \/ RunsAge

MineSpec == MineInit /\ [][MineNext]_mineVars

-----------------------------------------------------------------------------
(* Safety.                                                                 *)

\* The drawers are exactly those of the recorded version, so a later mine may skip the file.
Stored == drawers = {<<i, record>> : i \in Chunked(record)}

AtRest == Recoverable = {} /\ \A p \in Miners : ~Storing(p) \/ miner[p].pc \in {"waiting", "locked"}

\* Once no effect is staged, skipping an unchanged file is right: the recorded version is what is
\* stored, wherever earlier mines were interrupted (replicated_ingest.rs: "a failed or interrupted
\* local write remains staged and is completed by recovery without rereading source files").  A
\* local mine promises it only as long as nothing fails.
SkipIsRight == AtRest /\ (replicated \/ mineFaults = 0) => Stored

\* The effects leave in the order they were applied here: at rest the remote was last sent what is
\* recorded (recover_replicated_ingestion: "in insertion order before newer mines can replace
\* them").
RemoteGetsRecord == AtRest /\ staged # <<>> => LastEffect.version = record

\* The journal of staged effects, with the types.
JournalInv == MineTypeOK /\ RemoteGetsRecord
=============================================================================
