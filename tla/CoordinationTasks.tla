------------------------- MODULE CoordinationTasks -------------------------
(***************************************************************************)
(* The task half of the coordination store                                 *)
(* (agentpalace-storage/src/coordination.rs).  Every operation is one      *)
(* BEGIN IMMEDIATE SQLite transaction that reads the clock inside the      *)
(* transaction, so every operation is one action here.  A rejected call    *)
(* (stale revision, live lease of another worker, terminal task, ...)      *)
(* writes nothing and is a stuttering step; the one rejection that does    *)
(* write, a claim after the task's deadline, is the action Expire.         *)
(*                                                                         *)
(* A member of Tasks stands for one (created_by, idempotency_key) pair and *)
(* a member of Artifacts for one such pair of put_artifact: the store      *)
(* keeps at most one row per pair.  The wing of a task is left to the feed *)
(* model; titles, budgets and payload sizes are left out.                  *)
(***************************************************************************)
EXTENDS Integers, Sequences

CONSTANTS
  Workers,       \* actor identities, asserted by the caller
  Tasks,         \* (created_by, idempotency_key) pairs of create/import
  Artifacts,     \* (created_by, idempotency_key) pairs of put_artifact
  Nobody,        \* SQL NULL in owner and executor_affinity
  NoTask,        \* an artifact slot that was never written
  Deadlines,     \* values of expires_at a creator may ask for
  Ttls,          \* positive lease durations a worker may ask for
  MaxTime,       \* bound on the clock
  MaxRevision    \* bound on a task's revision

NoTime == -1

ASSUME ConstantsAssumption ==
  /\ Nobody \notin Workers
  /\ NoTask \notin Tasks
  /\ Deadlines \subseteq Nat \cup {NoTime}
  /\ Ttls \subseteq Nat \ {0}
  /\ MaxTime \in Nat
  /\ MaxRevision \in Nat

TerminalStates == {"completed", "cancelled", "failed", "expired"}
LiveStates     == {"pending", "running", "input_required"}
TaskStates     == LiveStates \cup TerminalStates
Roles          == {"checkpoint", "other"}
EventTypes     == {"task_created", "task_expired", "task_claimed", "task_resumed",
                   "task_reclaimed", "lease_renewed", "task_yielded",
                   "task_checkpoint_handed_off", "task_transitioned",
                   "artifact_created"}

VARIABLES
  task,       \* coordination_tasks, one row per created task
  artifact,   \* coordination_artifacts: owning task and role
  events,     \* coordination_events in sequence order
  now         \* the wall clock of the host

vars == <<task, artifact, events, now>>

\* A row of coordination_tasks; "absent" is a key that has no row yet.
Row == [state    : TaskStates \cup {"absent"},
        revision : Nat,
        owner    : Workers \cup {Nobody},
        affinity : Workers \cup {Nobody},
        lease    : Nat \cup {NoTime},
        deadline : Nat \cup {NoTime},
        refs     : SUBSET Tasks]

NoRow == [state |-> "absent", revision |-> 0, owner |-> Nobody, affinity |-> Nobody,
          lease |-> NoTime, deadline |-> NoTime, refs |-> {}]

\* A lease event carries no states and an artifact event no revision.
Event == [task     : Tasks,
          type     : EventTypes,
          actor    : Workers,
          from     : TaskStates \cup {"none"},
          to       : TaskStates \cup {"none"},
          revision : Nat \cup {-1}]

TypeOK ==
  /\ task \in [Tasks -> Row]
  /\ artifact \in [Artifacts -> [task : Tasks \cup {NoTask}, role : Roles]]
  /\ events \in Seq(Event)
  /\ now \in Nat

Init ==
  /\ task = [t \in Tasks |-> NoRow]
  /\ artifact = [a \in Artifacts |-> [task |-> NoTask, role |-> "other"]]
  /\ events = <<>>
  /\ now = 0

-----------------------------------------------------------------------------
(* Helpers of the store.                                                   *)

Created(t)      == task[t].state # "absent"
Terminal(s)     == s \in TerminalStates
LeaseLive(t)    == task[t].lease > now
DeadlineOver(t) == task[t].deadline # NoTime /\ task[t].deadline <= now

AllowedTransition(from, to) ==
  \/ from = "pending" /\ to \in {"cancelled", "expired"}
  \/ from = "running" /\ to \in {"input_required"} \cup TerminalStates
  \/ from = "input_required" /\ to \in {"pending", "running", "cancelled", "failed", "expired"}

Record(t, type, actor, from, to, rev) ==
  events' = Append(events, [task |-> t, type |-> type, actor |-> actor,
                            from |-> from, to |-> to, revision |-> rev])

\* One committed write of task t: the new row at the next revision and its event.
WriteSilentRevision(t, type, actor, from, to, row) ==
  /\ task[t].revision < MaxRevision
  /\ task' = [task EXCEPT ![t] = [row EXCEPT !.revision = task[t].revision + 1]]
  /\ Record(t, type, actor, from, to, task[t].revision)
  /\ UNCHANGED <<artifact, now>>

Write(t, type, actor, from, to, row) ==
  /\ task[t].revision < MaxRevision
  /\ task' = [task EXCEPT ![t] = [row EXCEPT !.revision = task[t].revision + 1]]
  /\ Record(t, type, actor, from, to, task[t].revision + 1)
  /\ UNCHANGED <<artifact, now>>

\* The compare-and-swap every claim, renewal and transition starts with.
CurrentRevision(t, expected) == Created(t) /\ task[t].revision = expected

\* A row that ends in terminal state s gives up owner, affinity and lease.
EndedKeepsAffinity(row, s) == [row EXCEPT !.state = s, !.owner = Nobody, !.lease = NoTime]

Ended(row, s) ==
  [row EXCEPT !.state = s, !.owner = Nobody, !.affinity = Nobody, !.lease = NoTime]

LeaseUntilBackwards(ttl) == now - ttl

LeaseUntil(ttl) == now + ttl

-----------------------------------------------------------------------------
(* Operations.                                                             *)

\* create_task and import_task: a fresh, unowned row; a replayed key changes nothing.
CreateIn(t, actor, s, deadline, refs) ==
  /\ ~Created(t)
  /\ \A r \in refs : Created(r)
  /\ task' = [task EXCEPT ![t] = [NoRow EXCEPT !.state = s, !.deadline = deadline, !.refs = refs]]
  /\ Record(t, "task_created", actor, "none", s, 0)
  /\ UNCHANGED <<artifact, now>>

CreateTask(t, actor, deadline, refs) == CreateIn(t, actor, "pending", deadline, refs)

ImportTask(t, actor, s) == s # "expired" /\ CreateIn(t, actor, s, NoTime, {})

\* claim_task on a task whose deadline has passed: the task expires and the caller gets an error.
Expire(t, worker, expected) ==
  /\ CurrentRevision(t, expected)
  /\ ~Terminal(task[t].state)
  /\ DeadlineOver(t)
  /\ Write(t, "task_expired", worker, task[t].state, "expired", Ended(task[t], "expired"))

ClaimEvent(t) ==
  IF task[t].state = "pending" /\ task[t].affinity # Nobody /\ task[t].lease = NoTime
    THEN "task_resumed"
    ELSE IF task[t].owner # Nobody THEN "task_reclaimed" ELSE "task_claimed"

MayClaimAnyLease(t, worker) ==
  /\ ~Terminal(task[t].state)
  /\ ~DeadlineOver(t)
  /\ task[t].affinity \in {Nobody, worker}

MayClaimTerminal(t, worker) ==
  /\ ~DeadlineOver(t)
  /\ task[t].affinity \in {Nobody, worker}
  /\ task[t].owner \in {Nobody, worker} \/ ~LeaseLive(t)

MayClaim(t, worker) ==
  /\ ~Terminal(task[t].state)
  /\ ~DeadlineOver(t)
  /\ task[t].affinity \in {Nobody, worker}
  /\ task[t].owner \in {Nobody, worker} \/ ~LeaseLive(t)

ClaimTask(t, worker, expected, ttl) ==
  /\ CurrentRevision(t, expected)
  /\ MayClaim(t, worker)
  /\ Write(t, ClaimEvent(t), worker, task[t].state, "running",
           [task[t] EXCEPT !.state = "running", !.owner = worker, !.lease = LeaseUntil(ttl)])

RenewLease(t, worker, expected, ttl) ==
  /\ CurrentRevision(t, expected)
  /\ task[t].owner = worker
  /\ LeaseLive(t)
  /\ Write(t, "lease_renewed", worker, "none", "none", [task[t] EXCEPT !.lease = LeaseUntil(ttl)])

\* transition_task to pending of running or already yielded work.
Yielding(t, to) ==
  /\ to = "pending"
  /\ \/ task[t].state = "running"
     \/ task[t].state = "pending" /\ task[t].affinity # Nobody

MayYieldLate(t, actor) ==
  /\ task[t].owner = actor
  /\ task[t].state = "running" => LeaseLive(t)

MayYield(t, actor) ==
  /\ task[t].owner = actor
  /\ ~DeadlineOver(t)
  /\ task[t].state = "running" => LeaseLive(t)

\* A handoff names a checkpoint artifact of the task it hands off.
ValidHandoffAnyRole(t, a) == artifact[a].task = t

ValidHandoff(t, a) == artifact[a].task = t /\ artifact[a].role = "checkpoint"

\* The owner releases the lease and is pinned to the task; yielding yielded work changes nothing.
YieldTask(t, actor, expected) ==
  /\ CurrentRevision(t, expected)
  /\ Yielding(t, "pending")
  /\ MayYield(t, actor)
  /\ ~(task[t].state = "pending" /\ task[t].lease = NoTime)
  /\ Write(t, "task_yielded", actor, task[t].state, "pending",
           [task[t] EXCEPT !.state = "pending", !.affinity = actor, !.lease = NoTime])

\* The same transition with details.checkpoint_handoff: executor becomes owner and affinity.
HandOffCheckpoint(t, actor, expected, executor, a) ==
  /\ CurrentRevision(t, expected)
  /\ Yielding(t, "pending")
  /\ MayYield(t, actor)
  /\ ValidHandoff(t, a)
  /\ Write(t, "task_checkpoint_handed_off", actor, task[t].state, "pending",
           [task[t] EXCEPT !.state = "pending", !.owner = executor,
                           !.affinity = executor, !.lease = NoTime])

\* Every other transition_task.
MayTransitionAnyone(t, actor, to) == AllowedTransition(task[t].state, to)

MayTransition(t, actor, to) ==
  /\ AllowedTransition(task[t].state, to)
  /\ task[t].owner \in {Nobody, actor} \/ to = "cancelled"

TransitionTask(t, actor, expected, to) ==
  /\ CurrentRevision(t, expected)
  /\ ~Yielding(t, to)
  /\ MayTransition(t, actor, to)
  /\ Write(t, "task_transitioned", actor, task[t].state, to,
           IF Terminal(to) THEN Ended(task[t], to) ELSE [task[t] EXCEPT !.state = to])

\* put_artifact: immutable once its key is used; anyone may attach one to any task.
PutArtifact(a, t, actor, role) ==
  /\ artifact[a].task = NoTask
  /\ Created(t)
  /\ artifact' = [artifact EXCEPT ![a] = [task |-> t, role |-> role]]
  /\ Record(t, "artifact_created", actor, "none", "none", -1)
  /\ UNCHANGED <<task, now>>

\* Time passes between transactions; the bound stops the clock.
Tick ==
  /\ now < MaxTime
  /\ now' = now + 1
  /\ UNCHANGED <<task, artifact, events>>

Next ==
  \/ Tick
  \/ \E t \in Tasks, w \in Workers :
       \/ \E d \in Deadlines, refs \in SUBSET Tasks : CreateTask(t, w, d, refs)
       \/ \E s \in TaskStates : ImportTask(t, w, s)
       \/ \E a \in Artifacts, role \in Roles : PutArtifact(a, t, w, role)
       \/ \E e \in 0..MaxRevision :
            \/ Expire(t, w, e)
            \/ \E ttl \in Ttls : ClaimTask(t, w, e, ttl) \/ RenewLease(t, w, e, ttl)
            \/ YieldTask(t, w, e)
            \/ \E x \in Workers, a \in Artifacts : HandOffCheckpoint(t, w, e, x, a)
            \/ \E s \in TaskStates : TransitionTask(t, w, e, s)

Spec == Init /\ [][Next]_vars

-----------------------------------------------------------------------------
(* Safety.                                                                 *)

\* The last event of a step that wrote task t, read in the state after it.
LastEvent == events[Len(events)]

\* Ownership, lease and affinity of a row agree, whatever sequence of claims, renewals, yields,
\* handoffs, human waits and terminal transitions led to it: a lease has an owner; an executor
\* affinity names the owner; an owner without a lease is a yielded task waiting for its executor;
\* and a terminal row keeps none of the three (the CASE WHEN of transition_task and the UPDATEs
\* of claim_task).
OwnershipConsistent ==
  \A t \in Tasks :
    LET row == task[t] IN
      /\ row.lease # NoTime => row.owner # Nobody
      /\ row.affinity # Nobody => row.owner = row.affinity
      /\ row.owner # Nobody /\ row.lease = NoTime
           => row.state = "pending" /\ row.affinity = row.owner
      /\ row.state \in TerminalStates \cup {"absent"} => row.owner = Nobody

\* The event feed is a complete history of every task: revision r of a task is recorded by exactly
\* one event, in revision order, each state change starts from the state the previous one reached,
\* and the last one reached the state of the row (docs/Coordination.md: "Every mutation appends an
\* audit event in the same SQLite transaction").
TaskEvents(t)  == {i \in DOMAIN events : events[i].task = t /\ events[i].revision >= 0}
StateEvents(t) == {i \in TaskEvents(t) : events[i].to # "none"}

AuditTrail ==
  \A t \in Tasks :
    /\ \A r \in 0..MaxRevision :
         (Created(t) /\ r <= task[t].revision) <=> \E i \in TaskEvents(t) : events[i].revision = r
    /\ \A i, j \in TaskEvents(t) : i < j => events[i].revision < events[j].revision
    /\ \A i, j \in StateEvents(t) :
         i < j /\ (\A k \in StateEvents(t) : k <= i \/ k >= j) => events[j].from = events[i].to
    /\ \A i \in StateEvents(t) :
         (\A k \in StateEvents(t) : k <= i) => events[i].to = task[t].state

\* Work that was claimed is completed or failed only by the worker whose claim came last: an
\* executor that lost its lease to a reclaim, or handed its checkpoint over, cannot finish the task.
ClaimEvents(t) == {i \in TaskEvents(t) :
                     events[i].type \in {"task_claimed", "task_resumed", "task_reclaimed"}}

FinishedByLastClaimant ==
  \A t \in Tasks : \A i \in StateEvents(t), j \in ClaimEvents(t) :
    events[i].to \in {"completed", "failed"} /\ (\A k \in ClaimEvents(t) : k <= j)
      => events[i].actor = events[j].actor

\* While a worker holds a live lease nobody else changes the task, but for a cancellation by
\* anyone and the expiry of a task whose deadline has passed (docs/Coordination.md: "A valid lease
\* excludes other workers").
LiveLeaseExcludes ==
  [][\A t \in Tasks :
       LeaseLive(t) /\ task'[t] # task[t] =>
         \/ LastEvent'.actor = task[t].owner
         \/ task'[t].state = "cancelled"
         \/ task'[t].state = "expired" /\ DeadlineOver(t)]_vars

\* Checkpointed work never moves to another executor by lease expiry or by claiming: affinity is
\* set to the owner by its first yield, moves afterwards only by a handoff the owner makes with a
\* checkpoint artifact of this very task, and is dropped only because the task ended.
AffinityMovesByHandoff ==
  [][\A t \in Tasks :
       task'[t].affinity # task[t].affinity =>
         \/ task'[t].affinity = Nobody /\ Terminal(task'[t].state)
         \/ /\ LastEvent'.type = "task_yielded"
            /\ task[t].affinity = Nobody /\ task'[t].affinity = task[t].owner
         \/ /\ LastEvent'.type = "task_checkpoint_handed_off"
            /\ LastEvent'.actor = task[t].owner
            /\ \E a \in Artifacts : artifact[a] = [task |-> t, role |-> "checkpoint"]]_vars

\* Once a task's deadline has passed it gets no new executor and no new lease but a renewal of the
\* one that is still live, by any of claim, resume, reclaim, yield and handoff.
NoNewExecutorAfterDeadline ==
  [][\A t \in Tasks :
       Created(t) /\ DeadlineOver(t) /\ task'[t] # task[t] =>
         /\ task'[t].owner \in {task[t].owner, Nobody}
         /\ task'[t].lease # task[t].lease => task'[t].lease = NoTime \/ LeaseLive(t)]_vars

\* A terminal row never changes again.
TerminalIsFinal ==
  [][\A t \in Tasks : Terminal(task[t].state) => task'[t] = task[t]]_vars
=============================================================================
