-------------------------- MODULE LocalFirstWrites --------------------------
(***************************************************************************)
(* The local-first write path of the MCP server for one knowledge-graph    *)
(* fact under write:both (agentpalace-mcp/src/lib.rs): stage a durable     *)
(* intent, commit the local mutation, activate the intent; reconcile       *)
(* staged intents at startup and every 30 seconds; deliver activated       *)
(* intents in order.  Processes sharing a palace interleave between SQLite *)
(* transactions and crash anywhere.                                        *)
(*                                                                         *)
(* Abstractions.  One fact and one remote, so one ordering group and no    *)
(* claims, leases or retries: Deliver is the whole life of an activated    *)
(* operation in Outbox, whose order it takes from there.  valid_from is    *)
(* left out (no fact starts in the future or after the date that ends it). *)
(* The remote applies an operation once and is written by this palace only.*)
(***************************************************************************)
EXTENDS Integers, FiniteSets

CONSTANTS
  Procs,         \* MCP server processes sharing the palace
  Adds,          \* operations that are kg_add calls
  Invalidates,   \* operations that are kg_invalidate calls
  NoOp,          \* no operation
  Setups         \* the settings to explore, one of which a behaviour keeps throughout

Ops == Adds \cup Invalidates

(***************************************************************************)
(* A setting: the processes and operations that occur, the keyed ones      *)
(* (with a caller's operation_id, so that they may be called again), the   *)
(* values of "ended is today" an invalidation may have, and the bounds on  *)
(* faults (crashes, cancellations the store fails) and on the revisions    *)
(* that staging again reaches.                                             *)
(***************************************************************************)
Setup == [procs : SUBSET Procs, ops : SUBSET Ops, keyed : SUBSET Ops, endsToday : SUBSET BOOLEAN,
          maxFaults : Nat, maxRevision : Nat]

ASSUME ConstantsAssumption ==
  /\ Adds \cap Invalidates = {}
  /\ NoOp \notin Ops /\ IsFiniteSet(Procs)
  /\ \A s \in Setups : s \in Setup

VARIABLES
  op,         \* replication_outbox rows of this fact
  lastSeq,    \* the last sequence assigned
  fact,       \* the fact in the local palace
  remote,     \* whether the fact is open at the remote
  proc,       \* the MCP processes
  fresh,      \* operations staged within STAGED_INTENT_RECONCILIATION_GRACE
  committed,  \* history: operations whose local mutation committed since they were staged
  faults,     \* crashes and failed cancellations so far
  strayed,    \* history: the behaviour met a case that the write path gets wrong (see below)
  setup       \* the setting of this behaviour

writeVars == <<op, lastSeq, fact, remote, proc, fresh, committed, faults, strayed, setup>>
vars == <<op, lastSeq, fact, remote, proc, fresh, committed, faults, strayed>>

\* queued stands for the outbox's pending, leased and retryable.
OpRow == [state     : {"absent", "staged", "queued", "delivered", "cancelled"},
          revision  : Nat,
          seq       : Nat,
          endsToday : BOOLEAN]

\* An operation as a process read it.
Entry == [op : Ops \cup {NoOp}, revision : Nat, seq : Nat]

NoEntry == [op |-> NoOp, revision |-> 0, seq |-> 0]

\* One MCP process.  todo, settled and verdict belong to a reconciliation pass; call and owned to
\* a tool call: the intent stage_replication returned, and whether that was a staged one.
Process == [pc      : {"down", "listing", "probing", "deciding", "ready", "staged", "committed"},
            startup : BOOLEAN,
            todo    : SUBSET Entry,
            settled : BOOLEAN,
            verdict : BOOLEAN,
            call    : Entry,
            owned   : BOOLEAN]

Down == [pc |-> "down", startup |-> FALSE, todo |-> {}, settled |-> FALSE, verdict |-> FALSE,
         call |-> NoEntry, owned |-> FALSE]

\* known: both entities exist; open: a row without valid_to; lingering: an ended row whose valid_to
\* is not before today, which is_active_on still counts as current.
Fact == [known : BOOLEAN, open : BOOLEAN, lingering : BOOLEAN]

TypeOK ==
  /\ op \in [Ops -> OpRow]
  /\ lastSeq \in Nat
  /\ fact \in Fact
  /\ remote \in BOOLEAN
  /\ DOMAIN proc = Procs /\ \A p \in Procs : proc[p] \in Process
  /\ fresh \subseteq Ops
  /\ committed \subseteq Ops
  /\ faults \in 0..setup.maxFaults
  /\ strayed \in BOOLEAN

Init ==
  /\ op = [o \in Ops |-> [state |-> "absent", revision |-> 0, seq |-> 0, endsToday |-> FALSE]]
  /\ lastSeq = 0
  /\ fact \in {f \in Fact : (f.open => f.known) /\ ~f.lingering}
  /\ remote = fact.open
  /\ proc = [p \in Procs |-> Down]
  /\ fresh = {} /\ committed = {} /\ faults = 0 /\ strayed = FALSE
  /\ setup \in Setups

-----------------------------------------------------------------------------
(* Helpers.                                                                *)

At(p, pc) == proc[p].pc = pc

Snapshot == {[op |-> o, revision |-> op[o].revision, seq |-> op[o].seq] :
               o \in {x \in Ops : op[x].state = "staged"}}

\* The revision check of the outbox's transitions, for an entry read earlier.
Current(e) == op[e.op].revision = e.revision

SetBackwards(e, state) == [op EXCEPT ![e.op].state = state, ![e.op].revision = @ - 1]

Set(e, state) == [op EXCEPT ![e.op].state = state, ![e.op].revision = @ + 1]

\* replication_intent_committed: the local fact is what the mutation would have left.
FactIsCurrent == fact.open \/ fact.lingering

LooksCommittedOnlyAdds(o) == o \in Adds /\ fact.known /\ FactIsCurrent

LooksCommitted(o) ==
  IF o \in Adds THEN fact.known /\ FactIsCurrent ELSE fact.known /\ ~FactIsCurrent

-----------------------------------------------------------------------------
(* History: the cases, three in one process and one between processes,     *)
(* that the write path gets wrong.  strayed records that one of them came  *)
(* up; it guides no step.                                                  *)

\* A palace that one process serves; two may overtake each other between staging and committing,
\* and a later mutation then hides from reconciliation what an interrupted one did.
ServedByOne == Cardinality(setup.procs) = 1

\* Nothing staged after o may still reach the remote.
IsLast(o) == \A x \in Ops : op[x].seq > op[o].seq => op[x].state = "cancelled"

\* A key called again finds its intent staged behind others, whose place in the order it keeps, or
\* past staging though the fact has ended since, so that it opens the fact here only.
RepeatsLate(o) == IF op[o].state = "staged" THEN ~IsLast(o) ELSE ~fact.open

\* A pass looks at an intent on the day the fact ended, when the fact still counts as current.
EndedToday == fact.lingering /\ ~fact.open

\* Another process is in a call of the same key.
Meets(p, o) ==
  \E q \in Procs \ {p} : proc[q].pc \in {"staged", "committed"} /\ proc[q].call.op = o

-----------------------------------------------------------------------------
(* Startup and reconciliation.                                             *)

Start(p) ==
  /\ At(p, "down")
  /\ proc' = [proc EXCEPT ![p].pc = "listing", ![p].startup = TRUE]
  /\ UNCHANGED <<op, lastSeq, fact, remote, fresh, committed, faults, strayed>>

\* The periodic pass takes the runtime lock, so it never overlaps a tool call of its process.
BeginPeriodicNever(p) == FALSE

BeginPeriodic(p) ==
  /\ At(p, "ready")
  /\ proc' = [proc EXCEPT ![p].pc = "listing", ![p].startup = FALSE]
  /\ UNCHANGED <<op, lastSeq, fact, remote, fresh, committed, faults, strayed>>

ListStaged(p) ==
  /\ At(p, "listing")
  /\ proc' = [proc EXCEPT ![p] = IF Snapshot = {}
                                   THEN [Down EXCEPT !.pc = "ready"]
                                   ELSE [@ EXCEPT !.pc = "probing", !.todo = Snapshot,
                                                  !.settled = FALSE]]
  /\ UNCHANGED <<op, lastSeq, fact, remote, fresh, committed, faults, strayed>>

\* The pass visits its snapshot in sequence order.
Visiting(p, e) == e \in proc[p].todo /\ \A f \in proc[p].todo : e.seq <= f.seq

\* Uncommitted and inside the grace period: left to its writer.  The age is that of the snapshot,
\* which is older than the row if the operation was staged again meanwhile.
Defers(e)    == ~LooksCommitted(e.op) /\ e.op \in fresh

MayDecideAnyAge(e) == TRUE

MayDecide(e) == LooksCommitted(e.op) \/ e.op \notin fresh \/ ~Current(e)

ProbeIntent(p, e) ==
  /\ At(p, "probing")
  /\ Visiting(p, e)
  /\ \/ /\ Defers(e)
        /\ proc' = [proc EXCEPT ![p].todo = @ \ {e}]
     \/ /\ MayDecide(e)
        /\ proc' = [proc EXCEPT ![p].pc = "deciding", ![p].verdict = LooksCommitted(e.op)]
  /\ strayed' = (strayed \/ (ServedByOne /\ EndedToday))
  /\ UNCHANGED <<op, lastSeq, fact, remote, fresh, committed, faults>>

\* A lost race is harmless when the other process reached the same verdict.
Compatible(e, verdict) ==
  IF verdict THEN op[e.op].state \notin {"staged", "cancelled"} ELSE op[e.op].state = "cancelled"

\* Activate or cancel by compare-and-swap.  An incompatible conflict ends the pass: at startup the
\* server does not come up, in the periodic pass it is only logged.
Decide(p, e) ==
  /\ At(p, "deciding")
  /\ Visiting(p, e)
  /\ op' = IF Current(e) THEN Set(e, IF proc[p].verdict THEN "queued" ELSE "cancelled") ELSE op
  /\ proc' = IF Current(e) \/ Compatible(e, proc[p].verdict)
               THEN [proc EXCEPT ![p].pc = "probing", ![p].todo = @ \ {e}, ![p].settled = TRUE]
               ELSE [proc EXCEPT ![p] = IF @.startup THEN Down ELSE [Down EXCEPT !.pc = "ready"]]
  /\ UNCHANGED <<lastSeq, fact, remote, fresh, committed, faults, strayed>>

\* Passes repeat until one settles nothing.
EndPass(p) ==
  /\ At(p, "probing")
  /\ proc[p].todo = {}
  /\ proc' = [proc EXCEPT ![p] = IF @.settled THEN [@ EXCEPT !.pc = "listing"]
                                              ELSE [Down EXCEPT !.pc = "ready"]]
  /\ UNCHANGED <<op, lastSeq, fact, remote, fresh, committed, faults, strayed>>

-----------------------------------------------------------------------------
(* tool_kg_add and tool_kg_invalidate.                                     *)

\* A keyed invalidation that is past staging replays its outcome; an unkeyed call is always new.
MayCall(o) ==
  IF o \in setup.keyed
    THEN o \in Invalidates => op[o].state \in {"absent", "staged", "cancelled"}
    ELSE op[o].state = "absent"

EnterCall(p, o, revision, owned) ==
  proc' = [proc EXCEPT ![p].pc = "staged", ![p].owned = owned,
                       ![p].call = [op |-> o, revision |-> revision, seq |-> 0]]

\* A fresh intent, or a cancelled one staged again behind everything staged meanwhile.  A keyed
\* replay keeps the date pinned by the first call.
StageIntent(p, o) ==
  /\ At(p, "ready")
  /\ MayCall(o)
  /\ op[o].state \in {"absent", "cancelled"}
  /\ op[o].revision < setup.maxRevision
  /\ \E today \in setup.endsToday :
       LET revived == op[o].state = "cancelled"
           row == [state     |-> "staged",
                   seq       |-> lastSeq + 1,
                   revision  |-> IF revived THEN op[o].revision + 1 ELSE 0,
                   endsToday |-> IF revived THEN op[o].endsToday ELSE o \in Invalidates /\ today]
       IN  op' = [op EXCEPT ![o] = row] /\ EnterCall(p, o, row.revision, TRUE)
  /\ lastSeq' = lastSeq + 1
  /\ fresh' = fresh \cup {o}
  /\ committed' = committed \ {o}
  /\ strayed' = (strayed \/ Meets(p, o))
  /\ UNCHANGED <<fact, remote, faults>>

\* A replayed key whose intent exists: enqueue returns the stored row and writes nothing.
ReuseIntent(p, o) ==
  /\ At(p, "ready")
  /\ MayCall(o)
  /\ op[o].state \in {"staged", "queued", "delivered"}
  /\ EnterCall(p, o, op[o].revision, op[o].state = "staged")
  /\ strayed' = (strayed \/ Meets(p, o) \/ (ServedByOne /\ RepeatsLate(o)))
  /\ UNCHANGED <<op, lastSeq, fact, remote, fresh, committed, faults>>

\* add_fact opens the fact unless it is open; invalidate ends it, if it is open.
Applied(o) ==
  IF o \in Adds
    THEN [fact EXCEPT !.open = TRUE]
    ELSE [fact EXCEPT !.open = FALSE, !.lingering = @ \/ (fact.open /\ op[o].endsToday)]

\* add_fact first registers the entities, each in a transaction of its own.
RegisterEntities(p) ==
  /\ At(p, "staged")
  /\ proc[p].call.op \in Adds
  /\ ~fact.known
  /\ fact' = [fact EXCEPT !.known = TRUE]
  /\ UNCHANGED <<op, lastSeq, remote, proc, fresh, committed, faults, strayed>>

CommitLocal(p) ==
  LET o == proc[p].call.op IN
    /\ At(p, "staged")
    /\ fact.known
    /\ fact' = Applied(o)
    /\ committed' = committed \cup {o}
    /\ proc' = [proc EXCEPT ![p].pc = "committed"]
    /\ UNCHANGED <<op, lastSeq, remote, fresh, faults, strayed>>

\* The local write fails, as an invalidation of unknown entities must, and the intent is cancelled,
\* best effort: a cancellation the store fails is only logged.
FailLocal(p) ==
  /\ At(p, "staged")
  /\ op' = IF Current(proc[p].call) /\ op[proc[p].call.op].state = "staged"
             THEN Set(proc[p].call, "cancelled") ELSE op
  /\ proc' = [proc EXCEPT ![p] = [Down EXCEPT !.pc = "ready"]]
  /\ UNCHANGED <<lastSeq, fact, remote, fresh, committed, faults, strayed>>

FailCancel(p) ==
  /\ At(p, "staged")
  /\ faults < setup.maxFaults
  /\ faults' = faults + 1
  /\ proc' = [proc EXCEPT ![p] = [Down EXCEPT !.pc = "ready"]]
  /\ UNCHANGED <<op, lastSeq, fact, remote, fresh, committed, strayed>>

\* activate_replication when the intent was staged.  A lost race is an error or is reported as
\* queued; either way the call ends and writes nothing more.
FinishCall(p) ==
  /\ At(p, "committed")
  /\ op' = IF proc[p].owned /\ Current(proc[p].call) THEN Set(proc[p].call, "queued") ELSE op
  /\ proc' = [proc EXCEPT ![p] = [Down EXCEPT !.pc = "ready"]]
  /\ UNCHANGED <<lastSeq, fact, remote, fresh, committed, faults, strayed>>

-----------------------------------------------------------------------------
(* The replication worker, crashes and time.                               *)

\* The worker starts once startup reconciliation is over.
Serving == \E p \in Procs : proc[p].pc # "down" /\ ~proc[p].startup

DeliverableUnordered(o) == op[o].state = "queued"

Deliverable(o) ==
  /\ op[o].state = "queued"
  /\ \A x \in Ops : op[x].seq < op[o].seq => op[x].state \notin {"staged", "queued"}

Deliver(o) ==
  /\ Serving
  /\ Deliverable(o)
  /\ op' = Set([op |-> o], "delivered")
  /\ remote' = (o \in Adds)
  /\ UNCHANGED <<lastSeq, fact, proc, fresh, committed, faults, strayed>>

Crash(p) ==
  /\ ~At(p, "down")
  /\ faults < setup.maxFaults
  /\ faults' = faults + 1
  /\ proc' = [proc EXCEPT ![p] = Down]
  /\ UNCHANGED <<op, lastSeq, fact, remote, fresh, committed, strayed>>

\* Intents leave the grace period in the order they were staged.
GracePasses(o) ==
  /\ o \in fresh
  /\ \A x \in fresh : op[o].seq <= op[x].seq
  /\ fresh' = fresh \ {o}
  /\ UNCHANGED <<op, lastSeq, fact, remote, proc, committed, faults, strayed>>

NewDay ==
  /\ fact.lingering \/ \E o \in Ops : op[o].endsToday
  /\ fact' = [fact EXCEPT !.lingering = FALSE]
  /\ op' = [o \in Ops |-> [op[o] EXCEPT !.endsToday = FALSE]]
  /\ UNCHANGED <<lastSeq, remote, proc, fresh, committed, faults, strayed>>

Reconcile(p) ==
  \/ ListStaged(p) \/ EndPass(p)
  \/ \E e \in proc[p].todo : ProbeIntent(p, e) \/ Decide(p, e)

Serve(p) ==
  RegisterEntities(p) \/ CommitLocal(p) \/ FailLocal(p) \/ FailCancel(p) \/ FinishCall(p)

Next ==
  /\ \/ \E p \in setup.procs :
          \/ Start(p) \/ BeginPeriodic(p) \/ Reconcile(p) \/ Serve(p) \/ Crash(p)
          \/ \E o \in setup.ops : StageIntent(p, o) \/ ReuseIntent(p, o)
     \/ \E o \in setup.ops : Deliver(o) \/ GracePasses(o)
     \/ NewDay
  /\ UNCHANGED setup

Spec == Init /\ [][Next]_writeVars

\* A killed server is started again by its MCP client; a tool call and a pass run to their end; the
\* poll loop and the worker loop run for the lifetime of the process, and the poll gets the runtime
\* lock because tokio's mutex is first come, first served (hence strong fairness: tool calls may
\* keep taking the lock); the clock moves on.  Nobody has to call a tool, crash or see midnight.
WritersAreFair ==
  /\ \A p \in Procs : /\ WF_vars(Start(p)) /\ WF_vars(Reconcile(p)) /\ WF_vars(Serve(p))
                      /\ SF_vars(BeginPeriodic(p))
  /\ \A o \in Ops : SF_vars(Deliver(o)) /\ WF_vars(GracePasses(o))

-----------------------------------------------------------------------------
(* Correctness.                                                            *)

Quiet ==
  /\ \A o \in Ops : op[o].state \notin {"staged", "queued"}
  /\ \A p \in Procs : proc[p].pc \notin {"staged", "committed"}

\* Whenever nothing is staged, queued or half done, the remote has the fact exactly if the local
\* palace has it (outbox.rs:3: "a crash cannot leave the local palace and a remote replica
\* disagreeing"; docs/Federation.md: "letting the worker converge").
ReplicasAgree == ServedByOne /\ Quiet => remote = fact.open

\* So it is, whatever was staged, committed, interrupted, reconciled and called again before, but
\* for the behaviours that met one of the cases above.
Converged == ~strayed => ReplicasAgree

\* A mutation that committed locally is not given up by reconciliation, but for those cases
\* (docs/Federation.md: "a committed mutation (its drawer/fact exists locally) is activated and
\* delivered. This closes the crash window between intent persistence and local commit").
CommittedNotCancelled ==
  ServedByOne /\ ~strayed => \A o \in committed : op[o].state # "cancelled"

\* No reconciliation cancels the intent of a call in progress; it would leave the local mutation
\* unreplicated.  One process never does so.  Another one does not while the intent is inside its
\* grace period (the comment on STAGED_INTENT_RECONCILIATION_GRACE), unless two calls of one key
\* meet, the first of which may fail and cancel the intent of both.
WriterKeepsIntent ==
  \A p \in {q \in Procs : proc[q].pc \in {"staged", "committed"} /\ proc[q].owned} :
    ServedByOne \/ (~strayed /\ proc[p].call.op \in fresh)
      => op[proc[p].call.op].state # "cancelled"

\* What reconciliation does with an intent, with the types: it cancels neither what committed nor
\* what is still being committed.
IntentsKept == TypeOK /\ CommittedNotCancelled /\ WriterKeepsIntent

\* Every intent is eventually delivered or given up, across crashes at any point, and so never
\* blocks its ordering group for good: a staged row a crash left inside the grace period is settled
\* by a later pass (the comment on STAGED_INTENT_RECONCILIATION_POLL).
IntentsSettle == \A o \in Ops : op[o].state = "staged" ~> op[o].state \in {"delivered", "cancelled"}
=============================================================================
