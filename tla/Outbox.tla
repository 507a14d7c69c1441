------------------------------- MODULE Outbox -------------------------------
(***************************************************************************)
(* The durable replication outbox (agentpalace-storage/src/outbox.rs).     *)
(* As in the coordination store every operation is one BEGIN IMMEDIATE     *)
(* transaction and hence one action; a rejected call and a replay that     *)
(* returns the stored row write nothing.  A member of Ops stands for one   *)
(* (created_by, idempotency_key) pair.  The mutation an operation carries  *)
(* is reduced to its destination and its ordering key, which is also its   *)
(* entity id at every call site but the tests'; attempt_count and          *)
(* last_error are bookkeeping no transition reads and are left out.        *)
(***************************************************************************)
EXTENDS Integers, FiniteSets

CONSTANTS
  Ops,           \* (created_by, idempotency_key) pairs
  Remotes,       \* configured destination remotes
  Keys,          \* ordering keys
  Workers,       \* lease owners
  Nobody,        \* SQL NULL in lease_owner
  AnyRemote,     \* reclaim_expired_lease(None, ..)
  Ttls,          \* positive lease durations
  Backoffs,      \* delays the caller of schedule_retry adds to the clock
  MaxTime,       \* bound on the clock
  MaxRevision    \* bound on the revision of an operation

NoTime == -1

ASSUME ConstantsAssumption ==
  /\ Nobody \notin Workers
  /\ AnyRemote \notin Remotes
  /\ Ttls \subseteq Nat \ {0}
  /\ Backoffs \subseteq Nat
  /\ MaxTime \in Nat
  /\ MaxRevision \in Nat

\* States that hold their place in the group, and states that never do again.
ActiveStates   == {"staged", "pending", "leased", "retryable"}
TerminalStates == {"replicated", "failed", "cancelled"}
States         == ActiveStates \cup TerminalStates

VARIABLES
  op,        \* replication_outbox, one row per enqueued operation
  lastSeq,   \* MAX(sequence): rows are never deleted, so also the last one assigned
  now,       \* the wall clock of the host
  caller     \* history: the worker whose call the last step was, Nobody for any other step

vars == <<op, lastSeq, now, caller>>

Row == [state    : States \cup {"absent"},
        revision : Nat,
        seq      : Nat,
        remote   : Remotes \cup {AnyRemote},
        key      : Keys \cup {Nobody},
        worker   : Workers \cup {Nobody},
        lease    : Nat \cup {NoTime},
        retry    : Nat \cup {NoTime}]

NoRow == [state |-> "absent", revision |-> 0, seq |-> 0, remote |-> AnyRemote, key |-> Nobody,
          worker |-> Nobody, lease |-> NoTime, retry |-> NoTime]

TypeOK ==
  op \in [Ops -> Row] /\ lastSeq \in Nat /\ now \in Nat /\ caller \in Workers \cup {Nobody}

Init == op = [o \in Ops |-> NoRow] /\ lastSeq = 0 /\ now = 0 /\ caller = Nobody

-----------------------------------------------------------------------------
(* Helpers of the store.                                                   *)

Exists(o)    == op[o].state # "absent"
Active(o)    == op[o].state \in ActiveStates
SameGroup(o, p) == Exists(o) /\ Exists(p) /\ op[o].remote = op[p].remote /\ op[o].key = op[p].key
LeaseLive(o) == op[o].lease > now
RetryDue(o)  == op[o].retry <= now

\* An earlier operation of the group that is still active for delivery blocks this one.
HasPredecessorInFlight(o) ==
  \E p \in Ops : SameGroup(o, p) /\ op[p].seq < op[o].seq
                 /\ op[p].state \in ActiveStates \ {"staged", "retryable"}

HasPredecessor(o) == \E p \in Ops : SameGroup(o, p) /\ op[p].seq < op[o].seq /\ Active(p)

\* One committed write of operation o: the new row at the next revision.
WriteSameRevision(o, row) ==
  /\ op[o].revision < MaxRevision
  /\ op' = [op EXCEPT ![o] = row]
  /\ UNCHANGED <<lastSeq, now>>

Write(o, row) ==
  /\ op[o].revision < MaxRevision
  /\ op' = [op EXCEPT ![o] = [row EXCEPT !.revision = op[o].revision + 1]]
  /\ UNCHANGED <<lastSeq, now>>

CurrentRevision(o, expected) == Exists(o) /\ op[o].revision = expected

LeasedAsRunning(row, worker, ttl) ==
  [row EXCEPT !.state = "running", !.worker = worker, !.lease = now + ttl, !.retry = NoTime]

Leased(row, worker, ttl) ==
  [row EXCEPT !.state = "leased", !.worker = worker, !.lease = now + ttl, !.retry = NoTime]

\* A row that leaves the leased state for s, to be tried again at retry.
ReleasedWithLease(row, s, retry) == [row EXCEPT !.state = s, !.retry = retry]

Released(row, s, retry) ==
  [row EXCEPT !.state = s, !.worker = Nobody, !.lease = NoTime, !.retry = retry]

\* ensure_in_flight: only the owner of a live lease resolves an attempt.
InFlightAnyone(o, worker) == op[o].state = "leased" /\ LeaseLive(o)

InFlight(o, worker) == op[o].state = "leased" /\ op[o].worker = worker /\ LeaseLive(o)

-----------------------------------------------------------------------------
(* Operations.                                                             *)

EnqueueFreshByCount(o, r, k) ==
  /\ ~Exists(o)
  /\ op' = [op EXCEPT ![o] = [NoRow EXCEPT !.state = "staged", !.remote = r, !.key = k,
                                           !.seq = Cardinality({p \in Ops : Exists(p)}) + 1]]
  /\ lastSeq' = lastSeq + 1
  /\ caller' = Nobody
  /\ UNCHANGED now

EnqueueFresh(o, r, k) ==
  /\ ~Exists(o)
  /\ op' = [op EXCEPT ![o] = [NoRow EXCEPT !.state = "staged", !.seq = lastSeq + 1,
                                           !.remote = r, !.key = k]]
  /\ lastSeq' = lastSeq + 1
  /\ caller' = Nobody
  /\ UNCHANGED now

\* A replayed key whose operation was cancelled, for the same mutation, is staged again behind
\* everything enqueued meanwhile.
Revive(o, r, k) ==
  /\ op[o].state = "cancelled"
  /\ op[o].remote = r /\ op[o].key = k
  /\ op[o].revision < MaxRevision
  /\ op' = [op EXCEPT ![o] = [Released(op[o], "staged", NoTime) EXCEPT
                                !.seq = lastSeq + 1, !.revision = op[o].revision + 1]]
  /\ lastSeq' = lastSeq + 1
  /\ caller' = Nobody
  /\ UNCHANGED now

Activate(o, expected) ==
  /\ CurrentRevision(o, expected)
  /\ op[o].state = "staged"
  /\ caller' = Nobody
  /\ Write(o, [op[o] EXCEPT !.state = "pending"])

Cancel(o, expected) ==
  /\ CurrentRevision(o, expected)
  /\ op[o].state = "staged"
  /\ caller' = Nobody
  /\ Write(o, [op[o] EXCEPT !.state = "cancelled"])

\* The heads claim_next chooses from; of the due ones it takes the lowest sequence.
DueHeads(r) ==
  {o \in Ops : /\ op[o].remote = r
               /\ op[o].state \in {"pending", "retryable"}
               /\ RetryDue(o)
               /\ ~HasPredecessor(o)}

ClaimNext(r, worker, ttl) ==
  \E o \in DueHeads(r) :
    /\ \A p \in DueHeads(r) : op[o].seq <= op[p].seq
    /\ caller' = worker
    /\ Write(o, Leased(op[o], worker, ttl))

ClaimById(o, worker, expected, ttl) ==
  /\ CurrentRevision(o, expected)
  /\ op[o].state \in ActiveStates \ {"staged"}
  /\ ~HasPredecessor(o)
  /\ RetryDue(o)
  /\ op[o].state = "leased" => op[o].worker = worker \/ ~LeaseLive(o)
  /\ caller' = worker
  /\ Write(o, Leased(op[o], worker, ttl))

RenewLease(o, worker, expected, ttl) ==
  /\ CurrentRevision(o, expected)
  /\ InFlight(o, worker)
  /\ caller' = worker
  /\ Write(o, [op[o] EXCEPT !.lease = now + ttl])

\* Acknowledging a replicated operation again is a no-op.
Acknowledge(o, worker, expected) ==
  /\ CurrentRevision(o, expected)
  /\ InFlight(o, worker)
  /\ caller' = worker
  /\ Write(o, Released(op[o], "replicated", NoTime))

\* Retryable indefinitely; the caller chooses the delay.
ScheduleRetry(o, worker, expected, backoff) ==
  /\ CurrentRevision(o, expected)
  /\ InFlight(o, worker)
  /\ caller' = worker
  /\ Write(o, Released(op[o], "retryable", now + backoff))

Fail(o, worker, expected) ==
  /\ CurrentRevision(o, expected)
  /\ InFlight(o, worker)
  /\ caller' = worker
  /\ Write(o, Released(op[o], "failed", NoTime))

AnyLeased(scope) ==
  {o \in Ops : op[o].state = "leased" /\ scope \in {op[o].remote, AnyRemote}}

Orphans(scope) ==
  {o \in Ops : op[o].state = "leased" /\ op[o].lease # NoTime /\ ~LeaseLive(o)
               /\ scope \in {op[o].remote, AnyRemote}}

\* The oldest leased operation whose lease is over goes to worker; no revision is expected.
ReclaimExpiredLease(scope, worker, ttl) ==
  \E o \in Orphans(scope) :
    /\ \A p \in Orphans(scope) : op[o].seq <= op[p].seq
    /\ caller' = worker
    /\ Write(o, [op[o] EXCEPT !.worker = worker, !.lease = now + ttl])

Tick ==
  /\ now < MaxTime
  /\ now' = now + 1
  /\ caller' = Nobody
  /\ UNCHANGED <<op, lastSeq>>

Next ==
  \/ Tick
  \/ \E o \in Ops, r \in Remotes, k \in Keys : EnqueueFresh(o, r, k) \/ Revive(o, r, k)
  \/ \E w \in Workers, ttl \in Ttls :
       \/ \E r \in Remotes : ClaimNext(r, w, ttl)
       \/ \E scope \in Remotes \cup {AnyRemote} : ReclaimExpiredLease(scope, w, ttl)
  \/ \E o \in Ops, e \in 0..MaxRevision :
       \/ Activate(o, e) \/ Cancel(o, e)
       \/ \E w \in Workers :
            \/ \E ttl \in Ttls : ClaimById(o, w, e, ttl) \/ RenewLease(o, w, e, ttl)
            \/ Acknowledge(o, w, e) \/ Fail(o, w, e)
            \/ \E b \in Backoffs : ScheduleRetry(o, w, e, b)

Spec == Init /\ [][Next]_vars

-----------------------------------------------------------------------------
(* Safety.                                                                 *)

\* An operation a worker was ever given.
Attempted(o) == op[o].state \in {"leased", "retryable", "replicated", "failed"}

\* Within one (destination, ordering key) group delivery follows the sequence: an operation is
\* attempted only when everything before it has settled for good, whatever cancellations, revivals,
\* retries and lease recoveries happened.  reclaim_expired_lease relies on it (it looks for no
\* predecessor), and so does the comment in claim_by_id that an operation in flight "never has a
\* live predecessor".
DeliveredInOrder ==
  \A o, p \in Ops :
    SameGroup(o, p) /\ op[p].seq < op[o].seq /\ Attempted(o) => op[p].state \in TerminalStates

\* Sequences order the whole outbox: no two rows share one, also after revivals.
SequencesUnique ==
  \A o, p \in Ops :
    Exists(o) /\ Exists(p) /\ op[o].seq = op[p].seq => o = p

\* Lease columns agree with the state: an operation has an owner and a lease exactly while leased,
\* and waits for a retry time only while retryable, so no restart finds a half released row.
LeaseConsistent ==
  \A o \in Ops :
    /\ op[o].state = "leased" <=> op[o].worker # Nobody
    /\ op[o].worker # Nobody <=> op[o].lease # NoTime
    /\ op[o].retry # NoTime => op[o].state = "retryable"

\* Once the local commit of a mutation is confirmed its delivery is never abandoned: an activated
\* operation waits, is handed to a worker, or is resolved (for good or for another attempt) by a
\* call of the worker that holds its live lease.  A worker that is late, or another one, resolves
\* nothing (ensure_in_flight), whoever reclaimed the operation meanwhile.
NeverAbandoned ==
  [][\A o \in Ops :
       op[o].state \in {"pending", "leased", "retryable"} =>
         \/ op'[o].state \in {op[o].state, "leased"}
         \/ /\ op[o].state = "leased" /\ LeaseLive(o) /\ caller' = op[o].worker
            /\ op'[o].state \in {"replicated", "failed", "retryable"}]_vars

\* A live lease belongs to its worker: while it lasts nobody else writes the row, by a claim, a
\* takeover, a renewal or a resolution, and the operation goes to no other worker.
LiveLeaseKept ==
  [][\A o \in Ops :
       LeaseLive(o) /\ op'[o] # op[o] =>
         caller' = op[o].worker /\ op'[o].worker \in {op[o].worker, Nobody}]_vars

\* A stale compare-and-swap can never succeed: every write of a row moves its revision on.
RevisionNamesRow ==
  [][\A o \in Ops : op'[o] # op[o] /\ Exists(o) => op'[o].revision > op[o].revision]_vars

-----------------------------------------------------------------------------
(* Refinement: forgetting leases, owners, retry times and revisions.       *)

FifoStatus(state) ==
  IF state \in {"pending", "leased", "retryable"} THEN "queued"
    ELSE IF state = "replicated" THEN "delivered"
      ELSE IF state = "failed" THEN "refused" ELSE state

Fifo == INSTANCE FifoDelivery WITH
  Items   <- Ops,
  Groups  <- Remotes \X Keys,
  NoGroup <- <<AnyRemote, Nobody>>,
  status  <- [o \in Ops |-> FifoStatus(op[o].state)],
  place   <- [o \in Ops |-> op[o].seq],
  group   <- [o \in Ops |-> <<op[o].remote, op[o].key>>],
  last    <- lastSeq

\* The outbox implements one first-in first-out queue per (destination, ordering key): a remote's
\* verdict on an operation is only ever recorded when nothing waits before it in its group, through
\* any mix of claims, takeovers after an expired lease, retries, cancellations and revivals.
DeliversFifo == Fifo!Spec
=============================================================================
