----------------------------- MODULE KgReceipts -----------------------------
(***************************************************************************)
(* The receiving side of replication for one knowledge-graph fact: the     *)
(* routes POST /v1/kg/facts and /v1/kg/facts/invalidate with an            *)
(* operation_id (agentpalace-server/src/lib.rs) over the mutation receipts *)
(* (agentpalace-storage/src/receipt.rs).  Requests run concurrently, each  *)
(* step one SQLite transaction that may fail; a server crash ends them all. *)
(*                                                                         *)
(* The client is an outbox delivering one ordering group: it sends         *)
(* operation n + 1 only after it received the answer to n, and sends n     *)
(* again when the answer got lost.  An operation in Overlapping may be     *)
(* sent again while the server still works on an earlier copy, as after a  *)
(* client timeout.  Owners, request hashes and dates are left out: one     *)
(* operation id always carries the same request and an explicit date.      *)
(***************************************************************************)
EXTENDS Integers, FiniteSets

CONSTANTS
  Last,          \* the operations are 1..Last, in delivery order
  Adds,          \* those that add the fact; the others invalidate it
  Handlers,      \* server request slots
  Nobody,        \* no handler
  Overlapping,   \* operations sent again while an earlier copy still runs
  MaxFaults      \* bound on server crashes and failed transactions

Ops == 1..Last

ASSUME ConstantsAssumption ==
  /\ Last \in Nat
  /\ Adds \subseteq Ops /\ Overlapping \subseteq Ops
  /\ Nobody \notin Handlers
  /\ MaxFaults \in Nat

VARIABLES
  next,      \* the operation the client is delivering
  receipt,   \* mutation_receipts: status, and whether details say effect_applied
  open,      \* whether the fact has a row without valid_to
  events,    \* operations with an event in change_log
  handler,   \* requests in the server
  lock,      \* holder of operation_aware_kg_invalidation_lock
  applied,   \* history: how often each operation changed the fact
  faults     \* crashes and failed transactions so far

vars == <<next, receipt, open, events, handler, lock, applied, faults>>

Request == [pc     : {"idle", "waiting", "beginning", "applying", "marking", "logging",
                      "completing", "responding"},
            op     : Ops \cup {0},
            effect : BOOLEAN]

Idle == [pc |-> "idle", op |-> 0, effect |-> FALSE]

TypeOK ==
  /\ next \in 1..(Last + 1)
  /\ receipt \in [Ops -> [status : {"none", "pending", "completed"}, marked : BOOLEAN]]
  /\ open \in BOOLEAN
  /\ events \subseteq Ops
  /\ handler \in [Handlers -> Request]
  /\ lock \in Handlers \cup {Nobody}
  /\ applied \in [Ops -> Nat]
  /\ faults \in 0..MaxFaults

Init ==
  /\ next = 1
  /\ receipt = [o \in Ops |-> [status |-> "none", marked |-> FALSE]]
  /\ open \in BOOLEAN
  /\ events = {}
  /\ handler = [h \in Handlers |-> Idle]
  /\ lock = Nobody
  /\ applied = [o \in Ops |-> 0]
  /\ faults = 0

-----------------------------------------------------------------------------
(* Helpers.                                                                *)

At(h, pc)    == handler[h].pc = pc
Op(h)        == handler[h].op
Go(h, pc)    == handler' = [handler EXCEPT ![h].pc = pc]
Running(o)   == \E h \in Handlers : handler[h].op = o
Effect(o)    == o \in Adds

ChangesBlind(o) == o \in Adds \/ open

Changes(o) == open # Effect(o)

\* A request leaves the handler with its answer and gives up the lock, if it holds it.
ReleasedLock(h) == IF lock = h THEN Nobody ELSE lock

-----------------------------------------------------------------------------
(* The client.                                                             *)

\* deliver: the operation at the head of the group, with its operation id.
Send(h) ==
  /\ At(h, "idle")
  /\ next \in Ops
  /\ Running(next) => next \in Overlapping
  /\ handler' = [handler EXCEPT ![h] = [Idle EXCEPT !.op = next,
                                          !.pc = IF next \in Adds THEN "beginning" ELSE "waiting"]]
  /\ UNCHANGED <<next, receipt, open, events, lock, applied, faults>>

\* The answer arrives, and the client acknowledges the operation, or it gets lost.
RespondLateAnswer(h) ==
  /\ At(h, "responding")
  /\ next' \in {next, next + 1}
  /\ handler' = [handler EXCEPT ![h] = Idle]
  /\ UNCHANGED <<receipt, open, events, lock, applied, faults>>

Respond(h) ==
  /\ At(h, "responding")
  /\ next' \in {next, IF Op(h) = next THEN next + 1 ELSE next}
  /\ handler' = [handler EXCEPT ![h] = Idle]
  /\ UNCHANGED <<receipt, open, events, lock, applied, faults>>

-----------------------------------------------------------------------------
(* The routes.                                                             *)

\* route_kg_invalidate serializes operation-aware requests before it looks at the receipt.
LockIgnored(h) ==
  /\ At(h, "waiting")
  /\ Go(h, "beginning")
  /\ UNCHANGED <<next, receipt, open, events, lock, applied, faults>>

Lock(h) ==
  /\ At(h, "waiting")
  /\ lock = Nobody
  /\ lock' = h
  /\ Go(h, "beginning")
  /\ UNCHANGED <<next, receipt, open, events, applied, faults>>

\* begin_receipt: Replay answers from the receipt; Fresh and Recover go on to apply, an
\* invalidation with what an earlier attempt recorded about its effect.
BeginCompleted(h) ==
  LET o == Op(h) IN
    /\ At(h, "beginning")
    /\ IF receipt[o].status = "completed"
         THEN Go(h, "responding") /\ lock' = ReleasedLock(h) /\ UNCHANGED receipt
         ELSE /\ receipt' = [receipt EXCEPT ![o].status = "completed"]
              /\ handler' = [handler EXCEPT ![h].pc = "applying", ![h].effect = receipt[o].marked]
              /\ UNCHANGED lock
    /\ UNCHANGED <<next, open, events, applied, faults>>

Begin(h) ==
  LET o == Op(h) IN
    /\ At(h, "beginning")
    /\ IF receipt[o].status = "completed"
         THEN Go(h, "responding") /\ lock' = ReleasedLock(h) /\ UNCHANGED receipt
         ELSE /\ receipt' = [receipt EXCEPT ![o].status = "pending"]
              /\ handler' = [handler EXCEPT ![h].pc = "applying", ![h].effect = receipt[o].marked]
              /\ UNCHANGED lock
    /\ UNCHANGED <<next, open, events, applied, faults>>

\* add_fact keeps an open fact; invalidate ends an open fact and counts the rows it ended.  Adding
\* always logs an event; an invalidation first records its effect, and logs only if there was one.
Apply(h) ==
  LET o == Op(h) IN
    /\ At(h, "applying")
    /\ open' = Effect(o)
    /\ applied' = [applied EXCEPT ![o] = @ + (IF Changes(o) THEN 1 ELSE 0)]
    /\ handler' =
         [handler EXCEPT
            ![h].effect = @ \/ Changes(o),
            ![h].pc = IF o \in Adds \/ (handler[h].effect /\ ~Changes(o)) THEN "logging"
                      ELSE IF Changes(o) THEN "marking" ELSE "completing"]
    /\ UNCHANGED <<next, receipt, events, lock, faults>>

\* set_receipt_details(effect_applied); it is refused on a completed receipt, which is tolerated.
Mark(h) ==
  LET o == Op(h) IN
    /\ At(h, "marking")
    /\ receipt' = [receipt EXCEPT ![o].marked = @ \/ receipt[o].status = "pending"]
    /\ Go(h, "logging")
    /\ UNCHANGED <<next, open, events, lock, applied, faults>>

\* append_event_if_absent_with_operation.
Log(h) ==
  /\ At(h, "logging")
  /\ events' = events \cup {Op(h)}
  /\ Go(h, "completing")
  /\ UNCHANGED <<next, receipt, open, lock, applied, faults>>

\* complete_receipt keeps the first response; then the request ends and drops its guard.
Complete(h) ==
  /\ At(h, "completing")
  /\ receipt' = [receipt EXCEPT ![Op(h)].status = "completed"]
  /\ lock' = ReleasedLock(h)
  /\ Go(h, "responding")
  /\ UNCHANGED <<next, open, events, applied, faults>>

\* A transaction that fails (SQLITE_BUSY, disk full) ends the request with an error; a 5xx answer
\* makes the client send the operation again.
Abort(h) ==
  /\ handler[h].pc \in {"beginning", "applying", "marking", "logging", "completing"}
  /\ faults < MaxFaults
  /\ faults' = faults + 1
  /\ handler' = [handler EXCEPT ![h] = Idle]
  /\ lock' = ReleasedLock(h)
  /\ UNCHANGED <<next, receipt, open, events, applied>>

Crash ==
  /\ faults < MaxFaults
  /\ faults' = faults + 1
  /\ handler' = [h \in Handlers |-> Idle]
  /\ lock' = Nobody
  /\ UNCHANGED <<next, receipt, open, events, applied>>

Serve(h) == Lock(h) \/ Begin(h) \/ Apply(h) \/ Mark(h) \/ Log(h) \/ Complete(h) \/ Abort(h)

Next == Crash \/ \E h \in Handlers : Send(h) \/ Respond(h) \/ Serve(h)

Spec == Init /\ [][Next]_vars

-----------------------------------------------------------------------------
(* Safety.                                                                 *)

\* An operation changes the fact at most once, however often it is sent, fails and recovers
\* (docs/Federation.md: "an idempotent replay ... lands exactly once and never double-applies").
LandsOnce == \A o \in Ops : applied[o] <= 1

\* Between deliveries the replica shows the last operation the client saw acknowledged: no crash
\* loses it and no late or repeated request of an earlier operation undoes it.
ReplicaFollows ==
  (\A h \in Handlers : handler[h] = Idle) /\ next > 1
    /\ (next \in Ops => receipt[next].status = "none")
    => open = Effect(next - 1)

\* A completed operation that changed the fact is in the change log, so /v1/changes shows every
\* transition of the fact (the comment on the effect marker: after a crash between effect and log
\* the repeat still knows that this operation made the transition).
EffectLogged ==
  \A o \in Ops : receipt[o].status = "completed" /\ applied[o] > 0 => o \in events

\* The same as long as nothing fails: no overlapping copy completes an operation between the effect
\* another copy had and its event (the comment on operation_aware_kg_invalidation_lock).
LockKeepsEffects == faults = 0 => EffectLogged

\* Receipts, effects and change log together: each operation lands once and, without faults, is told.
ReceiptInv == TypeOK /\ LandsOnce /\ LockKeepsEffects
=============================================================================
