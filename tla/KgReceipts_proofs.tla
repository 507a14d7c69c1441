-------------------------- MODULE KgReceipts_proofs --------------------------
(***************************************************************************)
(* Proofs about KgReceipts for every number of operations, request slots   *)
(* and faults, and any choice of the operations that add.  Repeats may     *)
(* overlap an earlier copy for invalidations only: route_kg_add has no     *)
(* lock, and a late copy of an addition may land after what undoes it.     *)
(*                                                                         *)
(* The inductive invariant is RInv.  Its idea: a request that has begun    *)
(* its receipt and not completed it is the only one of its kind, and works *)
(* on the operation the client is delivering.                              *)
(***************************************************************************)
EXTENDS KgReceipts, TLAPS

Working(h) == handler[h].pc \in {"applying", "marking", "logging", "completing"}

\* A slot is idle exactly when it has no operation, and no operation is ahead of the client.
Slots ==
  \A h \in Handlers :
    /\ handler[h].pc = "idle" <=> handler[h].op = 0
    /\ handler[h].op <= next
    /\ handler[h].pc = "waiting" => handler[h].op \notin Adds

\* Receipts follow the client: everything before next is completed, nothing after it has begun.
ReceiptsInOrder ==
  /\ \A o \in Ops : /\ o < next => receipt[o].status = "completed"
                    /\ o > next => receipt[o].status = "none"
  /\ \A h \in Handlers : /\ Working(h) => receipt[handler[h].op].status = "pending"
                         /\ handler[h].pc = "responding" =>
                              receipt[handler[h].op].status = "completed"

\* An addition has one request at a time, an invalidation past the wait holds the lock.
OneWorker ==
  /\ \A h \in Handlers : handler[h].op \in Adds =>
       /\ handler[h].op = next
       /\ \A g \in Handlers : handler[g].op = next => g = h
  /\ \A h \in Handlers :
       lock = h <=> (handler[h].op \notin Adds /\ (handler[h].pc = "beginning" \/ Working(h)))

\* The fact shows the last operation that took effect, and no later one has.
Effects ==
  /\ \A o \in Ops : applied[o] <= 1 /\ (receipt[o].status = "none" => applied[o] = 0)
  /\ next \in Ops /\ (applied[next] > 0 \/ receipt[next].status = "completed") => open = Effect(next)
  /\ \A h \in Handlers :
       handler[h].pc \in {"marking", "logging", "completing"} => open = Effect(handler[h].op)
  /\ next > 1 /\ (next \in Ops => receipt[next].status = "none") => open = Effect(next - 1)

\* Until something fails, an effect is told or about to be, and a pending receipt is being worked on.
Told ==
  faults = 0 =>
    /\ \A o \in Ops : applied[o] > 0 =>
         \/ o \in events
         \/ \E h \in Handlers : handler[h].op = o /\ handler[h].pc \in {"marking", "logging"}
    /\ \A o \in Ops : receipt[o].status = "pending" =>
         \E h \in Handlers : handler[h].op = o /\ Working(h)
    /\ \A h \in Handlers : handler[h].pc = "applying" => applied[handler[h].op] = 0

RInv == TypeOK /\ Slots /\ ReceiptsInOrder /\ OneWorker /\ Effects /\ Told

-----------------------------------------------------------------------------
(* What the two longer steps of a request do, field by field.              *)

\* The other requests are left alone, and the request keeps its operation.
OwnSlot(h) ==
  /\ handler' \in [Handlers -> Request]
  /\ handler'[h].op = handler[h].op
  /\ \A g \in Handlers : g # h => handler'[g] = handler[g]

\* begin_receipt replays a completed receipt and makes any other one pending.
LEMMA BeginEffect ==
  ASSUME TypeOK, Slots, NEW h \in Handlers, Begin(h)
  PROVE  /\ handler[h].op \in Ops /\ handler[h].pc = "beginning"
         /\ OwnSlot(h)
         /\ receipt' \in [Ops -> [status : {"none", "pending", "completed"}, marked : BOOLEAN]]
         /\ \A o \in Ops : o # handler[h].op => receipt'[o] = receipt[o]
         /\ \/ /\ receipt[handler[h].op].status = "completed" /\ receipt' = receipt
               /\ handler'[h].pc = "responding" /\ lock' = ReleasedLock(h)
            \/ /\ receipt[handler[h].op].status # "completed"
               /\ receipt'[handler[h].op].status = "pending"
               /\ handler'[h].pc = "applying" /\ lock' = lock
         /\ UNCHANGED <<next, open, events, applied, faults>>
<1> DEFINE o == handler[h].op
<1>1. o \in Ops /\ handler[h].pc = "beginning" /\ handler[h] \in Request /\ receipt[o].marked \in BOOLEAN
  BY DEF Begin, At, Slots, TypeOK, Request
<1>2. UNCHANGED <<next, open, events, applied, faults>>
  BY DEF Begin
<1>3. CASE receipt[o].status = "completed"
  <2>1. /\ handler' = [handler EXCEPT ![h].pc = "responding"]
        /\ lock' = ReleasedLock(h) /\ receipt' = receipt
    BY <1>3 DEF Begin, Op, Go
  <2>2. OwnSlot(h) /\ handler'[h].pc = "responding"
    BY <1>1, <2>1 DEF OwnSlot, TypeOK, Request
  <2>3. QED
    BY <1>1, <1>2, <1>3, <2>1, <2>2 DEF TypeOK
<1>4. CASE receipt[o].status # "completed"
  <2>1. /\ handler' = [handler EXCEPT ![h].pc = "applying", ![h].effect = receipt[o].marked]
        /\ lock' = lock /\ receipt' = [receipt EXCEPT ![o].status = "pending"]
    BY <1>4 DEF Begin, Op
  <2>2. OwnSlot(h) /\ handler'[h].pc = "applying"
    BY <1>1, <2>1 DEF OwnSlot, TypeOK, Request
  <2>3. /\ receipt' \in [Ops -> [status : {"none", "pending", "completed"}, marked : BOOLEAN]]
        /\ receipt'[o].status = "pending"
        /\ \A x \in Ops : x # o => receipt'[x] = receipt[x]
    BY <1>1, <2>1 DEF TypeOK
  <2>4. QED
    BY <1>1, <1>2, <1>4, <2>1, <2>2, <2>3
<1>5. QED
  BY <1>3, <1>4

\* The effect: the fact shows the operation, and applied counts a change of it.
LEMMA ApplyEffect ==
  ASSUME TypeOK, Slots, NEW h \in Handlers, Apply(h)
  PROVE  /\ handler[h].op \in Ops /\ handler[h].pc = "applying"
         /\ OwnSlot(h)
         /\ open' = Effect(handler[h].op)
         /\ applied' \in [Ops -> Nat]
         /\ \A o \in Ops : o # handler[h].op => applied'[o] = applied[o]
         /\ \/ /\ open # Effect(handler[h].op)
               /\ applied'[handler[h].op] = applied[handler[h].op] + 1
               /\ handler'[h].pc \in {"marking", "logging"}
            \/ /\ open = Effect(handler[h].op) /\ applied' = applied
               /\ handler'[h].pc \in {"logging", "completing"}
         /\ handler[h].op \in Adds => handler'[h].pc = "logging"
         /\ UNCHANGED <<next, receipt, events, lock, faults>>
<1> DEFINE o == handler[h].op
           pc == IF o \in Adds \/ (handler[h].effect /\ ~Changes(o)) THEN "logging"
                 ELSE IF Changes(o) THEN "marking" ELSE "completing"
           effect == handler[h].effect \/ Changes(o)
<1>1. o \in Ops /\ handler[h].pc = "applying" /\ handler[h] \in Request
  BY DEF Apply, At, Slots, TypeOK, Request
<1>2. /\ open' = Effect(o)
      /\ applied' = [applied EXCEPT ![o] = @ + (IF Changes(o) THEN 1 ELSE 0)]
      /\ handler' = [handler EXCEPT ![h].effect = effect, ![h].pc = pc]
      /\ UNCHANGED <<next, receipt, events, lock, faults>>
  BY <1>1 DEF Apply, Op, TypeOK
<1>3. effect \in BOOLEAN /\ pc \in {"marking", "logging", "completing"}
  BY <1>1 DEF Changes, Request
<1>4. OwnSlot(h) /\ handler'[h].pc = pc
  <2> HIDE DEF pc, effect
  <2>1. QED
    BY <1>1, <1>2, <1>3 DEF OwnSlot, TypeOK, Request
<1>5. applied' \in [Ops -> Nat] /\ \A x \in Ops : x # o => applied'[x] = applied[x]
  BY <1>1, <1>2 DEF TypeOK
<1>6. CASE Changes(o)
  <2>1. applied'[o] = applied[o] + 1
    BY <1>1, <1>2, <1>6 DEF TypeOK
  <2>2. QED
    BY <1>1, <1>2, <1>4, <1>5, <1>6, <2>1 DEF Changes
<1>7. CASE ~Changes(o)
  <2>1. applied' = applied
    BY <1>1, <1>2, <1>7 DEF TypeOK
  <2>2. QED
    BY <1>1, <1>2, <1>4, <1>5, <1>7, <2>1 DEF Changes
<1>8. QED
  BY <1>6, <1>7

\* The short steps only move a request on.
LEMMA GoEffect ==
  ASSUME TypeOK, NEW h \in Handlers,
         NEW pc \in {"waiting", "beginning", "logging", "completing", "responding"},
         Go(h, pc)
  PROVE  OwnSlot(h) /\ handler'[h].pc = pc
BY DEF TypeOK, Go, OwnSlot, Request

\* The lock, when a request gives it up.
LEMMA ReleaseEffect ==
  ASSUME TypeOK, NEW h \in Handlers, lock' = ReleasedLock(h)
  PROVE  \A g \in Handlers : lock' = g <=> lock = g /\ g # h
BY ConstantsAssumption DEF ReleasedLock, TypeOK

-----------------------------------------------------------------------------
(* Types.                                                                  *)

\* Every action keeps the types; what it needs besides is that a busy slot has an operation.
LEMMA TypeStep ==
  ASSUME TypeOK, Slots, [Next]_vars
  PROVE  TypeOK'
<1>0. ASSUME NEW h \in Handlers, Apply(h)
      PROVE  /\ open' \in BOOLEAN /\ handler' \in [Handlers -> Request] /\ applied' \in [Ops -> Nat]
             /\ UNCHANGED <<next, receipt, events, lock, faults>>
  <2>1. Effect(handler[h].op) \in BOOLEAN
    BY DEF Effect
  <2>2. QED
    BY <1>0, <2>1, ApplyEffect DEF OwnSlot
<1> USE ConstantsAssumption DEF TypeOK, Slots, Request, Idle, Ops
<1>1. ASSUME NEW h \in Handlers, Send(h) PROVE TypeOK'
  BY <1>1 DEF Send
<1>2. ASSUME NEW h \in Handlers, Respond(h) PROVE TypeOK'
  BY <1>2 DEF Respond, At, Op
<1>3. ASSUME NEW h \in Handlers, Lock(h) PROVE TypeOK'
  BY <1>3 DEF Lock, At, Go
<1>4. ASSUME NEW h \in Handlers, Begin(h) PROVE TypeOK'
  BY <1>4, BeginEffect DEF OwnSlot, ReleasedLock
<1>5. ASSUME NEW h \in Handlers, Apply(h) PROVE TypeOK'
  BY <1>5, <1>0
<1>6. ASSUME NEW h \in Handlers, Mark(h) PROVE TypeOK'
  BY <1>6 DEF Mark, At, Op, Go
<1>7. ASSUME NEW h \in Handlers, Log(h) PROVE TypeOK'
  BY <1>7 DEF Log, At, Op, Go
<1>8. ASSUME NEW h \in Handlers, Complete(h) PROVE TypeOK'
  BY <1>8 DEF Complete, At, Op, Go, ReleasedLock
<1>9. ASSUME NEW h \in Handlers, Abort(h) PROVE TypeOK'
  BY <1>9 DEF Abort, ReleasedLock
<1>10. CASE Crash
  BY <1>10 DEF Crash
<1>11. CASE UNCHANGED vars
  BY <1>11 DEF vars
<1>12. QED
  BY <1>1, <1>2, <1>3, <1>4, <1>5, <1>6, <1>7, <1>8, <1>9, <1>10, <1>11 DEF Next, Serve

-----------------------------------------------------------------------------
(* Who works on what.                                                      *)

\* A request at work is on the operation the client is delivering, and it is the only one.
LEMMA WorkingAlone ==
  ASSUME TypeOK, Slots, ReceiptsInOrder, OneWorker, NEW h \in Handlers, Working(h)
  PROVE  /\ handler[h].op = next /\ next \in Ops
         /\ receipt[next].status = "pending"
         /\ \A g \in Handlers : Working(g) => g = h
<1>1. ASSUME NEW g \in Handlers, Working(g)
      PROVE  handler[g].op \in Ops /\ handler[g].op = next /\ receipt[next].status = "pending"
  <2>1. handler[g].op \in Ops
    BY <1>1 DEF TypeOK, Slots, Working, Request
  <2>2. receipt[handler[g].op].status = "pending"
    BY <1>1 DEF ReceiptsInOrder
  <2>3. ~(handler[g].op < next)
    BY <2>1, <2>2 DEF ReceiptsInOrder
  <2>4. QED
    BY <2>1, <2>2, <2>3 DEF Slots, TypeOK, Ops
<1>2. ASSUME NEW g \in Handlers, Working(g) PROVE g = h
  <2>1. handler[g].op = next /\ handler[h].op = next
    BY <1>1, <1>2
  <2>2. QED
    BY <1>2, <2>1 DEF OneWorker
<1>3. QED
  BY <1>1, <1>2

-----------------------------------------------------------------------------
(* Each action keeps RInv.                                                 *)

\* The client sends an addition only while no copy of it runs.
LEMMA SendKeeps ==
  ASSUME RInv, Overlapping \cap Adds = {}, NEW h \in Handlers, Send(h), TypeOK'
  PROVE  RInv'
<1>1. /\ next \in Ops /\ next # 0 /\ handler[h].pc = "idle" /\ handler[h].op = 0
      /\ next \in Adds => ~Running(next)
      /\ UNCHANGED <<next, receipt, open, events, lock, applied, faults>>
  BY DEF RInv, Send, At, Slots, Ops
<1>2. /\ handler'[h].op = next
      /\ handler'[h].pc = IF next \in Adds THEN "beginning" ELSE "waiting"
      /\ \A g \in Handlers : g # h => handler'[g] = handler[g]
  BY DEF Send, RInv, TypeOK, Idle
<1>3. \A g \in Handlers : (Working(g))' <=> Working(g)
  BY <1>1, <1>2 DEF Working
<1>4. Slots'
  BY <1>1, <1>2 DEF RInv, Slots, TypeOK
<1>5. ReceiptsInOrder'
  BY <1>1, <1>2, <1>3 DEF RInv, ReceiptsInOrder, Working
<1>6. OneWorker'
  <2>1. \A g \in Handlers : next \in Adds => handler[g].op # next
    BY <1>1 DEF Running
  <2>2. lock # h
    BY <1>1 DEF RInv, OneWorker, Working
  <2>3. \A g \in Handlers : handler'[g].op \in Adds =>
          handler'[g].op = next /\ \A k \in Handlers : handler'[k].op = next => k = g
    BY <1>1, <1>2, <2>1 DEF RInv, OneWorker
  <2>4. \A g \in Handlers : lock = g <=>
          handler'[g].op \notin Adds /\ (handler'[g].pc = "beginning" \/ (Working(g))')
    BY <1>1, <1>2, <1>3, <2>2 DEF RInv, OneWorker, Working
  <2>5. QED
    BY <1>1, <2>3, <2>4 DEF OneWorker, Working
<1>7. Effects'
  BY <1>1, <1>2 DEF RInv, Effects, Effect
<1>8. Told'
  BY <1>1, <1>2, <1>3 DEF RInv, Told, Working
<1>9. QED
  BY <1>4, <1>5, <1>6, <1>7, <1>8 DEF RInv

\* The client moves on when the answer comes from the operation it is delivering.
LEMMA RespondKeeps ==
  ASSUME RInv, NEW h \in Handlers, Respond(h), TypeOK'
  PROVE  RInv'
<1>1. /\ handler[h].pc = "responding" /\ handler[h].op \in Ops
      /\ receipt[handler[h].op].status = "completed"
      /\ UNCHANGED <<receipt, open, events, lock, applied, faults>>
  BY DEF RInv, Respond, At, Slots, TypeOK, Request, ReceiptsInOrder
<1>2. next' = next \/ (handler[h].op = next /\ next' = next + 1)
  BY DEF Respond, Op
<1>3. /\ handler'[h].op = 0 /\ handler'[h].pc = "idle"
      /\ \A g \in Handlers : g # h => handler'[g] = handler[g]
  BY DEF Respond, RInv, TypeOK, Idle
<1>4. \A g \in Handlers : (Working(g))' <=> Working(g)
  BY <1>1, <1>3 DEF Working
<1>5. next \in Nat /\ \A o \in Ops : o \in Nat
  BY ConstantsAssumption DEF RInv, TypeOK, Ops
<1>6. Slots'
  <2>1. \A g \in Handlers : handler[g].op \in Nat
    BY <1>5 DEF RInv, TypeOK, Request
  <2>2. QED
    BY <1>1, <1>2, <1>3, <1>5, <2>1 DEF RInv, Slots
<1>7. ReceiptsInOrder'
  <2>1. \A g \in Handlers : /\ (Working(g))' => receipt[handler'[g].op].status = "pending"
                            /\ handler'[g].pc = "responding" => receipt[handler'[g].op].status = "completed"
    BY <1>1, <1>3, <1>4 DEF RInv, ReceiptsInOrder, Working
  <2>2. \A o \in Ops : /\ o < next' => receipt[o].status = "completed"
                       /\ o > next' => receipt[o].status = "none"
    BY <1>1, <1>2, <1>5 DEF RInv, ReceiptsInOrder
  <2>3. QED
    BY <1>1, <2>1, <2>2 DEF ReceiptsInOrder, Working
<1>8. OneWorker'
  <2>1. \A g \in Handlers : lock = g <=>
          handler'[g].op \notin Adds /\ (handler'[g].pc = "beginning" \/ (Working(g))')
    BY <1>1, <1>3, <1>4 DEF RInv, OneWorker, Working
  <2>2. ASSUME NEW g \in Handlers, handler'[g].op \in Adds
        PROVE  handler'[g].op = next' /\ \A k \in Handlers : handler'[k].op = next' => k = g
    <3>1. g # h /\ handler[g].op \in Adds /\ handler[g].op = next /\ next # 0
      BY <1>3, <2>2, ConstantsAssumption DEF RInv, OneWorker, Ops
    <3>2. handler[h].op # next
      BY <3>1 DEF RInv, OneWorker
    <3>3. QED
      BY <1>2, <1>3, <3>1, <3>2 DEF RInv, OneWorker
  <2>3. QED
    BY <1>1, <2>1, <2>2 DEF OneWorker, Working
<1>9. Effects'
  <2>1. CASE next' = next
    BY <1>1, <1>3, <2>1 DEF RInv, Effects, Effect
  <2>2. CASE handler[h].op = next /\ next' = next + 1
    <3>1. open = Effect(next) /\ next' - 1 = next
      BY <1>1, <1>5, <2>2 DEF RInv, Effects
    <3>2. next' \in Ops => receipt[next'].status = "none" /\ applied[next'] = 0
      BY <1>5, <2>2 DEF RInv, ReceiptsInOrder, Effects
    <3>3. QED
      BY <1>1, <1>3, <3>1, <3>2 DEF RInv, Effects, Effect
  <2>3. QED
    BY <1>2, <2>1, <2>2
<1>10. Told'
  BY <1>1, <1>3, <1>4 DEF RInv, Told, Working
<1>11. QED
  BY <1>6, <1>7, <1>8, <1>9, <1>10 DEF RInv

\* Only invalidations wait for the lock.
LEMMA LockKeeps ==
  ASSUME RInv, NEW h \in Handlers, Lock(h), TypeOK'
  PROVE  RInv'
<1>1. /\ handler[h].pc = "waiting" /\ handler[h].op \notin Adds /\ lock = Nobody /\ lock' = h
      /\ UNCHANGED <<next, receipt, open, events, applied, faults>>
  BY DEF RInv, Lock, At, Slots
<1>2. OwnSlot(h) /\ handler'[h].pc = "beginning"
  BY GoEffect DEF Lock, RInv
<1>3. \A g \in Handlers : (Working(g))' <=> Working(g)
  BY <1>1, <1>2 DEF Working, OwnSlot
<1>4. Slots'
  BY <1>1, <1>2 DEF RInv, Slots, OwnSlot
<1>5. ReceiptsInOrder'
  BY <1>1, <1>2, <1>3 DEF RInv, ReceiptsInOrder, Working, OwnSlot
<1>6. OneWorker'
  <2>1. \A g \in Handlers : handler'[g].op \in Adds =>
          handler'[g].op = next /\ \A k \in Handlers : handler'[k].op = next => k = g
    BY <1>1, <1>2 DEF RInv, OneWorker, OwnSlot
  <2>2. \A g \in Handlers : lock # g
    BY <1>1, ConstantsAssumption
  <2>3. \A g \in Handlers : lock' = g <=>
          handler'[g].op \notin Adds /\ (handler'[g].pc = "beginning" \/ (Working(g))')
    BY <1>1, <1>2, <1>3, <2>2 DEF RInv, OneWorker, Working, OwnSlot
  <2>4. QED
    BY <1>1, <2>1, <2>3 DEF OneWorker, Working
<1>7. Effects'
  BY <1>1, <1>2 DEF RInv, Effects, Effect, OwnSlot
<1>8. Told'
  BY <1>1, <1>2, <1>3 DEF RInv, Told, Working, OwnSlot
<1>9. QED
  BY <1>4, <1>5, <1>6, <1>7, <1>8 DEF RInv

\* A receipt that is not completed is the one of the operation the client is delivering, and no
\* other request works on it.
LEMMA BeginKeeps ==
  ASSUME RInv, NEW h \in Handlers, Begin(h), TypeOK'
  PROVE  RInv'
<1> DEFINE o == handler[h].op
<1>1. /\ o \in Ops /\ handler[h].pc = "beginning" /\ OwnSlot(h)
      /\ \A x \in Ops : x # o => receipt'[x] = receipt[x]
      /\ UNCHANGED <<next, open, events, applied, faults>>
  BY BeginEffect DEF RInv
<1>2. \A g \in Handlers : g # h => handler'[g] = handler[g] /\ ((Working(g))' <=> Working(g))
  BY <1>1 DEF OwnSlot, Working
<1>3. handler'[h].op = o /\ ~Working(h)
  BY <1>1 DEF OwnSlot, Working
<1>4. next \in Nat /\ o \in Nat /\ o <= next
  BY <1>1, ConstantsAssumption DEF RInv, TypeOK, Ops, Slots
<1>5. CASE /\ receipt[o].status = "completed" /\ receipt' = receipt
           /\ handler'[h].pc = "responding" /\ lock' = ReleasedLock(h)
  <2>1. ~(Working(h))'
    BY <1>5 DEF Working
  <2>2. Slots'
    BY <1>1, <1>2, <1>3, <1>5 DEF RInv, Slots
  <2>3. ReceiptsInOrder'
    BY <1>1, <1>2, <1>3, <1>5, <2>1 DEF RInv, ReceiptsInOrder, Working
  <2>4. OneWorker'
    <3>1. \A g \in Handlers : handler'[g].op \in Adds =>
            handler'[g].op = next /\ \A k \in Handlers : handler'[k].op = next => k = g
      BY <1>2, <1>3 DEF RInv, OneWorker
    <3>2. \A g \in Handlers : lock' = g <=> lock = g /\ g # h
      BY <1>5, ReleaseEffect DEF RInv
    <3>3. \A g \in Handlers : lock' = g <=>
            handler'[g].op \notin Adds /\ (handler'[g].pc = "beginning" \/ (Working(g))')
      BY <1>2, <1>3, <1>5, <2>1, <3>2 DEF RInv, OneWorker
    <3>4. QED
      BY <1>1, <3>1, <3>3 DEF OneWorker, Working
  <2>5. Effects'
    BY <1>1, <1>2, <1>3, <1>5 DEF RInv, Effects, Effect
  <2>6. Told'
    BY <1>1, <1>2, <1>3, <1>5, <2>1 DEF RInv, Told, Working
  <2>7. QED
    BY <2>2, <2>3, <2>4, <2>5, <2>6 DEF RInv
<1>6. CASE /\ receipt[o].status # "completed" /\ receipt'[o].status = "pending"
           /\ handler'[h].pc = "applying" /\ lock' = lock
  <2>1. o = next
    BY <1>1, <1>4, <1>6 DEF RInv, ReceiptsInOrder
  <2>2. ASSUME NEW g \in Handlers, Working(g) PROVE FALSE
    <3>1. handler[g].op = o /\ g # h
      BY <1>3, <2>1, <2>2, WorkingAlone DEF RInv
    <3>2. QED
      BY <1>1, <2>1, <2>2, <3>1 DEF RInv, OneWorker
  <2>3. (Working(h))'
    BY <1>6 DEF Working
  <2>4. Slots'
    BY <1>1, <1>2, <1>3, <1>6 DEF RInv, Slots
  <2>5. ReceiptsInOrder'
    <3>1. \A x \in Ops : /\ x < next => receipt'[x].status = "completed"
                         /\ x > next => receipt'[x].status = "none"
      BY <1>1, <1>4, <2>1 DEF RInv, ReceiptsInOrder, Ops
    <3>2. ASSUME NEW g \in Handlers, g # h, handler'[g].pc = "responding"
          PROVE  receipt'[handler'[g].op].status = "completed"
      <4>1. handler[g].op \in Ops /\ receipt[handler[g].op].status = "completed"
        BY <1>2, <3>2 DEF RInv, TypeOK, Slots, Request, ReceiptsInOrder
      <4>2. QED
        BY <1>1, <1>2, <1>6, <3>2, <4>1
    <3>3. QED
      BY <1>1, <1>2, <1>3, <1>6, <2>2, <2>3, <3>1, <3>2 DEF ReceiptsInOrder, Working
  <2>6. OneWorker'
    <3>1. \A g \in Handlers : handler'[g].op \in Adds =>
            handler'[g].op = next /\ \A k \in Handlers : handler'[k].op = next => k = g
      BY <1>2, <1>3 DEF RInv, OneWorker
    <3>2. \A g \in Handlers : lock = g <=>
            handler'[g].op \notin Adds /\ (handler'[g].pc = "beginning" \/ (Working(g))')
      BY <1>1, <1>2, <1>3, <2>3 DEF RInv, OneWorker
    <3>3. QED
      BY <1>1, <1>6, <3>1, <3>2 DEF OneWorker, Working
  <2>7. Effects'
    <3>1. \A x \in Ops : applied[x] <= 1 /\ (receipt'[x].status = "none" => applied[x] = 0)
      BY <1>1, <1>6 DEF RInv, Effects
    <3>2. receipt'[next].status # "completed" /\ receipt'[next].status # "none" /\ next \in Ops
      BY <1>1, <1>6, <2>1
    <3>3. \A g \in Handlers :
            handler'[g].pc \in {"marking", "logging", "completing"} => open = Effect(handler'[g].op)
      BY <1>2, <1>6 DEF RInv, Effects
    <3>4. next \in Ops /\ applied[next] > 0 => open = Effect(next)
      BY DEF RInv, Effects
    <3>5. QED
      BY <1>1, <3>1, <3>2, <3>3, <3>4 DEF Effects, Effect
  <2>8. Told'
    <3>1. faults = 0 => applied[o] = 0
      <4>1. receipt[o].status = "none" \/ receipt[o].status = "pending"
        BY <1>1, <1>6 DEF RInv, TypeOK
      <4>2. QED
        BY <1>1, <2>2, <4>1 DEF RInv, Told, Effects
    <3>2. faults = 0 => \A x \in Ops : receipt'[x].status = "pending" =>
            \E g \in Handlers : handler'[g].op = x /\ (Working(g))'
      BY <1>1, <1>3, <2>2, <2>3 DEF RInv, Told
    <3>3. QED
      BY <1>1, <1>2, <1>3, <1>6, <3>1, <3>2 DEF RInv, Told, Working
  <2>9. QED
    BY <2>4, <2>5, <2>6, <2>7, <2>8 DEF RInv
<1>7. QED
  BY <1>5, <1>6, BeginEffect DEF RInv

\* The effect lands the first time only: a repeat finds the fact as it left it.
LEMMA ApplyKeeps ==
  ASSUME RInv, NEW h \in Handlers, Apply(h), TypeOK'
  PROVE  RInv'
<1>1. /\ handler[h].pc = "applying" /\ OwnSlot(h) /\ open' = Effect(handler[h].op)
      /\ applied' \in [Ops -> Nat]
      /\ \A o \in Ops : o # handler[h].op => applied'[o] = applied[o]
      /\ handler'[h].pc \in {"marking", "logging", "completing"}
      /\ UNCHANGED <<next, receipt, events, lock, faults>>
  BY ApplyEffect DEF RInv
<1>2. Working(h) /\ (Working(h))'
  BY <1>1 DEF Working
<1>3. /\ handler[h].op = next /\ next \in Ops /\ receipt[next].status = "pending"
      /\ \A g \in Handlers : Working(g) => g = h
  BY <1>2, WorkingAlone DEF RInv
<1>4. /\ handler'[h].op = next
      /\ \A g \in Handlers : g # h => handler'[g] = handler[g] /\ ~Working(g) /\ ~(Working(g))'
  BY <1>1, <1>3 DEF OwnSlot, Working
<1>5. \/ /\ applied[next] = 0 /\ applied'[next] = 1
         /\ handler'[h].pc \in {"marking", "logging"}
      \/ applied'[next] = applied[next] /\ open = Effect(next)
  <2>1. CASE /\ open # Effect(next) /\ applied'[next] = applied[next] + 1
             /\ handler'[h].pc \in {"marking", "logging"}
    <3>1. applied[next] = 0
      BY <1>3, <2>1 DEF RInv, Effects, TypeOK
    <3>2. QED
      BY <2>1, <3>1
  <2>2. CASE open = Effect(next) /\ applied' = applied
    BY <2>2
  <2>3. QED
    BY <1>3, <2>1, <2>2, ApplyEffect DEF RInv
<1>6. Slots'
  BY <1>1, <1>3, <1>4 DEF RInv, Slots
<1>7. ReceiptsInOrder'
  BY <1>1, <1>3, <1>4 DEF RInv, ReceiptsInOrder, Working
<1>8. OneWorker'
  <2>1. \A g \in Handlers : handler'[g].op \in Adds =>
          handler'[g].op = next /\ \A k \in Handlers : handler'[k].op = next => k = g
    BY <1>3, <1>4 DEF RInv, OneWorker
  <2>2. \A g \in Handlers : lock = g <=>
          handler'[g].op \notin Adds /\ (handler'[g].pc = "beginning" \/ (Working(g))')
    BY <1>1, <1>2, <1>3, <1>4 DEF RInv, OneWorker
  <2>3. QED
    BY <1>1, <2>1, <2>2 DEF OneWorker, Working
<1>9. Effects'
  <2>1. \A o \in Ops : applied'[o] <= 1 /\ (receipt[o].status = "none" => applied'[o] = 0)
    BY <1>1, <1>3, <1>5 DEF RInv, Effects
  <2>2. \A g \in Handlers :
          handler'[g].pc \in {"marking", "logging", "completing"} => handler'[g].op = next
    BY <1>4 DEF Working
  <2>3. QED
    BY <1>1, <1>3, <2>1, <2>2 DEF Effects, Effect
<1>10. Told'
  <2>1. faults = 0 => applied[next] = 0
    BY <1>1, <1>3 DEF RInv, Told
  <2>2. ASSUME faults = 0, NEW o \in Ops, applied'[o] > 0
        PROVE  \/ o \in events
               \/ \E g \in Handlers : handler'[g].op = o /\ handler'[g].pc \in {"marking", "logging"}
    <3>1. CASE o = next
      BY <1>4, <1>5, <2>1, <2>2, <3>1
    <3>2. CASE o # next
      BY <1>1, <1>3, <1>4, <2>2, <3>2 DEF RInv, Told
    <3>3. QED
      BY <3>1, <3>2
  <2>3. ASSUME faults = 0, NEW o \in Ops, receipt[o].status = "pending"
        PROVE  \E g \in Handlers : handler'[g].op = o /\ (Working(g))'
    BY <1>2, <1>3, <1>4, <2>3 DEF RInv, Told
  <2>4. \A g \in Handlers : handler'[g].pc # "applying"
    BY <1>1, <1>4 DEF Working
  <2>5. QED
    BY <1>1, <2>2, <2>3, <2>4 DEF Told, Working
<1>11. QED
  BY <1>6, <1>7, <1>8, <1>9, <1>10 DEF RInv

\* What is common to the steps from effect to completion: the request is alone at work, on next,
\* and its move leaves the slots and the lock's holder as they were.
LEMMA WorkerMoves ==
  ASSUME RInv, NEW h \in Handlers, Working(h), OwnSlot(h), handler'[h].pc \in {"logging", "completing"},
         UNCHANGED <<next, lock>>
  PROVE  /\ handler[h].op = next /\ handler'[h].op = next /\ next \in Ops
         /\ receipt[next].status = "pending" /\ (Working(h))'
         /\ \A g \in Handlers : g # h => handler'[g] = handler[g] /\ ~Working(g) /\ ~(Working(g))'
         /\ Slots' /\ OneWorker'
<1>1. /\ handler[h].op = next /\ handler'[h].op = next /\ next \in Ops
      /\ receipt[next].status = "pending" /\ (Working(h))'
      /\ \A g \in Handlers : g # h => handler'[g] = handler[g] /\ ~Working(g) /\ ~(Working(g))'
  BY WorkingAlone DEF RInv, OwnSlot, Working
<1>2. Slots'
  <2>1. next # 0
    BY <1>1 DEF Ops
  <2>2. QED
    BY <1>1, <2>1 DEF RInv, Slots, TypeOK, Ops
<1>3. OneWorker'
  <2>1. \A g \in Handlers : handler'[g].op \in Adds =>
          handler'[g].op = next /\ \A k \in Handlers : handler'[k].op = next => k = g
    BY <1>1 DEF RInv, OneWorker
  <2>2. \A g \in Handlers : lock = g <=>
          handler'[g].op \notin Adds /\ (handler'[g].pc = "beginning" \/ (Working(g))')
    BY <1>1 DEF RInv, OneWorker
  <2>3. QED
    BY <2>1, <2>2 DEF OneWorker, Working
<1>4. QED
  BY <1>1, <1>2, <1>3

LEMMA MarkKeeps ==
  ASSUME RInv, NEW h \in Handlers, Mark(h), TypeOK'
  PROVE  RInv'
<1>1. /\ handler[h].pc = "marking" /\ Working(h) /\ OwnSlot(h) /\ handler'[h].pc = "logging"
      /\ UNCHANGED <<next, open, events, lock, applied, faults>>
  BY GoEffect DEF Mark, At, Working, RInv
<1>2. \A o \in Ops : receipt'[o].status = receipt[o].status
  BY DEF Mark, RInv, TypeOK
<1>3. /\ handler[h].op = next /\ handler'[h].op = next /\ next \in Ops
      /\ receipt[next].status = "pending" /\ (Working(h))'
      /\ \A g \in Handlers : g # h => handler'[g] = handler[g] /\ ~Working(g) /\ ~(Working(g))'
      /\ Slots' /\ OneWorker'
  BY <1>1, WorkerMoves
<1>4. ReceiptsInOrder'
  <2>1. ASSUME NEW g \in Handlers, g # h, handler'[g].pc = "responding"
        PROVE  receipt'[handler'[g].op].status = "completed"
    <3>1. handler[g].op \in Ops /\ receipt[handler[g].op].status = "completed"
      BY <1>3, <2>1 DEF RInv, TypeOK, Slots, Request, ReceiptsInOrder
    <3>2. QED
      BY <1>2, <1>3, <2>1, <3>1
  <2>2. QED
    BY <1>1, <1>2, <1>3, <2>1 DEF RInv, ReceiptsInOrder, Working
<1>5. Effects'
  BY <1>1, <1>2, <1>3 DEF RInv, Effects, Effect
<1>6. Told'
  BY <1>1, <1>2, <1>3 DEF RInv, Told, Working
<1>7. QED
  BY <1>3, <1>4, <1>5, <1>6 DEF RInv

LEMMA LogKeeps ==
  ASSUME RInv, NEW h \in Handlers, Log(h), TypeOK'
  PROVE  RInv'
<1>1. /\ handler[h].pc = "logging" /\ Working(h) /\ OwnSlot(h) /\ handler'[h].pc = "completing"
      /\ events' = events \cup {handler[h].op}
      /\ UNCHANGED <<next, receipt, open, lock, applied, faults>>
  BY GoEffect DEF Log, At, Op, Working, RInv
<1>2. /\ handler[h].op = next /\ handler'[h].op = next /\ next \in Ops
      /\ receipt[next].status = "pending" /\ (Working(h))'
      /\ \A g \in Handlers : g # h => handler'[g] = handler[g] /\ ~Working(g) /\ ~(Working(g))'
      /\ Slots' /\ OneWorker'
  BY <1>1, WorkerMoves
<1>3. ReceiptsInOrder'
  BY <1>1, <1>2 DEF RInv, ReceiptsInOrder, Working
<1>4. Effects'
  BY <1>1, <1>2 DEF RInv, Effects, Effect
<1>5. Told'
  BY <1>1, <1>2 DEF RInv, Told, Working
<1>6. QED
  BY <1>2, <1>3, <1>4, <1>5 DEF RInv

\* The receipt of the operation being delivered completes with the fact showing it.
LEMMA CompleteKeeps ==
  ASSUME RInv, NEW h \in Handlers, Complete(h), TypeOK'
  PROVE  RInv'
<1>1. /\ handler[h].pc = "completing" /\ Working(h) /\ OwnSlot(h) /\ handler'[h].pc = "responding"
      /\ UNCHANGED <<next, open, events, applied, faults>>
  BY GoEffect DEF Complete, At, Working, RInv
<1>2. /\ handler[h].op = next /\ next \in Ops /\ receipt[next].status = "pending"
      /\ \A g \in Handlers : Working(g) => g = h
  BY <1>1, WorkingAlone DEF RInv
<1>3. /\ receipt'[next].status = "completed"
      /\ \A o \in Ops : o # next => receipt'[o] = receipt[o]
  BY <1>2 DEF Complete, Op, RInv, TypeOK
<1>4. /\ handler'[h].op = next /\ ~(Working(h))'
      /\ \A g \in Handlers : g # h => handler'[g] = handler[g] /\ ~Working(g) /\ ~(Working(g))'
  BY <1>1, <1>2 DEF OwnSlot, Working
<1>5. \A g \in Handlers : lock' = g <=> lock = g /\ g # h
  BY ReleaseEffect DEF Complete, RInv
<1>6. Slots'
  <2>1. next # 0
    BY <1>2 DEF Ops
  <2>2. QED
    BY <1>1, <1>2, <1>4, <2>1 DEF RInv, Slots, TypeOK, Ops
<1>7. ReceiptsInOrder'
  <2>1. \A o \in Ops : /\ o < next => receipt'[o].status = "completed"
                       /\ o > next => receipt'[o].status = "none"
    BY <1>2, <1>3 DEF RInv, ReceiptsInOrder, Ops
  <2>2. ASSUME NEW g \in Handlers, g # h, handler'[g].pc = "responding"
        PROVE  receipt'[handler'[g].op].status = "completed"
    <3>1. handler[g].op \in Ops /\ receipt[handler[g].op].status = "completed"
      BY <1>4, <2>2 DEF RInv, TypeOK, Slots, Request, ReceiptsInOrder
    <3>2. QED
      BY <1>3, <1>4, <2>2, <3>1
  <2>3. QED
    BY <1>1, <1>3, <1>4, <2>1, <2>2 DEF ReceiptsInOrder, Working
<1>8. OneWorker'
  <2>1. \A g \in Handlers : handler'[g].op \in Adds =>
          handler'[g].op = next /\ \A k \in Handlers : handler'[k].op = next => k = g
    BY <1>2, <1>4 DEF RInv, OneWorker
  <2>2. \A g \in Handlers : lock' = g <=>
          handler'[g].op \notin Adds /\ (handler'[g].pc = "beginning" \/ (Working(g))')
    BY <1>1, <1>4, <1>5 DEF RInv, OneWorker
  <2>3. QED
    BY <1>1, <2>1, <2>2 DEF OneWorker, Working
<1>9. Effects'
  <2>1. open = Effect(next)
    BY <1>1, <1>2 DEF RInv, Effects
  <2>2. \A o \in Ops : applied[o] <= 1 /\ (receipt'[o].status = "none" => applied[o] = 0)
    BY <1>2, <1>3 DEF RInv, Effects
  <2>3. \A g \in Handlers : handler'[g].pc \notin {"marking", "logging", "completing"}
    BY <1>4 DEF Working
  <2>4. QED
    BY <1>1, <1>2, <1>3, <2>1, <2>2, <2>3 DEF Effects, Effect
<1>10. Told'
  <2>1. faults = 0 => \A o \in Ops : applied[o] > 0 => o \in events
    BY <1>1, <1>4 DEF RInv, Told, Working
  <2>2. faults = 0 => \A o \in Ops : receipt'[o].status # "pending"
    BY <1>2, <1>3, <1>4 DEF RInv, Told
  <2>3. \A g \in Handlers : handler'[g].pc # "applying"
    BY <1>4 DEF Working
  <2>4. QED
    BY <1>1, <2>1, <2>2, <2>3 DEF Told, Working
<1>11. QED
  BY <1>6, <1>7, <1>8, <1>9, <1>10 DEF RInv

\* A request that ends with an error leaves its receipt and its effect for the repeat to find.
LEMMA FaultKeeps ==
  ASSUME RInv, TypeOK', Crash \/ \E h \in Handlers : Abort(h)
  PROVE  RInv'
<1>1. /\ faults' # 0 /\ UNCHANGED <<next, receipt, open, events, applied>>
      /\ next \in Nat
  BY ConstantsAssumption DEF Crash, Abort, RInv, TypeOK
<1>2. \A g \in Handlers : \/ handler'[g].pc = "idle" /\ handler'[g].op = 0 /\ lock' # g
                          \/ handler'[g] = handler[g] /\ (lock' = g <=> lock = g)
  <2>1. CASE Crash
    BY <2>1, ConstantsAssumption DEF Crash, Idle
  <2>2. CASE \E h \in Handlers : Abort(h)
    <3>1. PICK h \in Handlers : Abort(h)
      BY <2>2
    <3>2. \A g \in Handlers : lock' = g <=> lock = g /\ g # h
      BY <3>1, ReleaseEffect DEF Abort, RInv
    <3>3. /\ handler'[h].pc = "idle" /\ handler'[h].op = 0
          /\ \A g \in Handlers : g # h => handler'[g] = handler[g]
      BY <3>1 DEF Abort, RInv, TypeOK, Idle
    <3>4. QED
      BY <3>2, <3>3
  <2>3. QED
    BY <2>1, <2>2
<1>3. Slots'
  BY <1>1, <1>2 DEF RInv, Slots
<1>4. ReceiptsInOrder'
  BY <1>1, <1>2 DEF RInv, ReceiptsInOrder, Working
<1>5. OneWorker'
  <2>1. 0 \notin Adds /\ next # 0
    BY ConstantsAssumption DEF RInv, TypeOK, Ops
  <2>2. \A g \in Handlers : handler'[g].op \in Adds =>
          handler'[g].op = next /\ \A k \in Handlers : handler'[k].op = next => k = g
    BY <1>2, <2>1 DEF RInv, OneWorker
  <2>3. \A g \in Handlers : lock' = g <=>
          handler'[g].op \notin Adds /\ (handler'[g].pc = "beginning" \/ (Working(g))')
    BY <1>2 DEF RInv, OneWorker, Working
  <2>4. QED
    BY <1>1, <2>2, <2>3 DEF OneWorker, Working
<1>6. Effects'
  BY <1>1, <1>2 DEF RInv, Effects, Effect
<1>7. Told'
  BY <1>1 DEF Told
<1>8. QED
  BY <1>3, <1>4, <1>5, <1>6, <1>7 DEF RInv

-----------------------------------------------------------------------------
(* The theorems.                                                           *)

LEMMA InvInit == Init => RInv
<1> SUFFICES ASSUME Init PROVE RInv
  OBVIOUS
<1> USE ConstantsAssumption DEF Init, Idle, Ops
<1>1. TypeOK
  BY DEF TypeOK, Request
<1>2. Slots /\ ReceiptsInOrder
  BY DEF Slots, ReceiptsInOrder, Working
<1>3. OneWorker
  BY DEF OneWorker, Working
<1>4. Effects /\ Told
  BY DEF Effects, Told
<1>5. QED
  BY <1>1, <1>2, <1>3, <1>4 DEF RInv

LEMMA InvStep ==
  ASSUME Overlapping \cap Adds = {}, RInv, [Next]_vars
  PROVE  RInv'
<1>1. TypeOK'
  BY TypeStep DEF RInv
<1>2. ASSUME NEW h \in Handlers, Serve(h) PROVE RInv'
  BY <1>1, <1>2, LockKeeps, BeginKeeps, ApplyKeeps, MarkKeeps, LogKeeps, CompleteKeeps,
     FaultKeeps
  DEF Serve
<1>3. CASE UNCHANGED vars
  BY <1>1, <1>3 DEF vars, RInv, Slots, ReceiptsInOrder, OneWorker, Effects, Effect, Told, Working
<1>4. QED
  BY <1>1, <1>2, <1>3, SendKeeps, RespondKeeps, FaultKeeps DEF Next

THEOREM ReceiptsStay ==
  ASSUME Overlapping \cap Adds = {}
  PROVE  Spec => []RInv
<1>1. RInv /\ [Next]_vars => RInv'
  BY InvStep
<1>2. QED
  BY <1>1, InvInit, PTL DEF Spec

\* For any number of operations, repeats, crashes and failed transactions, in any interleaving of
\* the requests: an operation of the client's outbox changes the fact at most once, and as long as
\* no transaction has failed, one that changed it is in the change log when its receipt completes
\* (the operation_id branches of route_kg_add and route_kg_invalidate).
THEOREM OperationsLandOnce ==
  ASSUME Overlapping \cap Adds = {}
  PROVE  Spec => []ReceiptInv
<1>1. RInv => LandsOnce
  BY DEF RInv, Effects, LandsOnce
<1>2. RInv => LockKeepsEffects
  <2> SUFFICES ASSUME RInv, faults = 0, NEW o \in Ops, receipt[o].status = "completed", applied[o] > 0
               PROVE  o \in events
    BY DEF LockKeepsEffects, EffectLogged
  <2>1. ASSUME NEW h \in Handlers, handler[h].op = o, handler[h].pc \in {"marking", "logging"}
        PROVE FALSE
    <3>1. receipt[o].status = "pending"
      BY <2>1 DEF RInv, ReceiptsInOrder, Working
    <3>2. QED
      BY <3>1
  <2>2. QED
    BY <2>1 DEF RInv, Told
<1>3. RInv => ReceiptInv
  BY <1>1, <1>2 DEF ReceiptInv, RInv
<1>4. QED
  BY <1>3, ReceiptsStay, PTL

\* Whenever the server is quiet and has not begun the operation the client delivers next, the
\* replica shows the last operation the client saw acknowledged: a late, repeated or recovered
\* request of an earlier operation never undoes a later one.
THEOREM ReplicaShowsLast ==
  ASSUME Overlapping \cap Adds = {}
  PROVE  Spec => []ReplicaFollows
<1>1. RInv => ReplicaFollows
  BY DEF RInv, Effects, ReplicaFollows
<1>2. QED
  BY <1>1, ReceiptsStay, PTL
=============================================================================
