---------------------------- MODULE Outbox_proofs ----------------------------
(***************************************************************************)
(* Proofs about Outbox for every number of operations, destinations, keys  *)
(* and workers, and every lease duration and backoff.  The inductive       *)
(* invariant is Inv: the three safety invariants, the type invariant and   *)
(* the bound of every sequence by the last one assigned.                   *)
(***************************************************************************)
EXTENDS Outbox, TLAPS

\* Every assigned sequence is at most the last one assigned.
SequencesBounded == \A o \in Ops : Exists(o) => op[o].seq <= lastSeq

\* The call of a step is the call of a worker, or of nobody.
Called == caller' \in Workers \cup {Nobody}

Inv == TypeOK /\ SequencesBounded /\ SequencesUnique /\ DeliveredInOrder /\ LeaseConsistent

\* The conjuncts of LeaseConsistent for one row.
RowConsistent(row) ==
  /\ row.state = "leased" <=> row.worker # Nobody
  /\ row.worker # Nobody <=> row.lease # NoTime
  /\ row.retry # NoTime => row.state = "retryable"

\* The columns a write of an existing operation leaves alone, and what it may do to the state:
\* nothing is claimed past a live predecessor, and nothing settled becomes live again.
MayBecome(o, row) ==
  /\ row.seq = op[o].seq /\ row.remote = op[o].remote /\ row.key = op[o].key
  /\ row.state # "absent"
  /\ row.state \in {"leased", "retryable", "replicated", "failed"}
       => Attempted(o) \/ ~HasPredecessor(o)
  /\ op[o].state \in TerminalStates => row.state \in TerminalStates

-----------------------------------------------------------------------------
(* Writes.                                                                 *)

\* A committed write changes one row, to a row of the next revision.
LEMMA WriteTyped ==
  ASSUME TypeOK, NEW o \in Ops, NEW row \in Row, Write(o, row)
  PROVE  /\ op' = [op EXCEPT ![o] = [row EXCEPT !.revision = op[o].revision + 1]]
         /\ [row EXCEPT !.revision = op[o].revision + 1] \in Row
<1>1. op[o].revision + 1 \in Nat
  BY DEF TypeOK, Row
<1>2. [row EXCEPT !.revision = op[o].revision + 1] \in Row
  BY <1>1 DEF Row
<1>3. QED
  BY <1>2 DEF TypeOK, Write

\* A write that MayBecome allows keeps every conjunct of Inv.
LEMMA WriteKeepsInv ==
  ASSUME Inv, NEW o \in Ops, NEW row \in Row, Exists(o), RowConsistent(row), MayBecome(o, row),
         Write(o, row), Called
  PROVE  Inv'
<1> DEFINE new == [row EXCEPT !.revision = op[o].revision + 1]
<1>1. TypeOK' /\ op' = [op EXCEPT ![o] = new] /\ new \in Row
  <2>1. op' = [op EXCEPT ![o] = new] /\ new \in Row
    BY WriteTyped DEF Inv
  <2>2. QED
    BY <2>1 DEF Inv, TypeOK, Write, Called
<1>2. /\ new.seq = op[o].seq /\ new.remote = op[o].remote /\ new.key = op[o].key
      /\ new.state = row.state /\ new.worker = row.worker
      /\ new.lease = row.lease /\ new.retry = row.retry
  BY DEF MayBecome, Row
<1>3. \A p \in Ops : op'[p] = IF p = o THEN new ELSE op[p]
  BY <1>1 DEF Inv, TypeOK
<1>4. \A p \in Ops : /\ op'[p].seq = op[p].seq
                     /\ op'[p].remote = op[p].remote
                     /\ op'[p].key = op[p].key
  BY <1>2, <1>3
<1>5. \A p \in Ops : Exists(p)' <=> Exists(p)
  BY <1>2, <1>3 DEF Exists, MayBecome
<1>6. SequencesBounded' /\ SequencesUnique'
  BY <1>4, <1>5 DEF Inv, SequencesBounded, SequencesUnique, Write
<1>7. LeaseConsistent'
  BY <1>2, <1>3 DEF Inv, LeaseConsistent, RowConsistent
<1>8. DeliveredInOrder'
  <2> SUFFICES ASSUME NEW q \in Ops, NEW p \in Ops, SameGroup(q, p)', op'[p].seq < op'[q].seq,
                      Attempted(q)'
               PROVE  op'[p].state \in TerminalStates
    BY DEF DeliveredInOrder
  <2>1. SameGroup(q, p) /\ op[p].seq < op[q].seq
    BY <1>4, <1>5 DEF SameGroup
  <2>2. CASE q = o
    <3>1. p # o
      BY <2>1, <2>2 DEF Inv, TypeOK, Row
    <3>2. op'[p] = op[p]
      BY <1>3, <3>1
    <3>3. Attempted(o) \/ ~HasPredecessor(o)
      BY <1>2, <1>3, <2>2 DEF Attempted, MayBecome
    <3>4. CASE Attempted(o)
      BY <2>1, <2>2, <3>2, <3>4 DEF Inv, DeliveredInOrder
    <3>5. CASE ~HasPredecessor(o)
      <4>1. ~Active(p)
        BY <2>1, <2>2, <3>5 DEF HasPredecessor
      <4>2. op[p].state \in States
        BY <2>1 DEF SameGroup, Exists, Inv, TypeOK, Row
      <4>3. QED
        BY <3>2, <4>1, <4>2 DEF Active, States
    <3>6. QED
      BY <3>3, <3>4, <3>5
  <2>3. CASE q # o
    <3>1. Attempted(q)
      BY <1>3, <2>3 DEF Attempted
    <3>2. op[p].state \in TerminalStates
      BY <2>1, <3>1 DEF Inv, DeliveredInOrder
    <3>3. QED
      BY <1>2, <1>3, <3>2 DEF MayBecome
  <2>4. QED
    BY <2>2, <2>3
<1>9. QED
  BY <1>1, <1>6, <1>7, <1>8 DEF Inv

\* A row appended behind every other one keeps the order, whether fresh or revived.
LEMMA AppendKeepsInv ==
  ASSUME Inv, NEW o \in Ops, NEW row \in Row, row.state = "staged", row.seq = lastSeq + 1,
         RowConsistent(row), op' = [op EXCEPT ![o] = row], lastSeq' = lastSeq + 1, now' = now,
         Called
  PROVE  Inv'
<1>1. TypeOK'
  BY DEF Inv, TypeOK, Called
<1>2. \A p \in Ops : op'[p] = IF p = o THEN row ELSE op[p]
  BY DEF Inv, TypeOK
<1>3. lastSeq \in Nat /\ \A p \in Ops : op[p].seq \in Nat
  BY DEF Inv, TypeOK, Row
<1>4. SequencesBounded'
  BY <1>2, <1>3 DEF Inv, SequencesBounded, Exists
<1>5. SequencesUnique'
  BY <1>2, <1>3 DEF Inv, SequencesBounded, SequencesUnique, Exists
<1>6. LeaseConsistent'
  BY <1>2 DEF Inv, LeaseConsistent, RowConsistent
<1>7. DeliveredInOrder'
  <2> SUFFICES ASSUME NEW q \in Ops, NEW p \in Ops, SameGroup(q, p)', op'[p].seq < op'[q].seq,
                      Attempted(q)'
               PROVE  op'[p].state \in TerminalStates
    BY DEF DeliveredInOrder
  <2>1. q # o
    BY <1>2 DEF Attempted
  <2>2. op'[q] = op[q] /\ Exists(q)
    BY <1>2, <2>1 DEF SameGroup, Exists
  <2>3. p # o
    BY <1>2, <1>3, <2>2 DEF Inv, SequencesBounded
  <2>4. QED
    BY <1>2, <2>2, <2>3 DEF Inv, DeliveredInOrder, SameGroup, Exists, Attempted
<1>8. QED
  BY <1>1, <1>4, <1>5, <1>6, <1>7 DEF Inv

-----------------------------------------------------------------------------
(* Rows the operations write.                                              *)

\* A row handed to a worker.
LEMMA LeasedRow ==
  ASSUME NEW row \in Row, NEW w \in Workers, NEW ttl, now + ttl \in Nat
  PROVE  /\ Leased(row, w, ttl) \in Row
         /\ Leased(row, w, ttl).seq = row.seq
         /\ Leased(row, w, ttl).remote = row.remote
         /\ Leased(row, w, ttl).key = row.key
         /\ Leased(row, w, ttl).state = "leased"
         /\ Leased(row, w, ttl).worker = w
         /\ Leased(row, w, ttl).lease = now + ttl
         /\ Leased(row, w, ttl).retry = NoTime
<1>1. "leased" \in States
  BY DEF States, ActiveStates
<1>2. QED
  BY <1>1 DEF Row, Leased

\* A row that gave its lease back.
LEMMA ReleasedRow ==
  ASSUME NEW row \in Row, NEW s \in States, NEW r \in Nat \cup {NoTime}
  PROVE  /\ Released(row, s, r) \in Row
         /\ Released(row, s, r).seq = row.seq
         /\ Released(row, s, r).remote = row.remote
         /\ Released(row, s, r).key = row.key
         /\ Released(row, s, r).state = s
         /\ Released(row, s, r).worker = Nobody
         /\ Released(row, s, r).lease = NoTime
         /\ Released(row, s, r).retry = r
BY DEF Row, Released

\* A fresh row, still blank but for state, place and destination.
Enqueued(row, n, r, k) == [row EXCEPT !.state = "staged", !.seq = n, !.remote = r, !.key = k]

\* Such a row is a row.
LEMMA EnqueuedRow ==
  ASSUME NEW row \in Row, NEW n \in Nat, NEW r \in Remotes, NEW k \in Keys
  PROVE  /\ Enqueued(row, n, r, k) \in Row
         /\ Enqueued(row, n, r, k).state = "staged"
         /\ Enqueued(row, n, r, k).seq = n
         /\ Enqueued(row, n, r, k).worker = row.worker
         /\ Enqueued(row, n, r, k).lease = row.lease
         /\ Enqueued(row, n, r, k).retry = row.retry
<1>1. "staged" \in States
  BY DEF States, ActiveStates
<1>2. QED
  BY <1>1 DEF Row, Enqueued

\* A row whose state alone changes.
LEMMA RestatedTyped ==
  ASSUME NEW row \in Row, NEW s \in States
  PROVE  LET new == [row EXCEPT !.state = s]
         IN  /\ new \in Row
             /\ new.seq = row.seq /\ new.remote = row.remote /\ new.key = row.key
             /\ new.state = s /\ new.worker = row.worker
             /\ new.lease = row.lease /\ new.retry = row.retry
BY DEF Row

\* A leased row stays leased, with another worker or another lease.
LEMMA LeaseMoveKeepsInv ==
  ASSUME Inv, NEW o \in Ops, op[o].state = "leased", NEW row \in Row,
         row.seq = op[o].seq, row.remote = op[o].remote, row.key = op[o].key,
         row.state = "leased", row.worker \in Workers, row.lease \in Nat, row.retry = op[o].retry,
         Write(o, row), Called
  PROVE  Inv'
<1>1. Exists(o) /\ RowConsistent(op[o])
  BY DEF Inv, LeaseConsistent, RowConsistent, Exists
<1>2. RowConsistent(row)
  BY <1>1, ConstantsAssumption DEF RowConsistent, NoTime
<1>3. MayBecome(o, row)
  BY DEF MayBecome, Attempted, TerminalStates
<1>4. QED
  BY <1>1, <1>2, <1>3, WriteKeepsInv

\* Handing a claimable operation to a worker.
LEMMA LeasedKeepsInv ==
  ASSUME Inv, NEW o \in Ops, NEW w \in Workers, NEW ttl \in Ttls,
         op[o].state \in ActiveStates, ~HasPredecessor(o),
         Write(o, Leased(op[o], w, ttl)), Called
  PROVE  Inv'
<1> DEFINE row == Leased(op[o], w, ttl)
<1>1. op[o] \in Row /\ now + ttl \in Nat
  BY ConstantsAssumption DEF Inv, TypeOK
<1>2. /\ row \in Row
      /\ row.seq = op[o].seq /\ row.remote = op[o].remote /\ row.key = op[o].key
      /\ row.state = "leased" /\ row.worker = w /\ row.lease = now + ttl /\ row.retry = NoTime
  BY <1>1, LeasedRow
<1>3. RowConsistent(row)
  BY <1>1, <1>2, ConstantsAssumption DEF RowConsistent, NoTime
<1>4. Exists(o) /\ MayBecome(o, row)
  BY <1>2 DEF MayBecome, Exists, ActiveStates, TerminalStates
<1>5. QED
  BY <1>2, <1>3, <1>4, WriteKeepsInv

\* Resolving the attempt of a leased operation.
LEMMA ReleasedKeepsInv ==
  ASSUME Inv, NEW o \in Ops, op[o].state = "leased",
         NEW s \in {"replicated", "retryable", "failed"}, NEW r \in Nat \cup {NoTime},
         r # NoTime => s = "retryable",
         Write(o, Released(op[o], s, r)), Called
  PROVE  Inv'
<1> DEFINE row == Released(op[o], s, r)
<1>1. op[o] \in Row /\ s \in States
  BY DEF Inv, TypeOK, States, ActiveStates, TerminalStates
<1>2. /\ row \in Row
      /\ row.seq = op[o].seq /\ row.remote = op[o].remote /\ row.key = op[o].key
      /\ row.state = s /\ row.worker = Nobody /\ row.lease = NoTime /\ row.retry = r
  BY <1>1, ReleasedRow
<1>3. RowConsistent(row)
  BY <1>2 DEF RowConsistent
<1>4. Exists(o) /\ MayBecome(o, row)
  BY <1>2 DEF MayBecome, Exists, Attempted, TerminalStates
<1>5. QED
  BY <1>2, <1>3, <1>4, WriteKeepsInv

\* Deciding a staged operation: the local commit was confirmed, or was not.
LEMMA StagedKeepsInv ==
  ASSUME Inv, NEW o \in Ops, op[o].state = "staged", NEW s \in {"pending", "cancelled"},
         Write(o, [op[o] EXCEPT !.state = s]), Called
  PROVE  Inv'
<1> DEFINE row == [op[o] EXCEPT !.state = s]
<1>1. op[o] \in Row /\ s \in States
  BY DEF Inv, TypeOK, States, ActiveStates, TerminalStates
<1>2. /\ row \in Row
      /\ row.seq = op[o].seq /\ row.remote = op[o].remote /\ row.key = op[o].key
      /\ row.state = s /\ row.worker = op[o].worker
      /\ row.lease = op[o].lease /\ row.retry = op[o].retry
  BY <1>1, RestatedTyped
<1>3. RowConsistent(row)
  BY <1>2 DEF RowConsistent, Inv, LeaseConsistent
<1>4. Exists(o) /\ MayBecome(o, row)
  BY <1>2 DEF MayBecome, Exists, TerminalStates
<1>5. QED
  BY <1>2, <1>3, <1>4, WriteKeepsInv

-----------------------------------------------------------------------------
(* The inductive invariant.                                                *)

\* Every step keeps the invariant, one case per operation.
LEMMA NextKeepsInv == Inv /\ [Next]_vars => Inv'
<1> SUFFICES ASSUME Inv, [Next]_vars PROVE Inv'
  OBVIOUS
<1> USE ConstantsAssumption
<1>1. CASE Tick
  <2>1. UNCHANGED <<op, lastSeq>> /\ now' \in Nat /\ caller' \in Workers \cup {Nobody}
    BY <1>1 DEF Tick, Inv, TypeOK
  <2>2. QED
    BY <2>1 DEF Inv, TypeOK, SequencesBounded, SequencesUnique, DeliveredInOrder, LeaseConsistent,
                Exists, SameGroup, Attempted
<1>2. ASSUME NEW o \in Ops, NEW r \in Remotes, NEW k \in Keys, EnqueueFresh(o, r, k)
      PROVE  Inv'
  <2> DEFINE row == Enqueued(NoRow, lastSeq + 1, r, k)
  <2>1. /\ row \in Row
        /\ row.state = "staged" /\ row.seq = lastSeq + 1
        /\ row.worker = Nobody /\ row.lease = NoTime /\ row.retry = NoTime
    <3>1. lastSeq + 1 \in Nat
      BY DEF Inv, TypeOK
    <3>2. NoRow \in Row /\ NoRow.worker = Nobody /\ NoRow.lease = NoTime /\ NoRow.retry = NoTime
      BY DEF NoRow, Row, NoTime
    <3>3. QED
      BY <3>1, <3>2, EnqueuedRow
  <2>2. QED
    BY <1>2, <2>1, AppendKeepsInv DEF EnqueueFresh, Enqueued, RowConsistent, Called
<1>3. ASSUME NEW o \in Ops, NEW r \in Remotes, NEW k \in Keys, Revive(o, r, k)
      PROVE  Inv'
  <2> DEFINE mid == Released(op[o], "staged", NoTime)
             row == [mid EXCEPT !.seq = lastSeq + 1, !.revision = op[o].revision + 1]
  <2>1. op[o] \in Row /\ "staged" \in States /\ lastSeq + 1 \in Nat
    BY DEF Inv, TypeOK, States, ActiveStates
  <2>2. /\ mid \in Row
        /\ mid.state = "staged" /\ mid.worker = Nobody /\ mid.lease = NoTime /\ mid.retry = NoTime
    BY <2>1, ReleasedRow
  <2>3. op[o].revision + 1 \in Nat
    BY <2>1 DEF Row
  <2>4. /\ row \in Row
        /\ row.state = "staged" /\ row.seq = lastSeq + 1
        /\ row.worker = Nobody /\ row.lease = NoTime /\ row.retry = NoTime
    BY <2>1, <2>2, <2>3 DEF Row
  <2>5. QED
    BY <1>3, <2>4, AppendKeepsInv DEF Revive, RowConsistent, Called
<1>4. ASSUME NEW o \in Ops, NEW e \in 0..MaxRevision, Activate(o, e) \/ Cancel(o, e)
      PROVE  Inv'
  BY <1>4, StagedKeepsInv DEF Activate, Cancel, Called
<1>5. ASSUME NEW r \in Remotes, NEW w \in Workers, NEW ttl \in Ttls, ClaimNext(r, w, ttl)
      PROVE  Inv'
  BY <1>5, LeasedKeepsInv DEF ClaimNext, DueHeads, ActiveStates, Called
<1>6. ASSUME NEW o \in Ops, NEW e \in 0..MaxRevision, NEW w \in Workers, NEW ttl \in Ttls,
             ClaimById(o, w, e, ttl)
      PROVE  Inv'
  BY <1>6, LeasedKeepsInv DEF ClaimById, Called
<1>7. ASSUME NEW o \in Ops, NEW e \in 0..MaxRevision, NEW w \in Workers, NEW ttl \in Ttls,
             RenewLease(o, w, e, ttl)
      PROVE  Inv'
  <2>1. op[o] \in Row /\ now + ttl \in Nat /\ op[o].state = "leased" /\ op[o].worker = w
    BY <1>7 DEF Inv, TypeOK, RenewLease, InFlight
  <2> DEFINE row == [op[o] EXCEPT !.lease = now + ttl]
  <2>2. /\ row \in Row
        /\ row.seq = op[o].seq /\ row.remote = op[o].remote /\ row.key = op[o].key
        /\ row.state = "leased" /\ row.worker = w /\ row.lease = now + ttl
        /\ row.retry = op[o].retry
    BY <2>1 DEF Row
  <2>3. QED
    BY <1>7, <2>1, <2>2, LeaseMoveKeepsInv DEF RenewLease, Called
<1>8. ASSUME NEW scope \in Remotes \cup {AnyRemote}, NEW w \in Workers, NEW ttl \in Ttls,
             ReclaimExpiredLease(scope, w, ttl)
      PROVE  Inv'
  <2>1. PICK o \in Orphans(scope) : /\ Write(o, [op[o] EXCEPT !.worker = w, !.lease = now + ttl])
                                    /\ Called
    BY <1>8 DEF ReclaimExpiredLease, Called
  <2>2. o \in Ops /\ op[o] \in Row /\ now + ttl \in Nat /\ op[o].state = "leased"
    <3>1. o \in Ops /\ op[o].state = "leased"
      BY DEF Orphans
    <3>2. op[o] \in Row /\ now \in Nat /\ ttl \in Nat
      BY <3>1, ConstantsAssumption DEF Inv, TypeOK
    <3>3. QED
      BY <3>1, <3>2
  <2> DEFINE row == [op[o] EXCEPT !.worker = w, !.lease = now + ttl]
  <2>3. /\ row \in Row
        /\ row.seq = op[o].seq /\ row.remote = op[o].remote /\ row.key = op[o].key
        /\ row.state = "leased" /\ row.worker = w /\ row.lease = now + ttl
        /\ row.retry = op[o].retry
    BY <2>2 DEF Row
  <2>4. QED
    BY <2>1, <2>2, <2>3, LeaseMoveKeepsInv
<1>9. ASSUME NEW o \in Ops, NEW e \in 0..MaxRevision, NEW w \in Workers,
             Acknowledge(o, w, e) \/ Fail(o, w, e)
      PROVE  Inv'
  BY <1>9, ReleasedKeepsInv DEF Acknowledge, Fail, InFlight, Called
<1>10. ASSUME NEW o \in Ops, NEW e \in 0..MaxRevision, NEW w \in Workers, NEW b \in Backoffs,
              ScheduleRetry(o, w, e, b)
       PROVE  Inv'
  <2>1. now + b \in Nat
    BY DEF Inv, TypeOK
  <2>2. QED
    BY <1>10, <2>1, ReleasedKeepsInv DEF ScheduleRetry, InFlight, Called
<1>11. CASE UNCHANGED vars
  BY <1>11 DEF vars, Inv, TypeOK, SequencesBounded, SequencesUnique, DeliveredInOrder,
               LeaseConsistent, Exists, SameGroup, Attempted
<1>12. QED
  BY <1>1, <1>2, <1>3, <1>4, <1>5, <1>6, <1>7, <1>8, <1>9, <1>10, <1>11 DEF Next

\* The invariant holds of every reachable state.
THEOREM InvHolds == Spec => []Inv
<1>1. Init => Inv
  BY ConstantsAssumption
  DEF Init, Inv, TypeOK, SequencesBounded, SequencesUnique, DeliveredInOrder,
     LeaseConsistent, NoRow, Row, States, NoTime, Exists, SameGroup
<1>2. QED
  BY <1>1, NextKeepsInv, PTL DEF Spec

\* Every reachable row of the outbox is well formed.
THEOREM TypeCorrect == Spec => []TypeOK
BY InvHolds, PTL DEF Inv

\* Delivery within one (destination, ordering key) group follows the sequence.
THEOREM OrderedDelivery == Spec => []DeliveredInOrder
BY InvHolds, PTL DEF Inv

\* No two operations share a sequence.
THEOREM UniqueSequences == Spec => []SequencesUnique
BY InvHolds, PTL DEF Inv

\* The lease columns of every row agree with its state.
THEOREM ConsistentLeases == Spec => []LeaseConsistent
BY InvHolds, PTL DEF Inv

-----------------------------------------------------------------------------
(* What a step may do to an operation.                                     *)

\* The writes of an operation that has left the staged state.
DeliveryStep(o) ==
  \E w \in Workers, e \in 0..MaxRevision :
    /\ caller' = w
    /\ \/ \E r \in Nat \cup {NoTime}, s \in {"replicated", "retryable", "failed"} :
            InFlight(o, w) /\ Write(o, Released(op[o], s, r))
       \/ \E ttl \in Ttls : RenewLease(o, w, e, ttl)
       \/ \E ttl \in Ttls : /\ op[o].state = "leased" => op[o].worker = w \/ ~LeaseLive(o)
                            /\ Write(o, Leased(op[o], w, ttl))
       \/ \E ttl \in Ttls : /\ op[o].state = "leased" /\ ~LeaseLive(o)
                            /\ Write(o, [op[o] EXCEPT !.worker = w, !.lease = now + ttl])

\* A step that changes an activated operation is one of them.
LEMMA StepOfActivated ==
  ASSUME TypeOK, Next, NEW o \in Ops, op[o].state \in {"pending", "leased", "retryable"},
         op'[o] # op[o]
  PROVE  DeliveryStep(o)
<1>1. \A p \in Ops, row \in Row : Write(p, row) => p = o
  <2> SUFFICES ASSUME NEW p \in Ops, NEW row \in Row, Write(p, row), p # o PROVE FALSE
    OBVIOUS
  <2>1. QED
    BY WriteTyped DEF TypeOK
<1>2. ~Tick
  BY DEF Tick
<1>3. ASSUME NEW p \in Ops, NEW r \in Remotes, NEW k \in Keys, EnqueueFresh(p, r, k) \/ Revive(p, r, k)
      PROVE  FALSE
  BY <1>3 DEF EnqueueFresh, Revive, TypeOK, Exists
<1>4. \A p \in Ops : op[p] \in Row
  BY DEF TypeOK
<1>5. ASSUME NEW p \in Ops, NEW e \in 0..MaxRevision, Activate(p, e) \/ Cancel(p, e)
      PROVE  FALSE
  <2>1. p # o
    BY <1>5 DEF Activate, Cancel
  <2>2. PICK s \in {"pending", "cancelled"} : Write(p, [op[p] EXCEPT !.state = s])
    BY <1>5 DEF Activate, Cancel
  <2>3. s \in States
    BY DEF States, ActiveStates, TerminalStates
  <2>4. [op[p] EXCEPT !.state = s] \in Row
    BY <1>4, <2>3, RestatedTyped
  <2>5. QED
    BY <1>1, <2>1, <2>2, <2>4
<1>6. ASSUME NEW r \in Remotes, NEW w \in Workers, NEW ttl \in Ttls, ClaimNext(r, w, ttl)
      PROVE  DeliveryStep(o)
  <2>1. PICK p \in DueHeads(r) : caller' = w /\ Write(p, Leased(op[p], w, ttl))
    BY <1>6 DEF ClaimNext
  <2>2. now + ttl \in Nat
    BY ConstantsAssumption DEF TypeOK
  <2>3. p \in Ops /\ op[p].state # "leased" /\ Leased(op[p], w, ttl) \in Row
    BY <1>4, <2>2, LeasedRow DEF DueHeads
  <2>4. p = o
    BY <1>1, <2>1, <2>3
  <2>5. 0 \in 0..MaxRevision
    BY ConstantsAssumption
  <2>6. QED
    BY <2>1, <2>3, <2>4, <2>5 DEF DeliveryStep
<1>7. ASSUME NEW scope \in Remotes \cup {AnyRemote}, NEW w \in Workers, NEW ttl \in Ttls,
             ReclaimExpiredLease(scope, w, ttl)
      PROVE  DeliveryStep(o)
  <2>1. PICK p \in Orphans(scope) : /\ caller' = w
                                    /\ Write(p, [op[p] EXCEPT !.worker = w, !.lease = now + ttl])
    BY <1>7 DEF ReclaimExpiredLease
  <2>2. p \in Ops /\ op[p].state = "leased" /\ ~LeaseLive(p) /\ now + ttl \in Nat
    BY ConstantsAssumption DEF Orphans, TypeOK
  <2>3. [op[p] EXCEPT !.worker = w, !.lease = now + ttl] \in Row
    BY <1>4, <2>2 DEF Row
  <2>4. p = o
    BY <1>1, <2>1, <2>2, <2>3
  <2>5. 0 \in 0..MaxRevision
    BY ConstantsAssumption
  <2>6. QED
    BY <2>1, <2>2, <2>4, <2>5 DEF DeliveryStep
<1>8. ASSUME NEW p \in Ops, NEW e \in 0..MaxRevision, NEW w \in Workers, NEW ttl \in Ttls,
             ClaimById(p, w, e, ttl)
      PROVE  DeliveryStep(o)
  <2>1. now + ttl \in Nat
    BY ConstantsAssumption DEF TypeOK
  <2>2. Leased(op[p], w, ttl) \in Row
    BY <1>4, <2>1, LeasedRow
  <2>3. p = o
    BY <1>1, <1>8, <2>2 DEF ClaimById
  <2>4. QED
    BY <1>8, <2>3 DEF ClaimById, DeliveryStep
<1>9. ASSUME NEW p \in Ops, NEW e \in 0..MaxRevision, NEW w \in Workers, NEW ttl \in Ttls,
             RenewLease(p, w, e, ttl)
      PROVE  DeliveryStep(o)
  <2>1. now + ttl \in Nat
    BY ConstantsAssumption DEF TypeOK
  <2>2. [op[p] EXCEPT !.lease = now + ttl] \in Row
    BY <1>4, <2>1 DEF Row
  <2>3. p = o
    BY <1>1, <1>9, <2>2 DEF RenewLease
  <2>4. QED
    BY <1>9, <2>3 DEF RenewLease, DeliveryStep
<1>10. ASSUME NEW p \in Ops, NEW w \in Workers, NEW s \in {"replicated", "retryable", "failed"},
              NEW r \in Nat \cup {NoTime}, InFlight(p, w), caller' = w, Write(p, Released(op[p], s, r))
       PROVE  DeliveryStep(o)
  <2>1. s \in States
    BY DEF States, ActiveStates, TerminalStates
  <2>2. Released(op[p], s, r) \in Row
    BY <1>4, <2>1, ReleasedRow
  <2>3. p = o
    BY <1>1, <1>10, <2>2
  <2>4. 0 \in 0..MaxRevision
    BY ConstantsAssumption
  <2>5. QED
    BY <1>10, <2>3, <2>4 DEF DeliveryStep
<1>11. ASSUME NEW p \in Ops, NEW e \in 0..MaxRevision, NEW w \in Workers,
              Acknowledge(p, w, e) \/ Fail(p, w, e)
       PROVE  DeliveryStep(o)
  BY <1>10, <1>11 DEF Acknowledge, Fail
<1>12. ASSUME NEW p \in Ops, NEW e \in 0..MaxRevision, NEW w \in Workers, NEW b \in Backoffs,
              ScheduleRetry(p, w, e, b)
       PROVE  DeliveryStep(o)
  <2>1. now + b \in Nat
    BY ConstantsAssumption DEF TypeOK
  <2>2. QED
    BY <1>10, <1>12, <2>1 DEF ScheduleRetry
<1>13. QED
  BY <1>2, <1>3, <1>5, <1>6, <1>7, <1>8, <1>9, <1>11, <1>12 DEF Next

\* What the writes of an activated operation make of its row: it is resolved, or goes to a worker.
\* The worker of a live lease is the one that calls and the one that keeps the row.
LEMMA DeliveryStepEffect ==
  ASSUME TypeOK, NEW o \in Ops, DeliveryStep(o)
  PROVE  /\ \/ /\ op[o].state = "leased" /\ LeaseLive(o)
               /\ op'[o].state \in {"replicated", "retryable", "failed"}
               /\ op'[o].worker = Nobody
            \/ op'[o].state = "leased"
         /\ op[o].state = "leased" /\ LeaseLive(o)
              => caller' = op[o].worker /\ op'[o].worker \in {op[o].worker, Nobody}
<1>1. op[o] \in Row
  BY DEF TypeOK
<1>2. \A row \in Row : Write(o, row) => op'[o].state = row.state /\ op'[o].worker = row.worker
  <2> SUFFICES ASSUME NEW row \in Row, Write(o, row)
               PROVE  op'[o].state = row.state /\ op'[o].worker = row.worker
    OBVIOUS
  <2>1. op' = [op EXCEPT ![o] = [row EXCEPT !.revision = op[o].revision + 1]]
    BY WriteTyped
  <2>2. op'[o] = [row EXCEPT !.revision = op[o].revision + 1]
    BY <2>1 DEF TypeOK
  <2>3. QED
    BY <2>2 DEF Row
<1>3. ASSUME NEW w \in Workers, NEW r \in Nat \cup {NoTime},
             NEW s \in {"replicated", "retryable", "failed"},
             InFlight(o, w), Write(o, Released(op[o], s, r))
      PROVE  /\ op[o].state = "leased" /\ LeaseLive(o) /\ op[o].worker = w
             /\ op'[o].state \in {"replicated", "retryable", "failed"}
             /\ op'[o].worker = Nobody
  <2>1. s \in States
    BY DEF States, ActiveStates, TerminalStates
  <2>2. QED
    BY <1>1, <1>2, <1>3, <2>1, ReleasedRow DEF InFlight
<1>4. ASSUME NEW w \in Workers, NEW e \in 0..MaxRevision, NEW ttl \in Ttls, RenewLease(o, w, e, ttl)
      PROVE  op[o].worker = w /\ op'[o].state = "leased" /\ op'[o].worker = op[o].worker
  <2>1. now + ttl \in Nat /\ op[o].state = "leased" /\ op[o].worker = w
    BY <1>4, ConstantsAssumption DEF TypeOK, RenewLease, InFlight
  <2> DEFINE row == [op[o] EXCEPT !.lease = now + ttl]
  <2>2. row \in Row /\ row.state = op[o].state /\ row.worker = op[o].worker
    BY <1>1, <2>1 DEF Row
  <2>3. QED
    BY <1>2, <1>4, <2>1, <2>2 DEF RenewLease
<1>5. ASSUME NEW w \in Workers, NEW ttl \in Ttls,
             op[o].state = "leased" => op[o].worker = w \/ ~LeaseLive(o),
             Write(o, Leased(op[o], w, ttl))
      PROVE  /\ op'[o].state = "leased"
             /\ op[o].state = "leased" /\ LeaseLive(o)
                  => op[o].worker = w /\ op'[o].worker = op[o].worker
  <2>1. now + ttl \in Nat
    BY ConstantsAssumption DEF TypeOK
  <2>2. QED
    BY <1>1, <1>2, <1>5, <2>1, LeasedRow
<1>6. ASSUME NEW w \in Workers, NEW ttl \in Ttls, op[o].state = "leased", ~LeaseLive(o),
             Write(o, [op[o] EXCEPT !.worker = w, !.lease = now + ttl])
      PROVE  op'[o].state = "leased"
  <2>1. now + ttl \in Nat
    BY ConstantsAssumption DEF TypeOK
  <2> DEFINE row == [op[o] EXCEPT !.worker = w, !.lease = now + ttl]
  <2>2. row \in Row /\ row.state = op[o].state
    BY <1>1, <2>1 DEF Row
  <2>3. QED
    BY <1>2, <1>6, <2>2
<1>7. QED
  BY <1>3, <1>4, <1>5, <1>6 DEF DeliveryStep

\* Once activated, an operation is never dropped: only a call of the worker that holds its live
\* lease resolves it.
THEOREM ActivatedIsNeverAbandoned == Spec => NeverAbandoned
<1>1. TypeOK /\ [Next]_vars
        => [\A o \in Ops :
              op[o].state \in {"pending", "leased", "retryable"} =>
                \/ op'[o].state \in {op[o].state, "leased"}
                \/ /\ op[o].state = "leased" /\ LeaseLive(o) /\ caller' = op[o].worker
                   /\ op'[o].state \in {"replicated", "failed", "retryable"}]_vars
  <2> SUFFICES ASSUME TypeOK, Next, NEW o \in Ops,
                      op[o].state \in {"pending", "leased", "retryable"}
               PROVE  \/ op'[o].state \in {op[o].state, "leased"}
                      \/ /\ op[o].state = "leased" /\ LeaseLive(o) /\ caller' = op[o].worker
                         /\ op'[o].state \in {"replicated", "failed", "retryable"}
    OBVIOUS
  <2>1. CASE op'[o] = op[o]
    BY <2>1
  <2>2. CASE op'[o] # op[o]
    BY <2>2, StepOfActivated, DeliveryStepEffect
  <2>3. QED
    BY <2>1, <2>2
<1>2. QED
  BY <1>1, TypeCorrect, PTL DEF Spec, NeverAbandoned

\* While a lease is live only its worker writes the row, and the operation goes to no other.
THEOREM LiveLeaseStays == Spec => LiveLeaseKept
<1>1. TypeOK /\ LeaseConsistent /\ [Next]_vars
        => [\A o \in Ops :
              LeaseLive(o) /\ op'[o] # op[o] =>
                caller' = op[o].worker /\ op'[o].worker \in {op[o].worker, Nobody}]_vars
  <2> SUFFICES ASSUME TypeOK, LeaseConsistent, Next, NEW o \in Ops, LeaseLive(o), op'[o] # op[o]
               PROVE  caller' = op[o].worker /\ op'[o].worker \in {op[o].worker, Nobody}
    BY DEF vars
  <2>1. op[o].lease # NoTime
    BY DEF LeaseLive, NoTime, TypeOK
  <2>2. op[o].state = "leased"
    BY <2>1 DEF LeaseConsistent
  <2>3. QED
    BY <2>2, StepOfActivated, DeliveryStepEffect
<1>2. QED
  BY <1>1, TypeCorrect, ConsistentLeases, PTL DEF Spec, LiveLeaseKept

\* A committed write moves the revision of the row it changes on.
LEMMA WriteRaises ==
  ASSUME TypeOK, NEW o \in Ops, NEW row \in Row, Write(o, row), NEW p \in Ops, op'[p] # op[p]
  PROVE  op'[p].revision > op[p].revision
<1> DEFINE new == [row EXCEPT !.revision = op[o].revision + 1]
<1>1. op' = [op EXCEPT ![o] = new]
  BY WriteTyped
<1>2. new.revision = op[o].revision + 1 /\ op[o].revision \in Nat
  BY DEF Row, TypeOK
<1> HIDE DEF new
<1>3. p = o /\ op'[p] = new
  BY <1>1 DEF TypeOK
<1>4. QED
  BY <1>2, <1>3

\* A stale compare-and-swap can never succeed: every write of a row moves its revision on, the
\* reclaiming of an orphan and the revival of a cancelled operation included.
THEOREM RevisionsNameRows == Spec => RevisionNamesRow
<1>1. TypeOK /\ [Next]_vars
        => [\A o \in Ops : op'[o] # op[o] /\ Exists(o) => op'[o].revision > op[o].revision]_vars
  <2> SUFFICES ASSUME TypeOK, Next, NEW o \in Ops, op'[o] # op[o], Exists(o)
               PROVE  op'[o].revision > op[o].revision
    OBVIOUS
  <2>1. \A p \in Ops : op[p] \in Row
    BY DEF TypeOK
  <2>2. \A ttl \in Ttls \cup Backoffs : now + ttl \in Nat
    BY ConstantsAssumption DEF TypeOK
  <2>3. {"pending", "cancelled", "replicated", "retryable", "failed"} \subseteq States
    BY DEF States, ActiveStates, TerminalStates
  <2>4. ~Tick
    BY DEF Tick
  <2>5. ASSUME NEW p \in Ops, NEW r \in Remotes, NEW k \in Keys, EnqueueFresh(p, r, k) \/ Revive(p, r, k)
        PROVE  op'[o].revision > op[o].revision
    <3>1. CASE EnqueueFresh(p, r, k)
      BY <3>1 DEF EnqueueFresh, TypeOK, Exists
    <3>2. CASE Revive(p, r, k)
      <4> DEFINE mid == Released(op[p], "staged", NoTime)
                 new == [mid EXCEPT !.seq = lastSeq + 1, !.revision = op[p].revision + 1]
      <4>1. "staged" \in States
        BY DEF States, ActiveStates
      <4>2. mid \in Row
        BY <2>1, <4>1, ReleasedRow
      <4>3. new.revision = op[p].revision + 1 /\ op[p].revision \in Nat
        BY <2>1, <4>2 DEF Row
      <4>4. op' = [op EXCEPT ![p] = new]
        BY <3>2 DEF Revive
      <4> HIDE DEF new
      <4>5. o = p /\ op'[o] = new
        BY <4>4 DEF TypeOK
      <4>6. QED
        BY <4>3, <4>5
    <3>3. QED
      BY <2>5, <3>1, <3>2
  <2>6. ASSUME NEW p \in Ops, NEW e \in 0..MaxRevision, Activate(p, e) \/ Cancel(p, e)
        PROVE  op'[o].revision > op[o].revision
    <3>1. PICK s \in {"pending", "cancelled"} : Write(p, [op[p] EXCEPT !.state = s])
      BY <2>6 DEF Activate, Cancel
    <3>2. [op[p] EXCEPT !.state = s] \in Row
      BY <2>1, <2>3, RestatedTyped
    <3>3. QED
      BY <3>1, <3>2, WriteRaises
  <2>7. ASSUME NEW p \in Ops, NEW w \in Workers, NEW ttl \in Ttls, Write(p, Leased(op[p], w, ttl))
        PROVE  op'[o].revision > op[o].revision
    BY <2>1, <2>2, <2>7, LeasedRow, WriteRaises
  <2>8. ASSUME NEW p \in Ops, NEW w \in Workers, NEW ttl \in Ttls,
               \/ Write(p, [op[p] EXCEPT !.lease = now + ttl])
               \/ Write(p, [op[p] EXCEPT !.worker = w, !.lease = now + ttl])
        PROVE  op'[o].revision > op[o].revision
    <3>1. [op[p] EXCEPT !.lease = now + ttl] \in Row
      BY <2>1, <2>2 DEF Row
    <3>2. [op[p] EXCEPT !.worker = w, !.lease = now + ttl] \in Row
      BY <2>1, <2>2 DEF Row
    <3>3. QED
      BY <2>8, <3>1, <3>2, WriteRaises
  <2>9. ASSUME NEW p \in Ops, NEW s \in {"replicated", "retryable", "failed"}, NEW r \in Nat \cup {NoTime},
               Write(p, Released(op[p], s, r))
        PROVE  op'[o].revision > op[o].revision
    BY <2>1, <2>3, <2>9, ReleasedRow, WriteRaises
  <2>10. ASSUME NEW r \in Remotes, NEW w \in Workers, NEW ttl \in Ttls, ClaimNext(r, w, ttl)
         PROVE  op'[o].revision > op[o].revision
    BY <2>7, <2>10 DEF ClaimNext, DueHeads
  <2>11. ASSUME NEW scope \in Remotes \cup {AnyRemote}, NEW w \in Workers, NEW ttl \in Ttls,
                ReclaimExpiredLease(scope, w, ttl)
         PROVE  op'[o].revision > op[o].revision
    BY <2>8, <2>11 DEF ReclaimExpiredLease, Orphans
  <2>12. ASSUME NEW p \in Ops, NEW e \in 0..MaxRevision, NEW w \in Workers, NEW ttl \in Ttls,
                ClaimById(p, w, e, ttl) \/ RenewLease(p, w, e, ttl)
         PROVE  op'[o].revision > op[o].revision
    BY <2>7, <2>8, <2>12 DEF ClaimById, RenewLease
  <2>13. ASSUME NEW p \in Ops, NEW e \in 0..MaxRevision, NEW w \in Workers,
                Acknowledge(p, w, e) \/ Fail(p, w, e)
         PROVE  op'[o].revision > op[o].revision
    BY <2>9, <2>13 DEF Acknowledge, Fail
  <2>14. ASSUME NEW p \in Ops, NEW e \in 0..MaxRevision, NEW w \in Workers, NEW b \in Backoffs,
                ScheduleRetry(p, w, e, b)
         PROVE  op'[o].revision > op[o].revision
    BY <2>2, <2>9, <2>14 DEF ScheduleRetry
  <2>15. QED
    BY <2>4, <2>5, <2>6, <2>10, <2>11, <2>12, <2>13, <2>14 DEF Next
<1>2. QED
  BY <1>1, TypeCorrect, PTL DEF Spec, RevisionNamesRow

-----------------------------------------------------------------------------
(* Outbox implements FifoDelivery.  Only a verdict needs an argument:      *)
(* DeliveredInOrder puts the operation at the head of its group.  Every    *)
(* other write of an existing operation decides it or leaves the abstract  *)
(* queue alone.                                                            *)

\* What a write of operation o that keeps its place and group shows of the abstract queue.
ShowsOnly(o, status) ==
  /\ o \in Ops
  /\ op' = [op EXCEPT ![o] = op'[o]]
  /\ op'[o].seq = op[o].seq /\ op'[o].remote = op[o].remote /\ op'[o].key = op[o].key
  /\ FifoStatus(op'[o].state) = status
  /\ lastSeq' = lastSeq

\* Such a write changes the abstract status of o and nothing else of the queue.
LEMMA AbstractWrite ==
  ASSUME TypeOK, NEW o \in Ops, NEW s, ShowsOnly(o, s)
  PROVE  /\ [p \in Ops |-> FifoStatus(op[p].state)]'
              = [[p \in Ops |-> FifoStatus(op[p].state)] EXCEPT ![o] = s]
         /\ UNCHANGED [p \in Ops |-> op[p].seq]
         /\ UNCHANGED [p \in Ops |-> <<op[p].remote, op[p].key>>]
         /\ UNCHANGED lastSeq
<1>1. \A p \in Ops : op'[p] = IF p = o THEN op'[o] ELSE op[p]
  BY DEF ShowsOnly, TypeOK
<1>2. \A p \in Ops : /\ op'[p].seq = op[p].seq
                     /\ <<op'[p].remote, op'[p].key>> = <<op[p].remote, op[p].key>>
                     /\ FifoStatus(op'[p].state) = IF p = o THEN s ELSE FifoStatus(op[p].state)
  BY <1>1 DEF ShowsOnly
<1>3. QED
  BY <1>2 DEF ShowsOnly

\* A write that shows the status the operation already had is a stuttering step of the queue.
LEMMA Stutters ==
  ASSUME TypeOK, NEW o \in Ops, ShowsOnly(o, FifoStatus(op[o].state))
  PROVE  UNCHANGED Fifo!vars
<1>1. [[p \in Ops |-> FifoStatus(op[p].state)] EXCEPT ![o] = FifoStatus(op[o].state)]
        = [p \in Ops |-> FifoStatus(op[p].state)]
  OBVIOUS
<1>2. UNCHANGED [p \in Ops |-> FifoStatus(op[p].state)]
  BY <1>1, AbstractWrite
<1>3. QED
  BY <1>2, AbstractWrite DEF Fifo!vars

\* Confirming or giving up a staged operation decides it.
LEMMA Decides ==
  ASSUME TypeOK, NEW o \in Ops, op[o].state = "staged",
         NEW v \in {"queued", "cancelled"}, ShowsOnly(o, v)
  PROVE  Fifo!Next
<1>1. FifoStatus(op[o].state) = "staged"
  BY DEF FifoStatus
<1>2. Fifo!Decide(o, v)
  BY <1>1, AbstractWrite DEF Fifo!Decide
<1>3. QED
  BY <1>2 DEF Fifo!Next

\* The remote's verdict settles the head of its group.
LEMMA Settles ==
  ASSUME TypeOK, DeliveredInOrder, NEW o \in Ops, op[o].state = "leased",
         NEW v \in {"delivered", "refused"}, ShowsOnly(o, v)
  PROVE  Fifo!Next
<1>1. FifoStatus(op[o].state) = "queued"
  BY DEF FifoStatus
<1>2. Fifo!AtHead(o)
  <2> SUFFICES ASSUME NEW p \in Ops, <<op[p].remote, op[p].key>> = <<op[o].remote, op[o].key>>,
                      op[p].seq < op[o].seq
               PROVE  FifoStatus(op[p].state) \notin {"staged", "queued"}
    BY DEF Fifo!AtHead, Fifo!Waiting
  <2>1. CASE op[p].state = "absent"
    BY <2>1 DEF FifoStatus
  <2>2. CASE op[p].state # "absent"
    <3>1. op[p].state \in TerminalStates
      BY <2>2 DEF DeliveredInOrder, SameGroup, Exists, Attempted
    <3>2. QED
      BY <3>1 DEF TerminalStates, FifoStatus
  <2>3. QED
    BY <2>1, <2>2
<1>3. Fifo!Settle(o, v)
  BY <1>1, <1>2, AbstractWrite DEF Fifo!Settle
<1>4. QED
  BY <1>3 DEF Fifo!Next

\* A row put at the back of the outbox is a staged item of the queue.
LEMMA Stages ==
  ASSUME TypeOK, NEW o \in Ops, NEW r \in Remotes, NEW k \in Keys,
         \/ op[o].state = "absent"
         \/ op[o].state = "cancelled" /\ op[o].remote = r /\ op[o].key = k,
         op' = [op EXCEPT ![o] = op'[o]],
         op'[o].state = "staged", op'[o].seq = lastSeq + 1, op'[o].remote = r, op'[o].key = k,
         lastSeq' = lastSeq + 1
  PROVE  Fifo!Next
<1>1. \A p \in Ops : op'[p] = IF p = o THEN op'[o] ELSE op[p]
  BY DEF TypeOK
<1>2. /\ [p \in Ops |-> FifoStatus(op[p].state)]'
           = [[p \in Ops |-> FifoStatus(op[p].state)] EXCEPT ![o] = "staged"]
      /\ [p \in Ops |-> op[p].seq]' = [[p \in Ops |-> op[p].seq] EXCEPT ![o] = lastSeq + 1]
      /\ [p \in Ops |-> <<op[p].remote, op[p].key>>]'
           = [[p \in Ops |-> <<op[p].remote, op[p].key>>] EXCEPT ![o] = <<r, k>>]
  <2>1. FifoStatus("staged") = "staged"
    BY DEF FifoStatus
  <2>2. \A p \in Ops : /\ FifoStatus(op'[p].state)
                            = IF p = o THEN "staged" ELSE FifoStatus(op[p].state)
                       /\ op'[p].seq = IF p = o THEN lastSeq + 1 ELSE op[p].seq
                       /\ <<op'[p].remote, op'[p].key>>
                            = IF p = o THEN <<r, k>> ELSE <<op[p].remote, op[p].key>>
    BY <1>1, <2>1
  <2>3. QED
    BY <2>2
<1>3. /\ op[o].state = "absent" => FifoStatus(op[o].state) = "absent"
      /\ op[o].state = "cancelled" => FifoStatus(op[o].state) = "cancelled"
  BY DEF FifoStatus
<1>4. Fifo!Stage(o, <<r, k>>)
  BY <1>2, <1>3 DEF Fifo!Stage
<1>5. <<r, k>> \in Remotes \X Keys
  OBVIOUS
<1>6. QED
  BY <1>4, <1>5 DEF Fifo!Next

-----------------------------------------------------------------------------
(* Every step of the outbox.                                               *)

\* A committed write of a row that keeps its place and group shows the status of its new state.
LEMMA WriteShows ==
  ASSUME TypeOK, NEW o \in Ops, NEW row \in Row, Write(o, row),
         row.seq = op[o].seq, row.remote = op[o].remote, row.key = op[o].key
  PROVE  ShowsOnly(o, FifoStatus(row.state))
<1> DEFINE new == [row EXCEPT !.revision = op[o].revision + 1]
<1>1. op' = [op EXCEPT ![o] = new] /\ lastSeq' = lastSeq
  BY WriteTyped DEF Write
<1>2. op'[o] = new
  BY <1>1 DEF TypeOK
<1>3. new.seq = row.seq /\ new.remote = row.remote /\ new.key = row.key /\ new.state = row.state
  BY DEF Row
<1>4. QED
  BY <1>1, <1>2, <1>3 DEF ShowsOnly

\* Handing an active operation that left the staged state to a worker shows nothing.
LEMMA ClaimStutters ==
  ASSUME TypeOK, NEW o \in Ops, op[o].state \in {"pending", "leased", "retryable"},
         NEW row \in Row, row.state = "leased",
         row.seq = op[o].seq, row.remote = op[o].remote, row.key = op[o].key, Write(o, row)
  PROVE  UNCHANGED Fifo!vars
<1>1. FifoStatus(row.state) = FifoStatus(op[o].state)
  BY DEF FifoStatus
<1>2. QED
  BY <1>1, WriteShows, Stutters

\* Resolving an attempt settles the operation, or leaves it queued for a retry.
LEMMA ReleaseImplements ==
  ASSUME TypeOK, DeliveredInOrder, NEW o \in Ops, op[o].state = "leased",
         NEW s \in {"replicated", "failed", "retryable"}, NEW r \in Nat \cup {NoTime},
         Write(o, Released(op[o], s, r))
  PROVE  Fifo!Next \/ UNCHANGED Fifo!vars
<1> DEFINE row == Released(op[o], s, r)
<1>1. op[o] \in Row /\ s \in States
  BY DEF TypeOK, States, ActiveStates, TerminalStates
<1>2. /\ row \in Row /\ row.state = s
      /\ row.seq = op[o].seq /\ row.remote = op[o].remote /\ row.key = op[o].key
  BY <1>1, ReleasedRow
<1>3. ShowsOnly(o, FifoStatus(s))
  BY <1>2, WriteShows
<1>4. CASE s = "retryable"
  <2>1. FifoStatus(s) = FifoStatus(op[o].state)
    BY <1>4 DEF FifoStatus
  <2>2. QED
    BY <1>3, <2>1, Stutters
<1>5. CASE s \in {"replicated", "failed"}
  <2>1. FifoStatus(s) \in {"delivered", "refused"}
    BY <1>5 DEF FifoStatus
  <2>2. QED
    BY <1>3, <2>1, Settles
<1>6. QED
  BY <1>4, <1>5

\* Activating or cancelling decides.
LEMMA RestateImplements ==
  ASSUME TypeOK, NEW o \in Ops, op[o].state = "staged", NEW s \in {"pending", "cancelled"},
         Write(o, [op[o] EXCEPT !.state = s])
  PROVE  Fifo!Next
<1> DEFINE row == [op[o] EXCEPT !.state = s]
<1>1. op[o] \in Row /\ s \in States
  BY DEF TypeOK, States, ActiveStates, TerminalStates
<1>2. /\ row \in Row /\ row.state = s
      /\ row.seq = op[o].seq /\ row.remote = op[o].remote /\ row.key = op[o].key
  BY <1>1, RestatedTyped
<1>3. ShowsOnly(o, FifoStatus(s)) /\ FifoStatus(s) \in {"queued", "cancelled"}
  BY <1>2, WriteShows DEF FifoStatus
<1>4. QED
  BY <1>3, Decides

\* Every step of the outbox is a step of the queue or leaves the queue as it is.
LEMMA NextImplements ==
  ASSUME Inv, [Next]_vars
  PROVE  Fifo!Next \/ UNCHANGED Fifo!vars
<1> USE ConstantsAssumption
<1>0. TypeOK /\ DeliveredInOrder
  BY DEF Inv
<1>1. CASE Tick \/ UNCHANGED vars
  BY <1>1 DEF Tick, vars, Fifo!vars
<1>2. ASSUME NEW o \in Ops, NEW r \in Remotes, NEW k \in Keys, EnqueueFresh(o, r, k)
      PROVE  Fifo!Next
  <2> DEFINE row == Enqueued(NoRow, lastSeq + 1, r, k)
  <2>1. op[o].state = "absent" /\ op' = [op EXCEPT ![o] = row] /\ lastSeq' = lastSeq + 1
    BY <1>2 DEF EnqueueFresh, Exists, Enqueued
  <2>2. row.state = "staged" /\ row.seq = lastSeq + 1 /\ row.remote = r /\ row.key = k
    BY DEF Enqueued, NoRow
  <2>3. op'[o] = row
    BY <1>0, <2>1 DEF TypeOK
  <2>4. QED
    BY <1>0, <2>1, <2>2, <2>3, Stages
<1>3. ASSUME NEW o \in Ops, NEW r \in Remotes, NEW k \in Keys, Revive(o, r, k)
      PROVE  Fifo!Next
  <2> DEFINE mid == Released(op[o], "staged", NoTime)
             row == [mid EXCEPT !.seq = lastSeq + 1, !.revision = op[o].revision + 1]
  <2>1. op[o] \in Row /\ "staged" \in States
    BY <1>0 DEF TypeOK, States, ActiveStates
  <2>2. /\ mid \in Row /\ mid.state = "staged"
        /\ mid.remote = op[o].remote /\ mid.key = op[o].key
    <3>1. NoTime \in Nat \cup {NoTime}
      OBVIOUS
    <3>2. \A s \in States, rt \in Nat \cup {NoTime} :
            /\ Released(op[o], s, rt) \in Row
            /\ Released(op[o], s, rt).state = s
            /\ Released(op[o], s, rt).remote = op[o].remote
            /\ Released(op[o], s, rt).key = op[o].key
      BY <2>1, ReleasedRow
    <3>3. QED
      BY <2>1, <3>1, <3>2
  <2>3. row.state = "staged" /\ row.seq = lastSeq + 1 /\ row.remote = r /\ row.key = k
    BY <1>3, <2>2 DEF Revive, Row
  <2>4. op' = [op EXCEPT ![o] = row] /\ lastSeq' = lastSeq + 1
    BY <1>3 DEF Revive
  <2>5. op'[o] = row
    BY <1>0, <2>4 DEF TypeOK
  <2>6. op[o].state = "cancelled" /\ op[o].remote = r /\ op[o].key = k
    BY <1>3 DEF Revive
  <2>7. QED
    BY <1>0, <2>3, <2>4, <2>5, <2>6, Stages
<1>4. ASSUME NEW o \in Ops, NEW e \in 0..MaxRevision, Activate(o, e) \/ Cancel(o, e)
      PROVE  Fifo!Next
  BY <1>0, <1>4, RestateImplements DEF Activate, Cancel
<1>5. ASSUME NEW o \in Ops, NEW w \in Workers, NEW ttl \in Ttls,
             op[o].state \in {"pending", "leased", "retryable"},
             Write(o, Leased(op[o], w, ttl))
      PROVE  UNCHANGED Fifo!vars
  <2>1. op[o] \in Row /\ now + ttl \in Nat
    BY <1>0 DEF TypeOK
  <2>2. /\ Leased(op[o], w, ttl) \in Row /\ Leased(op[o], w, ttl).state = "leased"
        /\ Leased(op[o], w, ttl).seq = op[o].seq
        /\ Leased(op[o], w, ttl).remote = op[o].remote
        /\ Leased(op[o], w, ttl).key = op[o].key
    BY <2>1, LeasedRow
  <2>3. QED
    BY <1>0, <1>5, <2>2, ClaimStutters
<1>6. ASSUME NEW o \in Ops, NEW e \in 0..MaxRevision, NEW w \in Workers, NEW ttl \in Ttls,
             RenewLease(o, w, e, ttl)
      PROVE  UNCHANGED Fifo!vars
  <2> DEFINE row == [op[o] EXCEPT !.lease = now + ttl]
  <2>1. op[o] \in Row /\ now + ttl \in Nat /\ op[o].state = "leased"
    BY <1>0, <1>6 DEF TypeOK, RenewLease, InFlight
  <2>2. /\ row \in Row /\ row.state = "leased"
        /\ row.seq = op[o].seq /\ row.remote = op[o].remote /\ row.key = op[o].key
    BY <2>1 DEF Row
  <2>3. QED
    BY <1>0, <1>6, <2>1, <2>2, ClaimStutters DEF RenewLease
<1>7. ASSUME NEW scope \in Remotes \cup {AnyRemote}, NEW w \in Workers, NEW ttl \in Ttls,
             ReclaimExpiredLease(scope, w, ttl)
      PROVE  UNCHANGED Fifo!vars
  <2>1. PICK o \in Orphans(scope) : Write(o, [op[o] EXCEPT !.worker = w, !.lease = now + ttl])
    BY <1>7 DEF ReclaimExpiredLease
  <2> DEFINE row == [op[o] EXCEPT !.worker = w, !.lease = now + ttl]
  <2>2. o \in Ops /\ op[o] \in Row /\ now + ttl \in Nat /\ op[o].state = "leased"
    <3>1. o \in Ops /\ op[o].state = "leased"
      BY DEF Orphans
    <3>2. op[o] \in Row /\ now \in Nat /\ ttl \in Nat
      BY <1>0, <3>1, ConstantsAssumption DEF TypeOK
    <3>3. QED
      BY <3>1, <3>2
  <2>3. /\ row \in Row /\ row.state = "leased"
        /\ row.seq = op[o].seq /\ row.remote = op[o].remote /\ row.key = op[o].key
    BY <2>2 DEF Row
  <2>4. QED
    BY <1>0, <2>1, <2>2, <2>3, ClaimStutters
<1>8. ASSUME NEW r \in Remotes, NEW w \in Workers, NEW ttl \in Ttls, ClaimNext(r, w, ttl)
      PROVE  UNCHANGED Fifo!vars
  BY <1>5, <1>8 DEF ClaimNext, DueHeads
<1>9. ASSUME NEW o \in Ops, NEW e \in 0..MaxRevision, NEW w \in Workers, NEW ttl \in Ttls,
             ClaimById(o, w, e, ttl)
      PROVE  UNCHANGED Fifo!vars
  BY <1>5, <1>9 DEF ClaimById, ActiveStates
<1>10. ASSUME NEW o \in Ops, NEW e \in 0..MaxRevision, NEW w \in Workers,
              Acknowledge(o, w, e) \/ Fail(o, w, e)
       PROVE  Fifo!Next \/ UNCHANGED Fifo!vars
  BY <1>0, <1>10, ReleaseImplements DEF Acknowledge, Fail, InFlight
<1>11. ASSUME NEW o \in Ops, NEW e \in 0..MaxRevision, NEW w \in Workers, NEW b \in Backoffs,
              ScheduleRetry(o, w, e, b)
       PROVE  Fifo!Next \/ UNCHANGED Fifo!vars
  <2>1. now + b \in Nat
    BY <1>0 DEF TypeOK
  <2>2. QED
    BY <1>0, <1>11, <2>1, ReleaseImplements DEF ScheduleRetry, InFlight
<1>12. QED
  BY <1>1, <1>2, <1>3, <1>4, <1>6, <1>7, <1>8, <1>9, <1>10, <1>11 DEF Next

\* The outbox implements one first-in first-out queue per (destination, ordering key): every
\* behaviour of its transactions is, verdict for verdict, a behaviour of FifoDelivery.
THEOREM OutboxImplementsFifo == Spec => DeliversFifo
<1>1. Init => Fifo!Init
  BY DEF Init, Fifo!Init, NoRow, FifoStatus
<1>2. Inv /\ [Next]_vars => [Fifo!Next]_(Fifo!vars)
  BY NextImplements
<1>3. QED
  BY <1>1, <1>2, InvHolds, PTL DEF Spec, Fifo!Spec, DeliversFifo
=============================================================================
