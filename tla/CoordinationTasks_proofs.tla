----------------------- MODULE CoordinationTasks_proofs -----------------------
(***************************************************************************)
(* Proofs about CoordinationTasks for every number of workers, tasks and   *)
(* artifacts, every set of lease durations and deadlines and every bound.  *)
(***************************************************************************)
EXTENDS CoordinationTasks, TLAPS

\* The row updates of the operations are rows.
LEMMA RowTyped ==
  ASSUME NEW row \in Row, NEW s \in TaskStates, NEW o \in Workers \cup {Nobody},
         NEW f \in Workers \cup {Nobody}, NEW l \in Nat \cup {NoTime}
  PROVE  /\ [row EXCEPT !.state = s] \in Row
         /\ [row EXCEPT !.state = s, !.owner = o, !.lease = l] \in Row
         /\ [row EXCEPT !.state = s, !.affinity = f, !.lease = l] \in Row
         /\ [row EXCEPT !.state = s, !.owner = o, !.affinity = f, !.lease = l] \in Row
<1>1. [row EXCEPT !.state = s] \in Row
  BY DEF Row
<1>2. [row EXCEPT !.state = s, !.owner = o, !.lease = l] \in Row
  BY DEF Row
<1>3. [row EXCEPT !.state = s, !.affinity = f, !.lease = l] \in Row
  BY DEF Row
<1>4. [row EXCEPT !.state = s, !.owner = o, !.affinity = f, !.lease = l] \in Row
  BY DEF Row
<1>5. QED
  BY <1>1, <1>2, <1>3, <1>4

\* So is a row with another lease.
LEMMA RenewedTyped ==
  ASSUME NEW row \in Row, NEW l \in Nat \cup {NoTime}
  PROVE  [row EXCEPT !.lease = l] \in Row
BY DEF Row

\* A lease ends at a time.
LEMMA LeaseTyped ==
  ASSUME TypeOK, NEW ttl \in Ttls
  PROVE  LeaseUntil(ttl) \in Nat
BY ConstantsAssumption DEF TypeOK, LeaseUntil

\* A store event is an Event.
LEMMA EventTyped ==
  ASSUME NEW t \in Tasks, NEW type \in EventTypes, NEW actor \in Workers,
         NEW from \in TaskStates \cup {"none"}, NEW to \in TaskStates \cup {"none"},
         NEW rev \in Nat \cup {-1}, events \in Seq(Event),
         Record(t, type, actor, from, to, rev)
  PROVE  events' \in Seq(Event)
<1>1. [task |-> t, type |-> type, actor |-> actor, from |-> from, to |-> to, revision |-> rev]
        \in Event
  BY DEF Event
<1>2. QED
  BY <1>1 DEF Record

\* A committed write keeps the store well typed when its new row is.
LEMMA WriteTyped ==
  ASSUME TypeOK, NEW t \in Tasks, NEW type \in EventTypes, NEW actor \in Workers,
         NEW from \in TaskStates \cup {"none"}, NEW to \in TaskStates \cup {"none"},
         NEW row \in Row, Write(t, type, actor, from, to, row)
  PROVE  TypeOK'
<1>1. task[t].revision + 1 \in Nat
  BY DEF TypeOK, Row
<1>2. [row EXCEPT !.revision = task[t].revision + 1] \in Row
  BY <1>1 DEF Row
<1>3. task' \in [Tasks -> Row]
  BY <1>2 DEF TypeOK, Write
<1>4. events' \in Seq(Event)
  BY <1>1, EventTyped DEF TypeOK, Write
<1>5. QED
  BY <1>3, <1>4 DEF TypeOK, Write

\* The type invariant of the store: every reachable row, artifact and event is well formed.
THEOREM TypeCorrect == Spec => []TypeOK
<1>1. Init => TypeOK
  BY ConstantsAssumption DEF Init, TypeOK, NoRow, Row, Event, NoTime, Roles
<1>2. TypeOK /\ [Next]_vars => TypeOK'
  <2> SUFFICES ASSUME TypeOK, [Next]_vars PROVE TypeOK'
    OBVIOUS
  <2> USE ConstantsAssumption
  <2>1. CASE Tick
    BY <2>1 DEF Tick, TypeOK
  <2>2. ASSUME NEW t \in Tasks, NEW w \in Workers, NEW d \in Deadlines, NEW refs \in SUBSET Tasks,
               CreateTask(t, w, d, refs)
        PROVE  TypeOK'
    <3>1. [NoRow EXCEPT !.state = "pending", !.deadline = d, !.refs = refs] \in Row
      BY DEF Row, NoRow, TaskStates, LiveStates, NoTime
    <3>2. events' \in Seq(Event)
      BY <2>2, EventTyped DEF CreateTask, CreateIn, TypeOK, EventTypes, TaskStates, LiveStates
    <3>3. QED
      BY <2>2, <3>1, <3>2 DEF CreateTask, CreateIn, TypeOK
  <2>3. ASSUME NEW t \in Tasks, NEW w \in Workers, NEW s \in TaskStates, ImportTask(t, w, s)
        PROVE  TypeOK'
    <3>1. [NoRow EXCEPT !.state = s, !.deadline = NoTime, !.refs = {}] \in Row
      BY DEF Row, NoRow, NoTime
    <3>2. events' \in Seq(Event)
      BY <2>3, EventTyped DEF ImportTask, CreateIn, TypeOK, EventTypes
    <3>3. QED
      BY <2>3, <3>1, <3>2 DEF ImportTask, CreateIn, TypeOK
  <2>4. ASSUME NEW t \in Tasks, NEW w \in Workers, NEW a \in Artifacts, NEW role \in Roles,
               PutArtifact(a, t, w, role)
        PROVE  TypeOK'
    <3>1. events' \in Seq(Event)
      BY <2>4, EventTyped DEF PutArtifact, TypeOK, EventTypes
    <3>2. QED
      BY <2>4, <3>1 DEF PutArtifact, TypeOK
  <2>5. ASSUME NEW t \in Tasks, NEW w \in Workers, NEW e \in 0..MaxRevision, Expire(t, w, e)
        PROVE  TypeOK'
    <3>1. Ended(task[t], "expired") \in Row
      <4>1. task[t] \in Row /\ "expired" \in TaskStates
        BY DEF TypeOK, TaskStates, TerminalStates
      <4>2. QED
        BY <4>1, RowTyped DEF Ended
    <3>2. task[t].state \in TaskStates
      BY <2>5 DEF TypeOK, Row, Expire, CurrentRevision, Created
    <3>3. QED
      BY <2>5, <3>1, <3>2, WriteTyped DEF Expire, EventTypes, TaskStates, TerminalStates
  <2>6. ASSUME NEW t \in Tasks, NEW w \in Workers, NEW e \in 0..MaxRevision, NEW ttl \in Ttls,
               ClaimTask(t, w, e, ttl)
        PROVE  TypeOK'
    <3>1. [task[t] EXCEPT !.state = "running", !.owner = w, !.lease = LeaseUntil(ttl)] \in Row
      <4>1. task[t] \in Row /\ "running" \in TaskStates
        BY DEF TypeOK, TaskStates, LiveStates
      <4>2. QED
        BY <4>1, RowTyped, LeaseTyped
    <3>2. task[t].state \in TaskStates
      BY <2>6 DEF TypeOK, Row, ClaimTask, CurrentRevision, Created
    <3>3. ClaimEvent(t) \in EventTypes
      BY DEF ClaimEvent, EventTypes
    <3>4. QED
      BY <2>6, <3>1, <3>2, <3>3, WriteTyped DEF ClaimTask, TaskStates, LiveStates
  <2>7. ASSUME NEW t \in Tasks, NEW w \in Workers, NEW e \in 0..MaxRevision, NEW ttl \in Ttls,
               RenewLease(t, w, e, ttl)
        PROVE  TypeOK'
    <3>1. [task[t] EXCEPT !.lease = LeaseUntil(ttl)] \in Row
      BY RenewedTyped, LeaseTyped DEF TypeOK
    <3>2. QED
      BY <2>7, <3>1, WriteTyped DEF RenewLease, EventTypes
  <2>8. ASSUME NEW t \in Tasks, NEW w \in Workers, NEW e \in 0..MaxRevision, YieldTask(t, w, e)
        PROVE  TypeOK'
    <3>1. [task[t] EXCEPT !.state = "pending", !.affinity = w, !.lease = NoTime] \in Row
      <4>1. task[t] \in Row /\ "pending" \in TaskStates
        BY DEF TypeOK, TaskStates, LiveStates
      <4>2. QED
        BY <4>1, RowTyped
    <3>2. task[t].state \in TaskStates
      BY <2>8 DEF TypeOK, Row, YieldTask, CurrentRevision, Created
    <3>3. QED
      BY <2>8, <3>1, <3>2, WriteTyped DEF YieldTask, EventTypes, TaskStates, LiveStates
  <2>9. ASSUME NEW t \in Tasks, NEW w \in Workers, NEW e \in 0..MaxRevision,
               NEW x \in Workers, NEW a \in Artifacts, HandOffCheckpoint(t, w, e, x, a)
        PROVE  TypeOK'
    <3>1. [task[t] EXCEPT !.state = "pending", !.owner = x, !.affinity = x, !.lease = NoTime]
            \in Row
      <4>1. task[t] \in Row /\ "pending" \in TaskStates
        BY DEF TypeOK, TaskStates, LiveStates
      <4>2. QED
        BY <4>1, RowTyped
    <3>2. task[t].state \in TaskStates
      BY <2>9 DEF TypeOK, Row, HandOffCheckpoint, CurrentRevision, Created
    <3>3. QED
      BY <2>9, <3>1, <3>2, WriteTyped DEF HandOffCheckpoint, EventTypes, TaskStates, LiveStates
  <2>10. ASSUME NEW t \in Tasks, NEW w \in Workers, NEW e \in 0..MaxRevision, NEW s \in TaskStates,
                TransitionTask(t, w, e, s)
         PROVE  TypeOK'
    <3>1. (IF Terminal(s) THEN Ended(task[t], s) ELSE [task[t] EXCEPT !.state = s]) \in Row
      <4>1. task[t] \in Row
        BY DEF TypeOK
      <4>2. Ended(task[t], s) \in Row
        BY <4>1, RowTyped DEF Ended
      <4>3. [task[t] EXCEPT !.state = s] \in Row
        BY <4>1, RowTyped
      <4>4. QED
        BY <4>2, <4>3
    <3>2. task[t].state \in TaskStates
      BY <2>10 DEF TypeOK, Row, TransitionTask, CurrentRevision, Created
    <3>3. QED
      BY <2>10, <3>1, <3>2, WriteTyped DEF TransitionTask, EventTypes
  <2>11. CASE UNCHANGED vars
    BY <2>11 DEF vars, TypeOK
  <2>12. QED
    BY <2>1, <2>2, <2>3, <2>4, <2>5, <2>6, <2>7, <2>8, <2>9, <2>10, <2>11 DEF Next
<1>3. QED
  BY <1>1, <1>2, PTL DEF Spec

-----------------------------------------------------------------------------
(* Ownership.                                                              *)

\* The conjunct of OwnershipConsistent about one row.
RowConsistent(row) ==
  /\ row.lease # NoTime => row.owner # Nobody
  /\ row.affinity # Nobody => row.owner = row.affinity
  /\ row.owner # Nobody /\ row.lease = NoTime
       => row.state = "pending" /\ row.affinity = row.owner
  /\ row.state \in TerminalStates \cup {"absent"} => row.owner = Nobody

\* OwnershipConsistent is RowConsistent of every row.
LEMMA OwnershipByRow == OwnershipConsistent <=> \A t \in Tasks : RowConsistent(task[t])
BY DEF OwnershipConsistent, RowConsistent

\* A committed write of a consistent row leaves every row consistent.
LEMMA WriteConsistent ==
  ASSUME TypeOK, OwnershipConsistent, NEW t \in Tasks, NEW type, NEW actor, NEW from, NEW to,
         NEW row \in Row, RowConsistent(row), Write(t, type, actor, from, to, row)
  PROVE  OwnershipConsistent'
<1> DEFINE new == [row EXCEPT !.revision = task[t].revision + 1]
<1>1. RowConsistent(new)
  BY DEF RowConsistent, Row
<1>2. task' = [task EXCEPT ![t] = new]
  BY DEF Write
<1>3. ASSUME NEW u \in Tasks PROVE RowConsistent(task'[u])
  <2>1. CASE u = t
    BY <1>1, <1>2, <2>1 DEF TypeOK
  <2>2. CASE u # t
    BY <1>2, <2>2, OwnershipByRow DEF TypeOK
  <2>3. QED
    BY <2>1, <2>2
<1>4. QED
  BY <1>3 DEF OwnershipConsistent, RowConsistent

\* A row that ended has given up owner, affinity and lease.
LEMMA EndedConsistent ==
  ASSUME NEW row \in Row, NEW s \in TaskStates
  PROVE  Ended(row, s) \in Row /\ RowConsistent(Ended(row, s))
<1>1. Ended(row, s) \in Row
  BY RowTyped DEF Ended
<1>2. /\ Ended(row, s).owner = Nobody
      /\ Ended(row, s).affinity = Nobody
      /\ Ended(row, s).lease = NoTime
  BY DEF Row, Ended
<1>3. QED
  BY <1>1, <1>2 DEF RowConsistent

\* Owner, affinity and lease of every row agree.  TypeOK makes the invariant inductive.
THEOREM OwnershipHolds == Spec => []OwnershipConsistent
<1>1. Init => OwnershipConsistent
  BY DEF Init, NoRow, OwnershipConsistent
<1>2. TypeOK /\ OwnershipConsistent /\ [Next]_vars => OwnershipConsistent'
  <2> SUFFICES ASSUME TypeOK, OwnershipConsistent, [Next]_vars PROVE OwnershipConsistent'
    OBVIOUS
  <2> USE ConstantsAssumption
  <2>1. CASE UNCHANGED task
    BY <2>1 DEF OwnershipConsistent
  <2>2. ASSUME NEW t \in Tasks, NEW w \in Workers, NEW s \in LiveStates \cup TerminalStates,
               NEW d, NEW refs, CreateIn(t, w, s, d, refs)
        PROVE  OwnershipConsistent'
    <3> DEFINE new == [NoRow EXCEPT !.state = s, !.deadline = d, !.refs = refs]
    <3>1. RowConsistent(new)
      BY DEF RowConsistent, NoRow
    <3>2. task' = [task EXCEPT ![t] = new]
      BY <2>2 DEF CreateIn
    <3>3. ASSUME NEW u \in Tasks PROVE RowConsistent(task'[u])
      BY <3>1, <3>2, OwnershipByRow DEF TypeOK
    <3>4. QED
      BY <3>3 DEF OwnershipConsistent, RowConsistent
  <2>3. ASSUME NEW t \in Tasks, NEW w \in Workers, NEW e \in 0..MaxRevision, Expire(t, w, e)
        PROVE  OwnershipConsistent'
    <3>1. task[t] \in Row /\ "expired" \in TaskStates
      BY DEF TypeOK, TaskStates, TerminalStates
    <3>2. Ended(task[t], "expired") \in Row /\ RowConsistent(Ended(task[t], "expired"))
      BY <3>1, EndedConsistent
    <3>3. QED
      BY <2>3, <3>2, WriteConsistent DEF Expire
  <2>4. ASSUME NEW t \in Tasks, NEW w \in Workers, NEW e \in 0..MaxRevision, NEW ttl \in Ttls,
               ClaimTask(t, w, e, ttl)
        PROVE  OwnershipConsistent'
    <3> DEFINE row == [task[t] EXCEPT !.state = "running", !.owner = w, !.lease = LeaseUntil(ttl)]
    <3>1. task[t] \in Row /\ "running" \in TaskStates
      BY DEF TypeOK, TaskStates, LiveStates
    <3>2. row \in Row
      BY <3>1, RowTyped, LeaseTyped
    <3>3. task[t].affinity \in {Nobody, w}
      BY <2>4 DEF ClaimTask, MayClaim
    <3>4. RowConsistent(row)
      <4>1. /\ row.state = "running" /\ row.owner = w
            /\ row.affinity = task[t].affinity /\ row.lease = LeaseUntil(ttl)
        BY <3>1 DEF Row
      <4>2. row.lease # NoTime
        BY <4>1, LeaseTyped DEF NoTime
      <4>3. QED
        BY <4>1, <4>2, <3>3 DEF RowConsistent, TerminalStates
    <3>5. QED
      BY <2>4, <3>2, <3>4, WriteConsistent DEF ClaimTask
  <2>5. ASSUME NEW t \in Tasks, NEW w \in Workers, NEW e \in 0..MaxRevision, NEW ttl \in Ttls,
               RenewLease(t, w, e, ttl)
        PROVE  OwnershipConsistent'
    <3> DEFINE row == [task[t] EXCEPT !.lease = LeaseUntil(ttl)]
    <3>1. row \in Row
      BY RenewedTyped, LeaseTyped DEF TypeOK
    <3>2. RowConsistent(row)
      <4>1. task[t] \in Row /\ RowConsistent(task[t])
        BY OwnershipByRow DEF TypeOK
      <4>2. /\ row.state = task[t].state /\ row.owner = w /\ task[t].owner = w
            /\ row.affinity = task[t].affinity /\ row.lease = LeaseUntil(ttl)
        BY <2>5, <4>1 DEF Row, RenewLease
      <4>3. row.lease # NoTime
        BY <4>2, LeaseTyped DEF NoTime
      <4>4. QED
        BY <4>1, <4>2, <4>3 DEF RowConsistent
    <3>3. QED
      BY <2>5, <3>1, <3>2, WriteConsistent DEF RenewLease
  <2>6. ASSUME NEW t \in Tasks, NEW w \in Workers, NEW e \in 0..MaxRevision, YieldTask(t, w, e)
        PROVE  OwnershipConsistent'
    <3> DEFINE row == [task[t] EXCEPT !.state = "pending", !.affinity = w, !.lease = NoTime]
    <3>1. task[t] \in Row /\ "pending" \in TaskStates
      BY DEF TypeOK, TaskStates, LiveStates
    <3>2. row \in Row
      BY <3>1, RowTyped
    <3>3. task[t].owner = w
      BY <2>6 DEF YieldTask, MayYield
    <3>4. /\ row.state = "pending" /\ row.owner = w
          /\ row.affinity = w /\ row.lease = NoTime
      BY <3>1, <3>3 DEF Row
    <3>5. RowConsistent(row)
      BY <3>4 DEF RowConsistent, TerminalStates
    <3>6. QED
      BY <2>6, <3>2, <3>5, WriteConsistent DEF YieldTask
  <2>7. ASSUME NEW t \in Tasks, NEW w \in Workers, NEW e \in 0..MaxRevision,
               NEW x \in Workers, NEW a \in Artifacts, HandOffCheckpoint(t, w, e, x, a)
        PROVE  OwnershipConsistent'
    <3> DEFINE row == [task[t] EXCEPT !.state = "pending", !.owner = x, !.affinity = x,
                                      !.lease = NoTime]
    <3>1. task[t] \in Row /\ "pending" \in TaskStates
      BY DEF TypeOK, TaskStates, LiveStates
    <3>2. row \in Row
      BY <3>1, RowTyped
    <3>3. /\ row.state = "pending" /\ row.owner = x
          /\ row.affinity = x /\ row.lease = NoTime
      BY <3>1 DEF Row
    <3>4. RowConsistent(row)
      BY <3>3 DEF RowConsistent, TerminalStates
    <3>5. QED
      BY <2>7, <3>2, <3>4, WriteConsistent DEF HandOffCheckpoint
  <2>8. ASSUME NEW t \in Tasks, NEW w \in Workers, NEW e \in 0..MaxRevision, NEW s \in TaskStates,
               TransitionTask(t, w, e, s)
        PROVE  OwnershipConsistent'
    <3> DEFINE row == IF Terminal(s) THEN Ended(task[t], s) ELSE [task[t] EXCEPT !.state = s]
    <3>1. task[t] \in Row /\ RowConsistent(task[t])
      BY OwnershipByRow DEF TypeOK
    <3>2. AllowedTransition(task[t].state, s)
      BY <2>8 DEF TransitionTask, MayTransition
    <3>3. row \in Row /\ RowConsistent(row)
      <4>1. CASE Terminal(s)
        BY <3>1, <4>1, EndedConsistent
      <4>2. CASE ~Terminal(s)
        <5>1. row = [task[t] EXCEPT !.state = s]
          BY <4>2
        <5>2. row \in Row
          BY <3>1, <5>1 DEF Row
        <5>3. /\ row.state = s /\ row.owner = task[t].owner
              /\ row.affinity = task[t].affinity /\ row.lease = task[t].lease
          BY <3>1, <5>1 DEF Row
        <5>4. task[t].state # "pending"
          BY <3>2, <4>2 DEF AllowedTransition, Terminal, TerminalStates
        <5>5. s \notin TerminalStates \cup {"absent"}
          BY <4>2 DEF Terminal, TaskStates, LiveStates
        <5>6. QED
          BY <3>1, <5>2, <5>3, <5>4, <5>5 DEF RowConsistent
      <4>3. QED
        BY <4>1, <4>2
    <3>4. QED
      BY <2>8, <3>3, WriteConsistent DEF TransitionTask
  <2>9. QED
    BY <2>1, <2>2, <2>3, <2>4, <2>5, <2>6, <2>7, <2>8
       DEF Next, vars, Tick, PutArtifact, CreateTask, ImportTask, TaskStates, LiveStates
<1>3. QED
  BY <1>1, <1>2, TypeCorrect, PTL DEF Spec

-----------------------------------------------------------------------------
(* What a step may do to a task.                                           *)

\* The operations on task t that write its row.
OperationOn(t) ==
  \E w \in Workers, e \in 0..MaxRevision :
    \/ Expire(t, w, e)
    \/ \E ttl \in Ttls : ClaimTask(t, w, e, ttl) \/ RenewLease(t, w, e, ttl)
    \/ YieldTask(t, w, e)
    \/ \E x \in Workers, a \in Artifacts : HandOffCheckpoint(t, w, e, x, a)
    \/ \E s \in TaskStates : TransitionTask(t, w, e, s)

\* An operation on one task leaves the row of every other task alone.
LEMMA WriteElsewhere ==
  ASSUME TypeOK, NEW t \in Tasks, NEW u \in Tasks, OperationOn(u), task'[t] # task[t]
  PROVE  t = u
BY DEF OperationOn, Expire, ClaimTask, RenewLease, YieldTask, HandOffCheckpoint, TransitionTask,
       Write, TypeOK

\* The row of an existing task changes only by an operation on that task.
LEMMA StepOfTask ==
  ASSUME TypeOK, Next, NEW t \in Tasks, Created(t), task'[t] # task[t]
  PROVE  OperationOn(t)
<1>1. ~Tick
  BY DEF Tick
<1>2. ASSUME NEW u \in Tasks, NEW w \in Workers, NEW a \in Artifacts, NEW role \in Roles,
             PutArtifact(a, u, w, role)
      PROVE  FALSE
  BY <1>2 DEF PutArtifact
<1>3. ASSUME NEW u \in Tasks, NEW w \in Workers, NEW s, NEW d, NEW refs, CreateIn(u, w, s, d, refs)
      PROVE  FALSE
  BY <1>3 DEF CreateIn, TypeOK, Created
<1>4. \E u \in Tasks : OperationOn(u)
  BY <1>1, <1>2, <1>3 DEF Next, OperationOn, CreateTask, ImportTask
<1>5. QED
  BY <1>4, WriteElsewhere

\* The event of a committed write is the last one.
LEMMA WriteRecorded ==
  ASSUME TypeOK, NEW t, NEW type, NEW actor, NEW from, NEW to, NEW row,
         Write(t, type, actor, from, to, row)
  PROVE  LastEvent'.type = type /\ LastEvent'.actor = actor
<1> DEFINE e == [task |-> t, type |-> type, actor |-> actor,
                 from |-> from, to |-> to, revision |-> task[t].revision + 1]
<1>1. events' = Append(events, e)
  BY DEF Write, Record
<1>2. events'[Len(events')] = e
  BY <1>1 DEF TypeOK
<1>3. QED
  BY <1>2 DEF LastEvent

\* A terminal row has no owner, hence no operation applies to it.
LEMMA TerminalStep ==
  ASSUME TypeOK, OwnershipConsistent, NEW t \in Tasks, Terminal(task[t].state)
  PROVE  ~OperationOn(t)
<1>1. task[t].owner = Nobody /\ task[t].state \notin LiveStates
  BY DEF OwnershipConsistent, Terminal, TerminalStates, LiveStates
<1> SUFFICES ASSUME NEW w \in Workers, NEW e \in 0..MaxRevision
             PROVE  /\ ~Expire(t, w, e)
                    /\ \A ttl \in Ttls : ~ClaimTask(t, w, e, ttl) /\ ~RenewLease(t, w, e, ttl)
                    /\ ~YieldTask(t, w, e)
                    /\ \A x \in Workers, a \in Artifacts : ~HandOffCheckpoint(t, w, e, x, a)
                    /\ \A s \in TaskStates : ~TransitionTask(t, w, e, s)
  BY DEF OperationOn
<1>2. ~Expire(t, w, e)
  BY DEF Expire
<1>3. ASSUME NEW ttl \in Ttls PROVE ~ClaimTask(t, w, e, ttl) /\ ~RenewLease(t, w, e, ttl)
  BY <1>1, ConstantsAssumption DEF ClaimTask, MayClaim, RenewLease
<1>4. ~YieldTask(t, w, e)
  BY <1>1, ConstantsAssumption DEF YieldTask, MayYield
<1>5. ASSUME NEW x \in Workers, NEW a \in Artifacts PROVE ~HandOffCheckpoint(t, w, e, x, a)
  BY <1>1, ConstantsAssumption DEF HandOffCheckpoint, MayYield
<1>6. ASSUME NEW s \in TaskStates PROVE ~TransitionTask(t, w, e, s)
  BY <1>1 DEF TransitionTask, MayTransition, AllowedTransition, LiveStates
<1>7. QED
  BY <1>2, <1>3, <1>4, <1>5, <1>6

\* A terminal row never changes again: ownership is what stops a renewal of it.
THEOREM TerminalStaysFinal == Spec => TerminalIsFinal
<1>1. TypeOK /\ OwnershipConsistent /\ [Next]_vars
        => [\A t \in Tasks : Terminal(task[t].state) => task'[t] = task[t]]_vars
  <2> SUFFICES ASSUME TypeOK, OwnershipConsistent, Next, NEW t \in Tasks, Terminal(task[t].state)
               PROVE  task'[t] = task[t]
    OBVIOUS
  <2>1. Created(t)
    BY DEF Terminal, TerminalStates, Created
  <2>2. QED
    BY <2>1, StepOfTask, TerminalStep
<1>2. QED
  BY <1>1, TypeCorrect, OwnershipHolds, PTL DEF Spec, TerminalIsFinal

\* A live lease keeps everybody but its owner away, save cancellation and the deadline.
THEOREM LeaseExcludes == Spec => LiveLeaseExcludes
<1>1. TypeOK /\ OwnershipConsistent /\ [Next]_vars
        => [\A t \in Tasks :
              LeaseLive(t) /\ task'[t] # task[t] =>
                \/ LastEvent'.actor = task[t].owner
                \/ task'[t].state = "cancelled"
                \/ task'[t].state = "expired" /\ DeadlineOver(t)]_vars
  <2> SUFFICES ASSUME TypeOK, OwnershipConsistent, Next, NEW t \in Tasks, LeaseLive(t),
                      task'[t] # task[t]
               PROVE  \/ LastEvent'.actor = task[t].owner
                      \/ task'[t].state = "cancelled"
                      \/ task'[t].state = "expired" /\ DeadlineOver(t)
    OBVIOUS
  <2>1. task[t].owner # Nobody /\ Created(t)
    <3>1. task[t].lease # NoTime
      BY DEF LeaseLive, NoTime, TypeOK
    <3>2. QED
      BY <3>1 DEF OwnershipConsistent, Created
  <2>2. OperationOn(t)
    BY <2>1, StepOfTask
  <2>3. task[t] \in Row
    BY DEF TypeOK
  <2>4. ASSUME NEW w \in Workers, NEW e \in 0..MaxRevision, Expire(t, w, e)
        PROVE  task'[t].state = "expired" /\ DeadlineOver(t)
    BY <2>3, <2>4 DEF Expire, Write, Ended, TypeOK, Row
  <2>5. ASSUME NEW w \in Workers, NEW e \in 0..MaxRevision, NEW ttl \in Ttls,
               ClaimTask(t, w, e, ttl) \/ RenewLease(t, w, e, ttl)
        PROVE  LastEvent'.actor = task[t].owner
    <3>1. CASE ClaimTask(t, w, e, ttl)
      <4>1. task[t].owner = w
        BY <2>1, <3>1 DEF ClaimTask, MayClaim
      <4>2. LastEvent'.actor = w
        BY <3>1, WriteRecorded DEF ClaimTask
      <4>3. QED
        BY <4>1, <4>2
    <3>2. CASE RenewLease(t, w, e, ttl)
      <4>1. LastEvent'.actor = w
        BY <3>2, WriteRecorded DEF RenewLease
      <4>2. QED
        BY <3>2, <4>1 DEF RenewLease
    <3>3. QED
      BY <2>5, <3>1, <3>2
  <2>6. ASSUME NEW w \in Workers, NEW e \in 0..MaxRevision, YieldTask(t, w, e)
        PROVE  LastEvent'.actor = task[t].owner
    <3>1. LastEvent'.actor = w
      BY <2>6, WriteRecorded DEF YieldTask
    <3>2. QED
      BY <2>6, <3>1 DEF YieldTask, MayYield
  <2>7. ASSUME NEW w \in Workers, NEW e \in 0..MaxRevision, NEW x \in Workers, NEW a \in Artifacts,
               HandOffCheckpoint(t, w, e, x, a)
        PROVE  LastEvent'.actor = task[t].owner
    <3>1. LastEvent'.actor = w
      BY <2>7, WriteRecorded DEF HandOffCheckpoint
    <3>2. QED
      BY <2>7, <3>1 DEF HandOffCheckpoint, MayYield
  <2>8. ASSUME NEW w \in Workers, NEW e \in 0..MaxRevision, NEW s \in TaskStates,
               TransitionTask(t, w, e, s)
        PROVE  LastEvent'.actor = task[t].owner \/ task'[t].state = "cancelled"
    <3>1. LastEvent'.actor = w
      BY <2>8, WriteRecorded DEF TransitionTask
    <3>2. CASE s = "cancelled"
      BY <2>3, <2>8, <3>2 DEF TransitionTask, Write, Terminal, TerminalStates, Ended, TypeOK, Row
    <3>3. CASE s # "cancelled"
      BY <2>1, <2>8, <3>1, <3>3 DEF TransitionTask, MayTransition
    <3>4. QED
      BY <3>2, <3>3
  <2>9. QED
    BY <2>2, <2>4, <2>5, <2>6, <2>7, <2>8 DEF OperationOn
<1>2. QED
  BY <1>1, TypeCorrect, OwnershipHolds, PTL DEF Spec, LiveLeaseExcludes

\* A committed write stores the given row but for its revision.
LEMMA WriteStored ==
  ASSUME TypeOK, NEW t \in Tasks, NEW type, NEW actor, NEW from, NEW to, NEW row \in Row,
         Write(t, type, actor, from, to, row)
  PROVE  /\ task'[t].state = row.state
         /\ task'[t].owner = row.owner
         /\ task'[t].affinity = row.affinity
         /\ task'[t].lease = row.lease
<1>1. task'[t] = [row EXCEPT !.revision = task[t].revision + 1]
  BY DEF Write, TypeOK
<1>2. QED
  BY <1>1 DEF Row

\* What an operation on an existing task does to owner, affinity and lease: the row it stores,
\* and what its guard said of the row before.
LEMMA ExpireEffect ==
  ASSUME TypeOK, NEW t \in Tasks, NEW w \in Workers, NEW e \in 0..MaxRevision, Expire(t, w, e)
  PROVE  task'[t].state = "expired" /\ task'[t].owner = Nobody
         /\ task'[t].affinity = Nobody /\ task'[t].lease = NoTime
<1>1. task[t] \in Row /\ "expired" \in TaskStates
  BY DEF TypeOK, TaskStates, TerminalStates
<1>2. Ended(task[t], "expired") \in Row
  BY <1>1, EndedConsistent
<1>3. /\ task'[t].state = Ended(task[t], "expired").state
      /\ task'[t].owner = Ended(task[t], "expired").owner
      /\ task'[t].affinity = Ended(task[t], "expired").affinity
      /\ task'[t].lease = Ended(task[t], "expired").lease
  BY <1>2, WriteStored DEF Expire
<1>4. QED
  BY <1>1, <1>3 DEF Ended, Row

\* A claim changes owner and lease, never the affinity, and only before the deadline.
LEMMA ClaimEffect ==
  ASSUME TypeOK, NEW t \in Tasks, NEW w \in Workers, NEW e \in 0..MaxRevision, NEW ttl \in Ttls,
         ClaimTask(t, w, e, ttl)
  PROVE  task'[t].affinity = task[t].affinity /\ ~DeadlineOver(t)
<1> DEFINE row == [task[t] EXCEPT !.state = "running", !.owner = w, !.lease = LeaseUntil(ttl)]
<1>1. task[t] \in Row /\ "running" \in TaskStates
  BY DEF TypeOK, TaskStates, LiveStates
<1>2. row \in Row
  BY <1>1, RowTyped, LeaseTyped
<1>3. Write(t, ClaimEvent(t), w, task[t].state, "running", row)
  BY DEF ClaimTask
<1>4. row.affinity = task[t].affinity
  BY <1>1 DEF Row
<1>5. task'[t].affinity = task[t].affinity
  <2> HIDE DEF row
  <2>1. task'[t].affinity = row.affinity
    BY <1>2, <1>3, WriteStored
  <2>2. QED
    BY <1>4, <2>1
<1>6. QED
  BY <1>5 DEF ClaimTask, MayClaim

\* A renewal changes the lease alone, and only of a live one.
LEMMA RenewEffect ==
  ASSUME TypeOK, NEW t \in Tasks, NEW w \in Workers, NEW e \in 0..MaxRevision, NEW ttl \in Ttls,
         RenewLease(t, w, e, ttl)
  PROVE  /\ task'[t].owner = task[t].owner
         /\ task'[t].affinity = task[t].affinity
         /\ LeaseLive(t)
<1> DEFINE row == [task[t] EXCEPT !.lease = LeaseUntil(ttl)]
<1>1. task[t] \in Row /\ row \in Row
  BY RenewedTyped, LeaseTyped DEF TypeOK
<1>2. Write(t, "lease_renewed", w, "none", "none", row)
  BY DEF RenewLease
<1>3. row.owner = task[t].owner /\ row.affinity = task[t].affinity
  BY <1>1 DEF Row
<1>4. task'[t].owner = task[t].owner /\ task'[t].affinity = task[t].affinity
  <2> HIDE DEF row
  <2>1. task'[t].owner = row.owner /\ task'[t].affinity = row.affinity
    BY <1>1, <1>2, WriteStored
  <2>2. QED
    BY <1>3, <2>1
<1>5. QED
  BY <1>4 DEF RenewLease

\* A yield pins the task to its owner, a handoff to the named executor.
LEMMA YieldEffect ==
  ASSUME TypeOK, NEW t \in Tasks, NEW w \in Workers, NEW e \in 0..MaxRevision, YieldTask(t, w, e)
  PROVE  /\ task'[t].owner = task[t].owner
         /\ task'[t].affinity = task[t].owner
         /\ ~DeadlineOver(t)
<1> DEFINE row == [task[t] EXCEPT !.state = "pending", !.affinity = w, !.lease = NoTime]
<1>1. task[t] \in Row /\ "pending" \in TaskStates
  BY DEF TypeOK, TaskStates, LiveStates
<1>2. row \in Row
  BY <1>1, RowTyped
<1>3. Write(t, "task_yielded", w, task[t].state, "pending", row)
  BY DEF YieldTask
<1>4. row.owner = task[t].owner /\ row.affinity = w
  BY <1>1 DEF Row
<1>5. task'[t].owner = task[t].owner /\ task'[t].affinity = w
  <2> HIDE DEF row
  <2>1. task'[t].owner = row.owner /\ task'[t].affinity = row.affinity
    BY <1>2, <1>3, WriteStored
  <2>2. QED
    BY <1>4, <2>1
<1>6. QED
  BY <1>5 DEF YieldTask, MayYield

\* Every other transition keeps owner, affinity and lease or drops all three.
LEMMA TransitionEffect ==
  ASSUME TypeOK, NEW t \in Tasks, NEW w \in Workers, NEW e \in 0..MaxRevision,
         NEW s \in TaskStates, TransitionTask(t, w, e, s)
  PROVE  \/ /\ Terminal(task'[t].state)
            /\ task'[t].owner = Nobody
            /\ task'[t].affinity = Nobody
            /\ task'[t].lease = NoTime
         \/ /\ task'[t].owner = task[t].owner
            /\ task'[t].affinity = task[t].affinity
            /\ task'[t].lease = task[t].lease
<1> DEFINE row == IF Terminal(s) THEN Ended(task[t], s) ELSE [task[t] EXCEPT !.state = s]
<1>1. task[t] \in Row
  BY DEF TypeOK
<1>2. row \in Row
  BY <1>1, EndedConsistent, RowTyped
<1>3. Write(t, "task_transitioned", w, task[t].state, s, row)
  BY DEF TransitionTask
<1>4. /\ task'[t].state = row.state
      /\ task'[t].owner = row.owner
      /\ task'[t].affinity = row.affinity
      /\ task'[t].lease = row.lease
  <2> HIDE DEF row
  <2>1. QED
    BY <1>2, <1>3, WriteStored
<1>5. QED
  BY <1>1, <1>4 DEF Ended, Row, Terminal

\* Checkpointed work stays with its executor until a handoff by the owner or the end of the task.
THEOREM AffinityStays == Spec => AffinityMovesByHandoff
<1>1. TypeOK /\ OwnershipConsistent /\ [Next]_vars
        => [\A t \in Tasks :
              task'[t].affinity # task[t].affinity =>
                \/ task'[t].affinity = Nobody /\ Terminal(task'[t].state)
                \/ /\ LastEvent'.type = "task_yielded"
                   /\ task[t].affinity = Nobody /\ task'[t].affinity = task[t].owner
                \/ /\ LastEvent'.type = "task_checkpoint_handed_off"
                   /\ LastEvent'.actor = task[t].owner
                   /\ \E a \in Artifacts : artifact[a] = [task |-> t, role |-> "checkpoint"]]_vars
  <2> DEFINE
        Moved(t) == \/ task'[t].affinity = Nobody /\ Terminal(task'[t].state)
                    \/ /\ LastEvent'.type = "task_yielded"
                       /\ task[t].affinity = Nobody /\ task'[t].affinity = task[t].owner
                    \/ /\ LastEvent'.type = "task_checkpoint_handed_off"
                       /\ LastEvent'.actor = task[t].owner
                       /\ \E a \in Artifacts : artifact[a] = [task |-> t, role |-> "checkpoint"]
  <2> SUFFICES ASSUME TypeOK, OwnershipConsistent, Next, NEW t \in Tasks,
                      task'[t].affinity # task[t].affinity
               PROVE  Moved(t)
    OBVIOUS
  <2>1. CASE ~Created(t)
    <3>1. ~OperationOn(t)
      BY <2>1 DEF OperationOn, Expire, ClaimTask, RenewLease, YieldTask, HandOffCheckpoint,
                  TransitionTask, CurrentRevision
    <3>2. ASSUME NEW u \in Tasks, NEW w \in Workers, NEW s, NEW d, NEW refs,
                 CreateIn(u, w, s, d, refs)
          PROVE  FALSE
      <4>1. task[t].affinity = Nobody
        BY <2>1, ConstantsAssumption DEF OwnershipConsistent, Created, TypeOK, Row
      <4>2. [NoRow EXCEPT !.state = s, !.deadline = d, !.refs = refs].affinity = Nobody
        BY DEF NoRow
      <4>3. u = t
        BY <3>2 DEF CreateIn, TypeOK
      <4>4. QED
        BY <3>2, <4>1, <4>2, <4>3 DEF CreateIn, TypeOK
    <3>3. \E u \in Tasks : OperationOn(u)
      BY <3>2 DEF Next, Tick, PutArtifact, OperationOn, CreateTask, ImportTask
    <3>4. QED
      BY <3>1, <3>3, WriteElsewhere
  <2>2. CASE Created(t)
    <3>1. OperationOn(t)
      BY <2>2, StepOfTask
    <3>2. ASSUME NEW w \in Workers, NEW e \in 0..MaxRevision, Expire(t, w, e)
          PROVE  Moved(t)
      BY <3>2, ExpireEffect DEF Terminal, TerminalStates
    <3>3. ASSUME NEW w \in Workers, NEW e \in 0..MaxRevision, NEW ttl \in Ttls,
                 ClaimTask(t, w, e, ttl) \/ RenewLease(t, w, e, ttl)
          PROVE  Moved(t)
      BY <3>3, ClaimEffect, RenewEffect
    <3>4. ASSUME NEW w \in Workers, NEW e \in 0..MaxRevision, YieldTask(t, w, e)
          PROVE  Moved(t)
      <4>1. LastEvent'.type = "task_yielded"
        BY <3>4, WriteRecorded DEF YieldTask
      <4>2. task'[t].affinity = task[t].owner
        BY <3>4, YieldEffect
      <4>3. task[t].affinity = Nobody
        BY <4>2 DEF OwnershipConsistent
      <4>4. QED
        BY <4>1, <4>2, <4>3
    <3>5. ASSUME NEW w \in Workers, NEW e \in 0..MaxRevision, NEW x \in Workers,
                 NEW a \in Artifacts, HandOffCheckpoint(t, w, e, x, a)
          PROVE  Moved(t)
      <4>1. LastEvent'.type = "task_checkpoint_handed_off" /\ LastEvent'.actor = w
        BY <3>5, WriteRecorded DEF HandOffCheckpoint
      <4>2. w = task[t].owner
        BY <3>5 DEF HandOffCheckpoint, MayYield
      <4>3. artifact[a] = [task |-> t, role |-> "checkpoint"]
        BY <3>5 DEF HandOffCheckpoint, ValidHandoff, TypeOK
      <4>4. QED
        BY <4>1, <4>2, <4>3
    <3>6. ASSUME NEW w \in Workers, NEW e \in 0..MaxRevision, NEW s \in TaskStates,
                 TransitionTask(t, w, e, s)
          PROVE  Moved(t)
      BY <3>6, TransitionEffect
    <3>7. QED
      BY <3>1, <3>2, <3>3, <3>4, <3>5, <3>6 DEF OperationOn
  <2>3. QED
    BY <2>1, <2>2
<1>2. QED
  BY <1>1, TypeCorrect, OwnershipHolds, PTL DEF Spec, AffinityMovesByHandoff

\* A deadline that has passed leaves a task to its current executor at most.
THEOREM DeadlineStopsExecutors == Spec => NoNewExecutorAfterDeadline
<1>1. TypeOK /\ [Next]_vars
        => [\A t \in Tasks :
              Created(t) /\ DeadlineOver(t) /\ task'[t] # task[t] =>
                /\ task'[t].owner \in {task[t].owner, Nobody}
                /\ task'[t].lease # task[t].lease => task'[t].lease = NoTime \/ LeaseLive(t)]_vars
  <2> DEFINE
        Kept(t) == /\ task'[t].owner \in {task[t].owner, Nobody}
                   /\ task'[t].lease # task[t].lease => task'[t].lease = NoTime \/ LeaseLive(t)
  <2> SUFFICES ASSUME TypeOK, Next, NEW t \in Tasks, Created(t), DeadlineOver(t),
                      task'[t] # task[t]
               PROVE  Kept(t)
    OBVIOUS
  <2>1. OperationOn(t)
    BY StepOfTask
  <2>2. ASSUME NEW w \in Workers, NEW e \in 0..MaxRevision, Expire(t, w, e)
        PROVE  Kept(t)
    BY <2>2, ExpireEffect
  <2>3. ASSUME NEW w \in Workers, NEW e \in 0..MaxRevision, NEW ttl \in Ttls,
               ClaimTask(t, w, e, ttl) \/ RenewLease(t, w, e, ttl)
        PROVE  Kept(t)
    BY <2>3, ClaimEffect, RenewEffect
  <2>4. ASSUME NEW w \in Workers, NEW e \in 0..MaxRevision, YieldTask(t, w, e)
        PROVE  Kept(t)
    BY <2>4, YieldEffect
  <2>5. ASSUME NEW w \in Workers, NEW e \in 0..MaxRevision, NEW x \in Workers,
               NEW a \in Artifacts, HandOffCheckpoint(t, w, e, x, a)
        PROVE  Kept(t)
    BY <2>5 DEF HandOffCheckpoint, MayYield
  <2>6. ASSUME NEW w \in Workers, NEW e \in 0..MaxRevision, NEW s \in TaskStates,
               TransitionTask(t, w, e, s)
        PROVE  Kept(t)
    BY <2>6, TransitionEffect
  <2>7. QED
    BY <2>1, <2>2, <2>3, <2>4, <2>5, <2>6 DEF OperationOn
<1>2. QED
  BY <1>1, TypeCorrect, PTL DEF Spec, NoNewExecutorAfterDeadline

-----------------------------------------------------------------------------
(* What a step records of a task.                                          *)

ClaimTypes == {"task_claimed", "task_resumed", "task_reclaimed"}
Working == {"running", "input_required"}

\* The step creates task t and records it with event e.
Opens(t, e) ==
  /\ ~Created(t) /\ task'[t].state \in TaskStates /\ task'[t].revision = 0
  /\ e.task = t /\ e.type = "task_created" /\ e.to = task'[t].state /\ e.revision = 0

\* What an event of a write with these fields says of a step from one row to the next.
Explains(old, new, type, actor, from, to) ==
  /\ \/ to = "none" /\ new.state = old.state
     \/ from = old.state /\ to = new.state
  /\ type \in ClaimTypes => new.state = "running" /\ new.owner = actor
  /\ type \notin ClaimTypes /\ new.state \in Working => old.state \in Working /\ new.owner = old.owner
  /\ to \in {"completed", "failed"} =>
       type \notin ClaimTypes /\ old.state \in Working /\ old.owner \in {Nobody, actor}

\* The step moves task t, which has not ended, to its next revision and records it with event e.
Advances(t, e) ==
  /\ Created(t) /\ ~Terminal(task[t].state) /\ task'[t].state \in TaskStates
  /\ task'[t].revision = task[t].revision + 1 /\ task'[t].revision <= MaxRevision
  /\ e.task = t /\ e.revision = task'[t].revision
  /\ Explains(task[t], task'[t], e.type, e.actor, e.from, e.to)

\* A write whose row and event agree advances its task.
LEMMA WriteAdvances ==
  ASSUME TypeOK, NEW t \in Tasks, NEW type \in EventTypes, NEW actor \in Workers,
         NEW from \in TaskStates \cup {"none"}, NEW to \in TaskStates \cup {"none"},
         NEW row \in Row, row.state \in TaskStates, Created(t), ~Terminal(task[t].state),
         Explains(task[t], row, type, actor, from, to), Write(t, type, actor, from, to, row)
  PROVE  \E e \in Event : events' = Append(events, e) /\ Advances(t, e)
<1>1. task[t] \in Row /\ task[t].revision \in Nat
  BY DEF TypeOK, Row
<1> DEFINE e == [task |-> t, type |-> type, actor |-> actor,
                 from |-> from, to |-> to, revision |-> task[t].revision + 1]
<1>2. e \in Event /\ events' = Append(events, e)
  BY <1>1 DEF Event, Write, Record
<1>3. /\ task'[t].state = row.state /\ task'[t].owner = row.owner
      /\ task'[t].revision = task[t].revision + 1 /\ task'[t].revision <= MaxRevision
  <2>1. task'[t] = [row EXCEPT !.revision = task[t].revision + 1]
    BY DEF Write, TypeOK
  <2>2. task[t].revision < MaxRevision
    BY DEF Write
  <2>3. /\ task'[t].state = row.state /\ task'[t].owner = row.owner
        /\ task'[t].revision = task[t].revision + 1
    BY <2>1 DEF Row
  <2>4. QED
    BY <1>1, <2>2, <2>3, ConstantsAssumption
<1>4. Explains(task[t], task'[t], type, actor, from, to)
  BY <1>3 DEF Explains
<1>5. /\ e.task = t /\ e.type = type /\ e.actor = actor /\ e.from = from /\ e.to = to
      /\ e.revision = task[t].revision + 1
  OBVIOUS
<1>6. Advances(t, e)
  <2> HIDE DEF e
  <2>1. QED
    BY <1>3, <1>4, <1>5 DEF Advances
<1>7. QED
  BY <1>2, <1>6

LEMMA OperationAdvances ==
  ASSUME TypeOK, OwnershipConsistent, NEW t \in Tasks, OperationOn(t)
  PROVE  \E e \in Event : events' = Append(events, e) /\ Advances(t, e)
<1> DEFINE Goal == \E e \in Event : events' = Append(events, e) /\ Advances(t, e)
<1>1. /\ task[t] \in Row /\ Created(t) /\ ~Terminal(task[t].state)
      /\ task[t].state \in TaskStates /\ task[t].state \in LiveStates
  <2>1. task[t] \in Row
    BY DEF TypeOK
  <2>2. Created(t)
    BY DEF OperationOn, Expire, ClaimTask, RenewLease, YieldTask, HandOffCheckpoint,
           TransitionTask,
           CurrentRevision
  <2>3. ~Terminal(task[t].state)
    BY TerminalStep
  <2>4. QED
    BY <2>1, <2>2, <2>3 DEF Row, Created, Terminal, TaskStates
<1>2. ASSUME NEW w \in Workers, NEW n \in 0..MaxRevision, Expire(t, w, n) PROVE Goal
  <2> DEFINE row == Ended(task[t], "expired")
  <2>1. "expired" \in TaskStates
    BY DEF TaskStates, TerminalStates
  <2>2. row \in Row /\ row.state = "expired"
    BY <1>1, <2>1, EndedConsistent DEF Ended, Row
  <2>3. Write(t, "task_expired", w, task[t].state, "expired", row)
    BY <1>2 DEF Expire
  <2> HIDE DEF row
  <2>4. Explains(task[t], row, "task_expired", w, task[t].state, "expired")
    BY <2>2 DEF Explains, ClaimTypes, Working
  <2>5. "task_expired" \in EventTypes
    BY DEF EventTypes
  <2>6. QED
    BY <1>1, <2>1, <2>2, <2>3, <2>4, <2>5, WriteAdvances
<1>3. ASSUME NEW w \in Workers, NEW n \in 0..MaxRevision, NEW ttl \in Ttls, ClaimTask(t, w, n, ttl)
      PROVE  Goal
  <2> DEFINE row == [task[t] EXCEPT !.state = "running", !.owner = w, !.lease = LeaseUntil(ttl)]
  <2>1. "running" \in TaskStates
    BY DEF TaskStates, LiveStates
  <2>2. row \in Row
    BY <1>1, <2>1, RowTyped, LeaseTyped
  <2>3. row.state = "running" /\ row.owner = w
    BY <1>1 DEF Row
  <2>4. Write(t, ClaimEvent(t), w, task[t].state, "running", row)
    BY <1>3 DEF ClaimTask
  <2> HIDE DEF row
  <2>5. ClaimEvent(t) \in ClaimTypes /\ ClaimEvent(t) \in EventTypes
    BY DEF ClaimEvent, ClaimTypes, EventTypes
  <2>6. Explains(task[t], row, ClaimEvent(t), w, task[t].state, "running")
    BY <2>3, <2>5 DEF Explains
  <2>7. QED
    BY <1>1, <2>1, <2>2, <2>3, <2>4, <2>5, <2>6, WriteAdvances
<1>4. ASSUME NEW w \in Workers, NEW n \in 0..MaxRevision, NEW ttl \in Ttls, RenewLease(t, w, n, ttl)
      PROVE  Goal
  <2> DEFINE row == [task[t] EXCEPT !.lease = LeaseUntil(ttl)]
  <2>1. row \in Row
    BY <1>1, RenewedTyped, LeaseTyped
  <2>2. row.state = task[t].state /\ row.owner = task[t].owner
    BY <1>1 DEF Row
  <2>3. Write(t, "lease_renewed", w, "none", "none", row)
    BY <1>4 DEF RenewLease
  <2> HIDE DEF row
  <2>4. Explains(task[t], row, "lease_renewed", w, "none", "none")
    BY <2>2 DEF Explains, ClaimTypes
  <2>5. "lease_renewed" \in EventTypes
    BY DEF EventTypes
  <2>6. QED
    BY <1>1, <2>1, <2>2, <2>3, <2>4, <2>5, WriteAdvances
<1>5. ASSUME NEW w \in Workers, NEW n \in 0..MaxRevision, YieldTask(t, w, n) PROVE Goal
  <2> DEFINE row == [task[t] EXCEPT !.state = "pending", !.affinity = w, !.lease = NoTime]
  <2>1. "pending" \in TaskStates
    BY DEF TaskStates, LiveStates
  <2>2. row \in Row
    BY <1>1, <2>1, RowTyped
  <2>3. row.state = "pending"
    BY <1>1 DEF Row
  <2>4. Write(t, "task_yielded", w, task[t].state, "pending", row)
    BY <1>5 DEF YieldTask
  <2> HIDE DEF row
  <2>5. Explains(task[t], row, "task_yielded", w, task[t].state, "pending")
    BY <2>3 DEF Explains, ClaimTypes, Working
  <2>6. "task_yielded" \in EventTypes
    BY DEF EventTypes
  <2>7. QED
    BY <1>1, <2>1, <2>2, <2>3, <2>4, <2>5, <2>6, WriteAdvances
<1>6. ASSUME NEW w \in Workers, NEW n \in 0..MaxRevision, NEW x \in Workers, NEW a \in Artifacts,
             HandOffCheckpoint(t, w, n, x, a)
      PROVE  Goal
  <2> DEFINE row == [task[t] EXCEPT !.state = "pending", !.owner = x, !.affinity = x, !.lease = NoTime]
  <2>1. "pending" \in TaskStates
    BY DEF TaskStates, LiveStates
  <2>2. row \in Row
    BY <1>1, <2>1, RowTyped
  <2>3. row.state = "pending"
    BY <1>1 DEF Row
  <2>4. Write(t, "task_checkpoint_handed_off", w, task[t].state, "pending", row)
    BY <1>6 DEF HandOffCheckpoint
  <2> HIDE DEF row
  <2>5. Explains(task[t], row, "task_checkpoint_handed_off", w, task[t].state, "pending")
    BY <2>3 DEF Explains, ClaimTypes, Working
  <2>6. "task_checkpoint_handed_off" \in EventTypes
    BY DEF EventTypes
  <2>7. QED
    BY <1>1, <2>1, <2>2, <2>3, <2>4, <2>5, <2>6, WriteAdvances
<1>7. ASSUME NEW w \in Workers, NEW n \in 0..MaxRevision, NEW s \in TaskStates,
             TransitionTask(t, w, n, s)
      PROVE  Goal
  <2> DEFINE row == IF Terminal(s) THEN Ended(task[t], s) ELSE [task[t] EXCEPT !.state = s]
  <2>1. row \in Row
    BY <1>1, EndedConsistent, RowTyped
  <2>2. row.state = s /\ (s \notin TerminalStates => row.owner = task[t].owner)
    BY <1>1 DEF Row, Ended, Terminal
  <2>3. Write(t, "task_transitioned", w, task[t].state, s, row)
    BY <1>7 DEF TransitionTask
  <2> HIDE DEF row
  <2>4. AllowedTransition(task[t].state, s) /\ (task[t].owner \in {Nobody, w} \/ s = "cancelled")
    BY <1>7 DEF TransitionTask, MayTransition
  <2>5. Explains(task[t], row, "task_transitioned", w, task[t].state, s)
    BY <2>2, <2>4 DEF Explains, ClaimTypes, Working, AllowedTransition, TerminalStates
  <2>6. "task_transitioned" \in EventTypes
    BY DEF EventTypes
  <2>7. QED
    BY <1>1, <2>1, <2>2, <2>3, <2>5, <2>6, WriteAdvances
<1>8. QED
  BY <1>2, <1>3, <1>4, <1>5, <1>6, <1>7 DEF OperationOn

\* Task t and its part of the feed stay as they are; another task or an artifact may be recorded.
Untouched(t) ==
  /\ task'[t] = task[t]
  /\ \/ events' = events
     \/ \E e \in Event : events' = Append(events, e) /\ (e.task # t \/ e.revision = -1)

LEMMA StepRecords ==
  ASSUME TypeOK, OwnershipConsistent, [Next]_vars, NEW t \in Tasks
  PROVE  \/ Untouched(t)
         \/ \E e \in Event : events' = Append(events, e) /\ (Opens(t, e) \/ Advances(t, e))
<1> DEFINE Goal == \/ Untouched(t)
                   \/ \E e \in Event : events' = Append(events, e) /\ (Opens(t, e) \/ Advances(t, e))
<1>1. CASE UNCHANGED vars \/ Tick
  BY <1>1 DEF vars, Tick, Untouched
<1>2. ASSUME NEW u \in Tasks, NEW w \in Workers, NEW a \in Artifacts, NEW role \in Roles,
             PutArtifact(a, u, w, role)
      PROVE  Goal
  <2> DEFINE e == [task |-> u, type |-> "artifact_created", actor |-> w,
                   from |-> "none", to |-> "none", revision |-> -1]
  <2>1. e \in Event /\ e.revision = -1
    BY DEF Event, EventTypes
  <2>2. events' = Append(events, e) /\ task' = task
    BY <1>2 DEF PutArtifact, Record
  <2>3. QED
    BY <2>1, <2>2 DEF Untouched
<1>3. ASSUME NEW u \in Tasks, NEW w \in Workers, NEW s \in TaskStates, NEW d, NEW refs,
             CreateIn(u, w, s, d, refs)
      PROVE  Goal
  <2> DEFINE e == [task |-> u, type |-> "task_created", actor |-> w,
                   from |-> "none", to |-> s, revision |-> 0]
             row == [NoRow EXCEPT !.state = s, !.deadline = d, !.refs = refs]
  <2>1. /\ e \in Event /\ e.task = u /\ e.type = "task_created" /\ e.to = s /\ e.revision = 0
    BY DEF Event, EventTypes
  <2>2. row.state = s /\ row.revision = 0
    BY DEF NoRow
  <2>3. events' = Append(events, e) /\ task' = [task EXCEPT ![u] = row] /\ ~Created(u)
    BY <1>3 DEF CreateIn, Record
  <2> HIDE DEF e, row
  <2>4. CASE u = t
    <3>1. task'[t] = row
      BY <2>3, <2>4 DEF TypeOK
    <3>2. QED
      BY <2>1, <2>2, <2>3, <2>4, <3>1 DEF Opens
  <2>5. CASE u # t
    BY <2>1, <2>3, <2>5 DEF Untouched, TypeOK
  <2>6. QED
    BY <2>4, <2>5
<1>4. ASSUME NEW u \in Tasks, OperationOn(u) PROVE Goal
  <2>1. PICK e \in Event : events' = Append(events, e) /\ Advances(u, e)
    BY <1>4, OperationAdvances
  <2>2. CASE u = t
    BY <2>1, <2>2
  <2>3. CASE u # t
    <3>1. task'[t] = task[t]
      BY <1>4, <2>3, WriteElsewhere
    <3>2. e.task = u
      BY <2>1 DEF Advances
    <3>3. QED
      BY <2>1, <2>3, <3>1, <3>2 DEF Untouched
  <2>4. QED
    BY <2>2, <2>3
<1>5. QED
  <2>1. "pending" \in TaskStates
    BY DEF TaskStates, LiveStates
  <2>2. CASE Next
    BY <1>1, <1>2, <1>3, <1>4, <2>1, <2>2 DEF Next, OperationOn, CreateTask, ImportTask
  <2>3. QED
    BY <1>1, <2>2

-----------------------------------------------------------------------------
(* The feed as a history.                                                  *)

\* Only a task that exists has events, and none of a later revision than its row.
RevisionsBounded(t) ==
  /\ task[t].revision <= MaxRevision
  /\ \A i \in TaskEvents(t) : Created(t) /\ events[i].revision <= task[t].revision

\* The conjunct of AuditTrail about one task.
TrailOf(t) ==
  /\ \A r \in 0..MaxRevision :
       (Created(t) /\ r <= task[t].revision) <=> \E i \in TaskEvents(t) : events[i].revision = r
  /\ \A i, j \in TaskEvents(t) : i < j => events[i].revision < events[j].revision
  /\ \A i, j \in StateEvents(t) :
       i < j /\ (\A k \in StateEvents(t) : k <= i \/ k >= j) => events[j].from = events[i].to
  /\ \A i \in StateEvents(t) :
       (\A k \in StateEvents(t) : k <= i) => events[i].to = task[t].state

\* The feed tells who works on a claimed task, and a task that was ended stays so.
ClaimsKnown(t) ==
  /\ \A i \in StateEvents(t) : events[i].to \in TerminalStates => Terminal(task[t].state)
  /\ \A j \in ClaimEvents(t) :
       task[t].state \in Working /\ (\A k \in ClaimEvents(t) : k <= j) => task[t].owner = events[j].actor

\* The conjunct of FinishedByLastClaimant about one task.
FinishOf(t) ==
  \A i \in StateEvents(t), j \in ClaimEvents(t) :
    events[i].to \in {"completed", "failed"} /\ (\A k \in ClaimEvents(t) : k <= j)
      => events[i].actor = events[j].actor

HistoryOf(t) == RevisionsBounded(t) /\ TrailOf(t) /\ ClaimsKnown(t) /\ FinishOf(t)

HistoryInv == \A t \in Tasks : HistoryOf(t)

\* An event is the last one, and those before it stay where they are.
LEMMA EventsGrow ==
  ASSUME events \in Seq(Event), NEW e \in Event, events' = Append(events, e), NEW n \in Nat,
         n = Len(events)
  PROVE  /\ DOMAIN events = 1..n /\ DOMAIN events' = DOMAIN events \cup {n + 1}
         /\ events'[n + 1] = e /\ \A i \in DOMAIN events : events'[i] = events[i]
OBVIOUS

\* What the events of a task become when one of them is recorded.
LEMMA TaskEventsGrow ==
  ASSUME events \in Seq(Event), NEW e \in Event, events' = Append(events, e), NEW n \in Nat,
         n = Len(events),
         NEW t \in Tasks, e.task = t, e.revision >= 0
  PROVE  /\ TaskEvents(t)' = TaskEvents(t) \cup {n + 1}
         /\ StateEvents(t)' = StateEvents(t) \cup (IF e.to # "none" THEN {n + 1} ELSE {})
         /\ ClaimEvents(t)' = ClaimEvents(t) \cup (IF e.type \in ClaimTypes THEN {n + 1} ELSE {})
         /\ events'[n + 1] = e
         /\ \A i \in TaskEvents(t) : i \in 1..n /\ events'[i] = events[i] /\ events[i] \in Event
         /\ StateEvents(t) \subseteq TaskEvents(t) /\ ClaimEvents(t) \subseteq TaskEvents(t)
<1>1. /\ DOMAIN events = 1..n /\ DOMAIN events' = DOMAIN events \cup {n + 1}
      /\ events'[n + 1] = e /\ \A i \in DOMAIN events : events'[i] = events[i]
  BY EventsGrow
<1>2. TaskEvents(t)' = TaskEvents(t) \cup {n + 1}
  BY <1>1 DEF TaskEvents
<1>3. \A i \in TaskEvents(t) : i \in 1..n /\ events'[i] = events[i] /\ events[i] \in Event
  BY <1>1 DEF TaskEvents
<1>4. StateEvents(t)' = StateEvents(t) \cup (IF e.to # "none" THEN {n + 1} ELSE {})
  BY <1>1, <1>2, <1>3 DEF StateEvents
<1>5. ClaimEvents(t)' = ClaimEvents(t) \cup (IF e.type \in ClaimTypes THEN {n + 1} ELSE {})
  BY <1>1, <1>2, <1>3 DEF ClaimEvents, ClaimTypes
<1>6. QED
  BY <1>1, <1>2, <1>3, <1>4, <1>5 DEF StateEvents, ClaimEvents

\* The events of an untouched task stay as they are.
LEMMA TaskEventsStay ==
  ASSUME events \in Seq(Event), NEW t \in Tasks, Untouched(t)
  PROVE  /\ TaskEvents(t)' = TaskEvents(t) /\ StateEvents(t)' = StateEvents(t)
         /\ ClaimEvents(t)' = ClaimEvents(t)
         /\ \A i \in TaskEvents(t) : events'[i] = events[i]
<1>1. CASE events' = events
  BY <1>1 DEF TaskEvents, StateEvents, ClaimEvents
<1>2. ASSUME NEW e \in Event, events' = Append(events, e), e.task # t \/ e.revision = -1
      PROVE  TaskEvents(t)' = TaskEvents(t) /\ \A i \in TaskEvents(t) : events'[i] = events[i]
  <2>1. PICK n \in Nat : n = Len(events)
    OBVIOUS
  <2>2. /\ DOMAIN events = 1..n /\ DOMAIN events' = DOMAIN events \cup {n + 1}
        /\ events'[n + 1] = e /\ \A i \in DOMAIN events : events'[i] = events[i]
    BY <1>2, <2>1, EventsGrow
  <2>3. n + 1 \notin TaskEvents(t)'
    BY <1>2, <2>2 DEF TaskEvents
  <2>4. QED
    BY <2>2, <2>3 DEF TaskEvents
<1>3. TaskEvents(t)' = TaskEvents(t) /\ \A i \in TaskEvents(t) : events'[i] = events[i]
  BY <1>1, <1>2 DEF Untouched
<1>4. QED
  BY <1>3 DEF StateEvents, ClaimEvents

LEMMA UntouchedHistory ==
  ASSUME TypeOK, NEW t \in Tasks, HistoryOf(t), Untouched(t)
  PROVE  HistoryOf(t)'
<1>1. /\ TaskEvents(t)' = TaskEvents(t) /\ StateEvents(t)' = StateEvents(t)
      /\ ClaimEvents(t)' = ClaimEvents(t) /\ task'[t] = task[t]
      /\ \A i \in TaskEvents(t) : events'[i] = events[i]
      /\ StateEvents(t) \subseteq TaskEvents(t) /\ ClaimEvents(t) \subseteq TaskEvents(t)
  BY TaskEventsStay DEF TypeOK, Untouched, StateEvents, ClaimEvents
<1>2. RevisionsBounded(t)'
  BY <1>1 DEF HistoryOf, RevisionsBounded, Created
<1>3. TrailOf(t)'
  <2>1. \A r \in 0..MaxRevision :
          (Created(t)' /\ r <= task'[t].revision) <=> \E i \in TaskEvents(t)' : events'[i].revision = r
    BY <1>1 DEF HistoryOf, TrailOf, Created
  <2>2. \A i, j \in TaskEvents(t)' : i < j => events'[i].revision < events'[j].revision
    BY <1>1 DEF HistoryOf, TrailOf
  <2>3. \A i, j \in StateEvents(t)' :
          i < j /\ (\A k \in StateEvents(t)' : k <= i \/ k >= j) => events'[j].from = events'[i].to
    BY <1>1 DEF HistoryOf, TrailOf
  <2>4. \A i \in StateEvents(t)' :
          (\A k \in StateEvents(t)' : k <= i) => events'[i].to = task'[t].state
    BY <1>1 DEF HistoryOf, TrailOf
  <2>5. QED
    BY <2>1, <2>2, <2>3, <2>4 DEF TrailOf
<1>4. ClaimsKnown(t)'
  BY <1>1 DEF HistoryOf, ClaimsKnown
<1>5. FinishOf(t)'
  BY <1>1 DEF HistoryOf, FinishOf
<1>6. QED
  BY <1>2, <1>3, <1>4, <1>5 DEF HistoryOf

\* A created task has one event and no claim.
LEMMA OpenedHistory ==
  ASSUME TypeOK, NEW t \in Tasks, HistoryOf(t), NEW e \in Event, events' = Append(events, e),
         Opens(t, e)
  PROVE  HistoryOf(t)'
<1>1. TaskEvents(t) = {} /\ StateEvents(t) = {} /\ ClaimEvents(t) = {}
  BY DEF HistoryOf, RevisionsBounded, Opens, StateEvents, ClaimEvents
<1>2. /\ e.task = t /\ e.revision = 0 /\ e.type \notin ClaimTypes /\ e.to = task'[t].state
      /\ task'[t].state \in TaskStates /\ task'[t].revision = 0
  BY DEF Opens, ClaimTypes
<1>3. PICK n \in Nat : n = Len(events)
  BY DEF TypeOK
<1>4. e.to # "none" /\ Created(t)'
  BY <1>2 DEF TaskStates, LiveStates, TerminalStates, Created
<1>5. /\ TaskEvents(t)' = {n + 1} /\ StateEvents(t)' = {n + 1} /\ ClaimEvents(t)' = {}
      /\ events'[n + 1] = e
  BY <1>1, <1>2, <1>3, <1>4, TaskEventsGrow DEF TypeOK
<1>6. RevisionsBounded(t)'
  <2>1. MaxRevision \in Nat
    BY ConstantsAssumption
  <2>2. \A i \in TaskEvents(t)' : events'[i].revision = 0
    BY <1>2, <1>5
  <2>3. 0 <= MaxRevision /\ 0 <= 0
    BY <2>1
  <2>4. \A i \in TaskEvents(t)' : Created(t)' /\ events'[i].revision <= task'[t].revision
    BY <1>2, <1>4, <2>2, <2>3
  <2>5. task'[t].revision <= MaxRevision
    BY <1>2, <2>3
  <2>6. QED
    BY <2>4, <2>5 DEF RevisionsBounded
<1>7. TrailOf(t)'
  <2>1. ASSUME NEW r \in 0..MaxRevision
        PROVE  (Created(t)' /\ r <= task'[t].revision)
                 <=> \E i \in TaskEvents(t)' : events'[i].revision = r
    <3>1. (Created(t)' /\ r <= task'[t].revision) <=> r = 0
      BY <1>2, <1>4
    <3>2. (\E i \in TaskEvents(t)' : events'[i].revision = r) <=> r = 0
      BY <1>2, <1>5
    <3>3. QED
      BY <3>1, <3>2
  <2>2. \A i, j \in TaskEvents(t)' : ~(i < j)
    BY <1>5
  <2>3. \A i, j \in StateEvents(t)' : ~(i < j)
    BY <1>5
  <2>4. \A i \in StateEvents(t)' : events'[i].to = task'[t].state
    BY <1>2, <1>5
  <2>5. QED
    BY <2>1, <2>2, <2>3, <2>4 DEF TrailOf
<1>8. ClaimsKnown(t)' /\ FinishOf(t)'
  BY <1>2, <1>5 DEF ClaimsKnown, FinishOf, Terminal
<1>9. QED
  BY <1>6, <1>7, <1>8 DEF HistoryOf

Appends(e) == events' = Append(events, e)

\* A write adds the next revision, from the state the feed had reached.
LEMMA AdvancedTrail ==
  ASSUME TypeOK, NEW t \in Tasks, HistoryOf(t), NEW e \in Event, Appends(e), Advances(t, e)
  PROVE  RevisionsBounded(t)' /\ TrailOf(t)'
<1>1. PICK n \in Nat : n = Len(events)
  BY DEF TypeOK
<1>2. PICK rev \in Nat : rev = task[t].revision
  BY DEF TypeOK, Row
<1>17. rev \in Nat
  BY <1>2
<1>3. /\ e.task = t /\ e.revision = rev + 1 /\ task'[t].revision = rev + 1 /\ rev + 1 <= MaxRevision
      /\ Created(t) /\ task'[t].state \in TaskStates
      /\ \/ e.to = "none" /\ task'[t].state = task[t].state
         \/ e.from = task[t].state /\ e.to = task'[t].state
  BY <1>2 DEF Advances, Explains
<1>4. /\ TaskEvents(t)' = TaskEvents(t) \cup {n + 1}
      /\ StateEvents(t)' = StateEvents(t) \cup (IF e.to # "none" THEN {n + 1} ELSE {})
      /\ events'[n + 1] = e
      /\ \A i \in TaskEvents(t) : i \in 1..n /\ events'[i] = events[i] /\ events[i] \in Event
      /\ StateEvents(t) \subseteq TaskEvents(t)
  <2>1. e.task = t /\ e.revision >= 0 /\ events \in Seq(Event)
    BY <1>3 DEF TypeOK
  <2>2. QED
    BY <1>1, <2>1, TaskEventsGrow DEF Appends
<1>15. /\ MaxRevision \in Nat
       /\ \A i \in TaskEvents(t)' : i \in TaskEvents(t) \/ i = n + 1
       /\ \A i \in StateEvents(t) : i \in 1..n /\ events'[i] = events[i]
  BY <1>4, ConstantsAssumption
<1>5. Created(t)'
  BY <1>3 DEF Created, TaskStates, LiveStates, TerminalStates
<1>6. \A i \in TaskEvents(t) : events'[i].revision \in Int /\ events'[i].revision <= rev
  <2>1. \A i \in TaskEvents(t) : events[i].revision <= rev
    BY <1>2 DEF HistoryOf, RevisionsBounded
  <2>2. \A i \in TaskEvents(t) : events[i].revision \in Int
    BY <1>4 DEF Event
  <2>3. QED
    BY <1>4, <2>1, <2>2
<1>16. \A i \in TaskEvents(t)' : events'[i].revision \in Int /\ events'[i].revision <= rev + 1
  <2>1. ASSUME NEW i \in TaskEvents(t)'
        PROVE events'[i].revision \in Int /\ events'[i].revision <= rev + 1
    <3>1. CASE i \in TaskEvents(t)
      <4>1. events'[i].revision \in Int /\ events'[i].revision <= rev
        BY <1>6, <3>1
      <4>2. QED
        BY <1>17, <4>1
    <3>2. CASE i = n + 1
      <4>1. events'[i].revision = rev + 1
        BY <1>3, <1>4, <3>2
      <4>2. QED
        BY <4>1
    <3>3. QED
      BY <1>15, <2>1, <3>1, <3>2
  <2>2. QED
    BY <2>1
<1>7. RevisionsBounded(t)'
  <2>1. \A i \in TaskEvents(t)' : events'[i].revision <= rev + 1
    BY <1>16
  <2>2. QED
    BY <1>3, <1>5, <2>1 DEF RevisionsBounded
<1>8. ASSUME NEW r \in 0..MaxRevision
      PROVE  r <= rev + 1 <=> \E i \in TaskEvents(t)' : events'[i].revision = r
  <2>5. r \in Nat
    BY <1>15
  <2>1. r <= rev <=> \E i \in TaskEvents(t) : events[i].revision = r
    BY <1>2, <1>3 DEF HistoryOf, TrailOf
  <2>2. CASE r <= rev
    <3>1. PICK i \in TaskEvents(t) : events[i].revision = r
      BY <2>1, <2>2
    <3>2. i \in TaskEvents(t)' /\ events'[i].revision = r
      BY <1>4, <3>1
    <3>3. QED
      BY <1>17, <2>2, <2>5, <3>2
  <2>3. CASE r = rev + 1
    <3>1. n + 1 \in TaskEvents(t)' /\ events'[n + 1].revision = r
      BY <1>3, <1>4, <2>3
    <3>2. QED
      BY <1>17, <2>3, <2>5, <3>1
  <2>4. CASE r > rev + 1
    <3>1. \A i \in TaskEvents(t)' : events'[i].revision # r
      BY <1>17, <1>16, <2>4, <2>5
    <3>2. QED
      BY <1>17, <2>4, <2>5, <3>1
  <2>6. QED
    BY <1>17, <2>2, <2>3, <2>4, <2>5
<1>9. ASSUME NEW i \in TaskEvents(t)', NEW j \in TaskEvents(t)', i < j
      PROVE  events'[i].revision < events'[j].revision
  <2>1. i \in TaskEvents(t)
    BY <1>4, <1>9
  <2>2. CASE j \in TaskEvents(t)
    BY <1>4, <1>9, <2>1, <2>2 DEF HistoryOf, TrailOf
  <2>3. CASE j = n + 1
    <3>1. events'[j].revision = rev + 1
      BY <1>3, <1>4, <2>3
    <3>2. events'[i].revision \in Int /\ events'[i].revision <= rev
      BY <1>6, <2>1
    <3>3. QED
      BY <1>17, <3>1, <3>2
  <2>4. QED
    BY <1>4, <2>2, <2>3
<1>10. \A i \in StateEvents(t) : (\A k \in StateEvents(t) : k <= i) => events[i].to = task[t].state
  BY DEF HistoryOf, TrailOf
<1>11. ASSUME NEW i \in StateEvents(t)', NEW j \in StateEvents(t)', i < j,
              \A k \in StateEvents(t)' : k <= i \/ k >= j
       PROVE  events'[j].from = events'[i].to
  <2>1. i \in StateEvents(t) /\ events'[i] = events[i] /\ i \in 1..n
    <3>1. (i \in StateEvents(t) \/ i = n + 1) /\ (j \in StateEvents(t) \/ j = n + 1)
      BY <1>4
    <3>2. j \in 1..(n + 1)
      BY <1>15, <3>1
    <3>3. i # n + 1
      BY <1>11, <3>2
    <3>4. QED
      BY <1>15, <3>1, <3>3
  <2>2. CASE j \in StateEvents(t)
    BY <1>4, <1>11, <2>1, <2>2 DEF HistoryOf, TrailOf
  <2>3. CASE j = n + 1 /\ e.to # "none"
    <3>1. \A k \in StateEvents(t) : k <= i
      BY <1>4, <1>11, <2>3
    <3>2. events[i].to = task[t].state /\ e.from = task[t].state
      BY <1>3, <1>10, <2>1, <2>3, <3>1
    <3>3. QED
      BY <1>4, <2>1, <2>3, <3>2
  <2>4. QED
    BY <1>4, <2>2, <2>3
<1>12. ASSUME NEW i \in StateEvents(t)', \A k \in StateEvents(t)' : k <= i
       PROVE  events'[i].to = task'[t].state
  <2>1. CASE e.to # "none"
    <3>1. i = n + 1
      BY <1>4, <1>12, <2>1
    <3>2. QED
      BY <1>3, <1>4, <2>1, <3>1
  <2>2. CASE e.to = "none"
    <3>1. StateEvents(t)' = StateEvents(t) /\ task'[t].state = task[t].state
      BY <1>3, <1>4, <2>2 DEF TaskStates, LiveStates, TerminalStates
    <3>2. QED
      BY <1>4, <1>10, <1>12, <3>1
  <2>3. QED
    BY <2>1, <2>2
<1>13. TrailOf(t)'
  BY <1>3, <1>5, <1>8, <1>9, <1>11, <1>12 DEF TrailOf
<1>14. QED
  BY <1>7, <1>13

\* A write is a claim, by which its actor becomes the owner, or leaves the owner of running work alone;
\* and a task is finished by its owner.
LEMMA AdvancedClaims ==
  ASSUME TypeOK, NEW t \in Tasks, HistoryOf(t), NEW e \in Event, events' = Append(events, e),
         Advances(t, e)
  PROVE  ClaimsKnown(t)' /\ FinishOf(t)'
<1>1. PICK n \in Nat : n = Len(events)
  BY DEF TypeOK
<1>2. /\ e.task = t /\ e.revision >= 0 /\ Created(t) /\ ~Terminal(task[t].state)
      /\ \/ e.to = "none" /\ task'[t].state = task[t].state
         \/ e.from = task[t].state /\ e.to = task'[t].state
      /\ e.type \in ClaimTypes => task'[t].state = "running" /\ task'[t].owner = e.actor
      /\ e.type \notin ClaimTypes /\ task'[t].state \in Working
           => task[t].state \in Working /\ task'[t].owner = task[t].owner
      /\ e.to \in {"completed", "failed"} =>
           /\ e.type \notin ClaimTypes
           /\ task[t].state \in Working /\ task[t].owner \in {Nobody, e.actor}
  BY DEF Advances, Explains, TypeOK, Row
<1>3. /\ StateEvents(t)' = StateEvents(t) \cup (IF e.to # "none" THEN {n + 1} ELSE {})
      /\ ClaimEvents(t)' = ClaimEvents(t) \cup (IF e.type \in ClaimTypes THEN {n + 1} ELSE {})
      /\ events'[n + 1] = e
      /\ \A i \in StateEvents(t) : i \in 1..n /\ events'[i] = events[i]
      /\ \A i \in ClaimEvents(t) : i \in 1..n /\ events'[i] = events[i] /\ events[i].actor \in Workers
  <2>1. events \in Seq(Event)
    BY DEF TypeOK
  <2>2. /\ StateEvents(t)' = StateEvents(t) \cup (IF e.to # "none" THEN {n + 1} ELSE {})
        /\ ClaimEvents(t)' = ClaimEvents(t) \cup (IF e.type \in ClaimTypes THEN {n + 1} ELSE {})
        /\ events'[n + 1] = e
        /\ \A i \in TaskEvents(t) : i \in 1..n /\ events'[i] = events[i] /\ events[i] \in Event
        /\ StateEvents(t) \subseteq TaskEvents(t) /\ ClaimEvents(t) \subseteq TaskEvents(t)
    BY <1>1, <1>2, <2>1, TaskEventsGrow
  <2>3. \A i \in TaskEvents(t) : events[i].actor \in Workers
    BY <2>2 DEF Event
  <2>4. QED
    BY <2>2, <2>3
<1>4. \A i \in StateEvents(t) : events[i].to \notin TerminalStates
  BY <1>2 DEF HistoryOf, ClaimsKnown
<1>5. ASSUME NEW j \in ClaimEvents(t), task[t].state \in Working, \A k \in ClaimEvents(t) : k <= j
      PROVE  task[t].owner = events[j].actor
  BY <1>5 DEF HistoryOf, ClaimsKnown
<1>6. ASSUME NEW i \in StateEvents(t)',
             events'[i].to \in TerminalStates PROVE Terminal(task'[t].state)
  BY <1>2, <1>3, <1>4, <1>6 DEF Terminal, TerminalStates
<1>7. ASSUME NEW j \in ClaimEvents(t)', task'[t].state \in Working,
             \A k \in ClaimEvents(t)' : k <= j
      PROVE  task'[t].owner = events'[j].actor
  <2>1. CASE e.type \in ClaimTypes
    <3>1. j = n + 1
      BY <1>3, <1>7, <2>1
    <3>2. QED
      BY <1>2, <1>3, <2>1, <3>1
  <2>2. CASE e.type \notin ClaimTypes
    BY <1>2, <1>3, <1>5, <1>7, <2>2
  <2>3. QED
    BY <2>1, <2>2
<1>8. ASSUME NEW i \in StateEvents(t)', NEW j \in ClaimEvents(t)',
             events'[i].to \in {"completed", "failed"},
             \A k \in ClaimEvents(t)' : k <= j
      PROVE  events'[i].actor = events'[j].actor
  <2>1. i = n + 1 /\ e.to \in {"completed", "failed"}
    BY <1>3, <1>4, <1>8 DEF TerminalStates
  <2>2. /\ ClaimEvents(t)' = ClaimEvents(t)
        /\ task[t].owner \in {Nobody, e.actor} /\ task[t].state \in Working
    BY <1>2, <1>3, <2>1
  <2>3. task[t].owner = events[j].actor /\ events[j].actor \in Workers
    BY <1>3, <1>5, <1>8, <2>2
  <2>4. e.actor = events[j].actor
    BY <2>2, <2>3, ConstantsAssumption
  <2>5. QED
    BY <1>3, <1>8, <2>1, <2>2, <2>4
<1>9. QED
  BY <1>6, <1>7, <1>8 DEF ClaimsKnown, FinishOf

THEOREM HistoryHolds == Spec => []HistoryInv
<1>1. Init => HistoryInv
  <2> SUFFICES ASSUME Init, NEW t \in Tasks PROVE HistoryOf(t)
    BY DEF HistoryInv
  <2>1. /\ TaskEvents(t) = {} /\ StateEvents(t) = {} /\ ClaimEvents(t) = {}
        /\ ~Created(t) /\ task[t].revision = 0
    BY DEF Init, TaskEvents, StateEvents, ClaimEvents, Created, NoRow
  <2>2. QED
    BY <2>1, ConstantsAssumption DEF HistoryOf, RevisionsBounded, TrailOf, ClaimsKnown, FinishOf
<1>2. TypeOK /\ OwnershipConsistent /\ HistoryInv /\ [Next]_vars => HistoryInv'
  <2> SUFFICES ASSUME TypeOK, OwnershipConsistent, HistoryInv, [Next]_vars, NEW t \in Tasks
               PROVE  HistoryOf(t)'
    BY DEF HistoryInv
  <2>1. HistoryOf(t)
    BY DEF HistoryInv
  <2>2. CASE Untouched(t)
    BY <2>1, <2>2, UntouchedHistory
  <2>3. ASSUME NEW e \in Event, events' = Append(events, e), Opens(t, e) PROVE HistoryOf(t)'
    BY <2>1, <2>3, OpenedHistory
  <2>4. ASSUME NEW e \in Event, events' = Append(events, e), Advances(t, e) PROVE HistoryOf(t)'
    BY <2>1, <2>4, AdvancedTrail, AdvancedClaims DEF HistoryOf, Appends
  <2>5. QED
    BY <2>2, <2>3, <2>4, StepRecords
<1>3. QED
  BY <1>1, <1>2, TypeCorrect, OwnershipHolds, PTL DEF Spec

\* The feed of every task is its complete history: each revision once, in order, and each state change
\* from the state the one before had reached (the event each transaction of coordination.rs appends).
THEOREM AuditTrailAlways == Spec => []AuditTrail
<1>1. HistoryInv => AuditTrail
  <2> SUFFICES ASSUME HistoryInv, NEW t \in Tasks PROVE TrailOf(t)
    BY DEF AuditTrail, TrailOf
  <2>1. QED
    BY DEF HistoryInv, HistoryOf
<1>2. QED
  BY <1>1, HistoryHolds, PTL

\* Whatever reclaims, yields, handoffs and human waits came between, claimed work is completed or failed
\* only by the worker whose claim came last (claim_task, transition_task).
THEOREM LastClaimantFinishes == Spec => []FinishedByLastClaimant
<1>1. HistoryInv => FinishedByLastClaimant
  <2> SUFFICES ASSUME HistoryInv, NEW t \in Tasks PROVE FinishOf(t)
    BY DEF FinishedByLastClaimant, FinishOf
  <2>1. QED
    BY DEF HistoryInv, HistoryOf
<1>2. QED
  BY <1>1, HistoryHolds, PTL
=============================================================================
