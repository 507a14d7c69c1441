-------------------------- MODULE McpServer_proofs --------------------------
(***************************************************************************)
(* Proofs about the MCP server's request queues (RequestQueues), for any   *)
(* sets of calls and any limit of the lanes, about the mining of a source  *)
(* file (SourceMine), for any processes, versions and faults, and about    *)
(* the feeds that a server pages out of its own log and its remotes' logs  *)
(* (FeedPages), for any remotes, page limit and number of rows.            *)
(*                                                                         *)
(* What a queue may hold follows from who owns what: a request that waits  *)
(* for the runtime mutex owns a permit and one place in the queue, and the *)
(* guard of the mutex is the permission to put a job into the channel.     *)
(* What a mine may skip follows from what an interrupted one leaves: the   *)
(* effect that stays staged.                                               *)
(* What a feed may pass over follows from what its cursor says of every    *)
(* log: nothing below it that was visible has been kept back.              *)
(***************************************************************************)
EXTENDS RequestQueues, SourceMine, FeedPages, FiniteSetTheorems, WellFoundedInduction, TLAPS

QueueTypes ==
  /\ transport \in {"stdio", "http"}
  /\ pc \in [Calls -> Places] /\ answer \in [Calls -> Answers \ {"full"}]
  /\ permits \subseteq Calls /\ IsFiniteSet(permits) /\ callers \subseteq Calls
  /\ owner \in MemoryCalls \cup {NoCall} /\ worker \in MemoryCalls \cup {NoCall}

\* A line is read once, and only over stdio.
LinesUnread ==
  /\ lines \in Seq(Calls) /\ IsInjective(lines)
  /\ \A i \in DOMAIN lines : pc[lines[i]] = "line"
  /\ transport = "http" => lines = <<>>

\* The queue of the mutex has every request that waits for it, once, and no other.
WaitersLock ==
  /\ waiters \in Seq(MemoryCalls) /\ IsInjective(waiters)
  /\ ToSet(waiters) = {r \in Calls : pc[r] = "lock"}

LanesBounded ==
  /\ \A r \in Calls : pc[r] \in {"lock", "lease"} => r \in permits
  /\ Cardinality(permits \cap MemoryCalls) <= QueueLimit
  /\ Cardinality(permits \cap LeaseCalls) <= QueueLimit

\* A guard that is held belongs to one job, which waits in the channel or is in the memory thread;
\* the thread may still be at the end of an earlier job.
GuardHasJob ==
  /\ channel = <<>> \/ (owner # NoCall /\ channel = <<owner>>)
  /\ owner # NoCall =>
       /\ owner \in permits /\ pc[owner] \in {"job", "dropped"}
       /\ worker = owner <=> channel = <<>>
  /\ worker # NoCall => pc[worker] \in {"job", "released", "dropped"}

QueueInv == QueueTypes /\ LinesUnread /\ WaitersLock /\ LanesBounded /\ GuardHasJob

-----------------------------------------------------------------------------
(* What a step of one request leaves alone.                                *)

\* Request r moves to place x.
Moves(r, x) == pc' = [pc EXCEPT ![r] = x]

LEMMA MoveEffect ==
  ASSUME QueueTypes, NEW r \in Calls, NEW x \in Places, Moves(r, x)
  PROVE  /\ pc' \in [Calls -> Places] /\ pc'[r] = x
         /\ \A s \in Calls : s # r => pc'[s] = pc[s]
BY DEF QueueTypes, Moves

LEMMA LinesKept ==
  ASSUME LinesUnread, NEW r \in Calls, pc[r] # "line", UNCHANGED <<transport, lines>>,
         \A s \in Calls : s # r => pc'[s] = pc[s]
  PROVE  LinesUnread'
<1>1. \A i \in DOMAIN lines : lines[i] \in Calls /\ lines[i] # r
  BY DEF LinesUnread
<1>2. QED
  BY <1>1 DEF LinesUnread

LEMMA QueueKept ==
  ASSUME WaitersLock, NEW r \in Calls, pc[r] # "lock", pc'[r] # "lock", UNCHANGED waiters,
         \A s \in Calls : s # r => pc'[s] = pc[s]
  PROVE  WaitersLock'
<1>1. {s \in Calls : pc'[s] = "lock"} = {s \in Calls : pc[s] = "lock"}
  OBVIOUS
<1>2. QED
  BY <1>1 DEF WaitersLock

\* Permits are only given back, and nobody who waits gives one back.
LEMMA LanesKept ==
  ASSUME QueueTypes, LanesBounded, permits' \subseteq permits,
         \A s \in Calls : pc'[s] \in {"lock", "lease"} => s \in permits'
  PROVE  LanesBounded' /\ IsFiniteSet(permits')
<1>1. IsFiniteSet(permits')
  BY FS_Subset DEF QueueTypes
<1>2. ASSUME NEW lane
      PROVE  /\ Cardinality(permits' \cap lane) <= Cardinality(permits \cap lane)
             /\ Cardinality(permits' \cap lane) \in Nat /\ Cardinality(permits \cap lane) \in Nat
  <2>1. IsFiniteSet(permits \cap lane) /\ permits' \cap lane \subseteq permits \cap lane
    BY FS_Subset DEF QueueTypes
  <2>2. QED
    BY <2>1, FS_Subset, FS_CardinalityType
<1>3. QED
  BY <1>1, <1>2, QueueAssumption DEF LanesBounded

-----------------------------------------------------------------------------
(* The transport.                                                          *)

LEMMA SendKeeps ==
  ASSUME QueueInv, NEW r \in Calls, SendRequest(r)
  PROVE  QueueInv'
<1> DEFINE x == IF transport = "stdio" THEN "line" ELSE "admission"
<1>1. /\ QueueTypes /\ pc[r] = "unsent" /\ x \in Places /\ Moves(r, x) /\ callers' = callers \cup {r}
      /\ UNCHANGED <<transport, answer, permits, waiters, owner, channel, worker>>
      /\ lines' = IF transport = "stdio" THEN Append(lines, r) ELSE lines
  BY DEF SendRequest, QueueInv, Moves, Places
<1>2. /\ pc' \in [Calls -> Places] /\ pc'[r] = x /\ x \notin {"lock", "lease"}
      /\ \A s \in Calls : s # r => pc'[s] = pc[s]
  BY <1>1, MoveEffect
<1>3. QueueTypes'
  BY <1>1, <1>2 DEF QueueTypes
<1>4. LinesUnread'
  <2>1. CASE transport = "stdio"
    <3>1. /\ lines \in Seq(Calls) /\ lines' = Append(lines, r) /\ pc'[r] = "line"
          /\ transport' = "stdio"
      BY <1>1, <1>2, <2>1 DEF QueueInv, LinesUnread
    <3>2. /\ lines' \in Seq(Calls) /\ DOMAIN lines' = DOMAIN lines \cup {Len(lines) + 1}
          /\ lines'[Len(lines) + 1] = r /\ \A i \in DOMAIN lines : lines'[i] = lines[i]
      BY <3>1
    <3>3. \A i \in DOMAIN lines : lines[i] \in Calls /\ pc[lines[i]] = "line" /\ lines[i] # r
      BY <1>1, <3>1 DEF QueueInv, LinesUnread
    <3>4. \A i \in DOMAIN lines' : pc'[lines'[i]] = "line"
      BY <1>2, <3>1, <3>2, <3>3
    <3>5. IsInjective(lines')
      BY <3>2, <3>3 DEF QueueInv, LinesUnread, IsInjective
    <3>6. QED
      BY <3>1, <3>2, <3>4, <3>5 DEF LinesUnread
  <2>2. CASE transport # "stdio"
    BY <1>1, <1>2, <2>2, LinesKept DEF QueueInv
  <2>3. QED
    BY <2>1, <2>2
<1>5. WaitersLock'
  BY <1>1, <1>2, QueueKept DEF QueueInv
<1>6. LanesBounded'
  BY <1>1, <1>2, LanesKept DEF QueueInv, LanesBounded
<1>7. GuardHasJob'
  BY <1>1, <1>2, QueueAssumption DEF QueueInv, QueueTypes, GuardHasJob, Calls
<1>8. QED
  BY <1>3, <1>4, <1>5, <1>6, <1>7 DEF QueueInv

LEMMA ReadKeeps ==
  ASSUME QueueInv, ReadLine
  PROVE  QueueInv'
<1> DEFINE r == lines[1]
<1>1. /\ QueueTypes /\ lines \in Seq(Calls) /\ lines # <<>> /\ r \in Calls /\ pc[r] = "line"
      /\ lines' = Tail(lines) /\ "admission" \in Places /\ Moves(r, "admission")
      /\ UNCHANGED <<transport, answer, permits, waiters, owner, channel, worker, callers>>
  BY DEF ReadLine, QueueInv, LinesUnread, Moves, Places
<1>2. /\ pc' \in [Calls -> Places] /\ pc'[r] = "admission"
      /\ \A s \in Calls : s # r => pc'[s] = pc[s]
  BY <1>1, MoveEffect
<1> HIDE DEF r
<1>3. QueueTypes'
  BY <1>1, <1>2 DEF QueueTypes
<1>4. LinesUnread'
  <2>1. /\ lines' \in Seq(Calls) /\ DOMAIN lines' = 1..(Len(lines) - 1)
        /\ \A i \in DOMAIN lines' : lines'[i] = lines[i + 1] /\ i + 1 \in DOMAIN lines /\ i + 1 # 1
    BY <1>1
  <2>2. IsInjective(lines) /\ r = lines[1] /\ 1 \in DOMAIN lines
    BY <1>1 DEF QueueInv, LinesUnread, r
  <2>3. \A i \in DOMAIN lines' : lines'[i] \in Calls /\ lines'[i] # r /\ pc[lines'[i]] = "line"
    BY <1>1, <2>1, <2>2 DEF QueueInv, LinesUnread, IsInjective
  <2>4. IsInjective(lines')
    <3>1. SUFFICES ASSUME NEW i \in DOMAIN lines', NEW j \in DOMAIN lines', lines'[i] = lines'[j]
                   PROVE  i = j
      BY DEF IsInjective
    <3>2. i + 1 = j + 1 /\ i \in Nat /\ j \in Nat
      BY <1>1, <2>1, <2>2, <3>1 DEF IsInjective
    <3>3. QED
      BY <3>2
  <2>5. QED
    BY <1>1, <1>2, <2>1, <2>3, <2>4 DEF LinesUnread, QueueInv
<1>5. WaitersLock'
  BY <1>1, <1>2, QueueKept DEF QueueInv
<1>6. LanesBounded'
  BY <1>1, <1>2, LanesKept DEF QueueInv, LanesBounded
<1>7. GuardHasJob'
  BY <1>1, <1>2, QueueAssumption DEF QueueInv, QueueTypes, GuardHasJob, Calls
<1>8. QED
  BY <1>3, <1>4, <1>5, <1>6, <1>7 DEF QueueInv

LEMMA WriteKeeps ==
  ASSUME QueueInv, NEW r \in Calls, WriteResponse(r)
  PROVE  QueueInv'
<1>1. /\ QueueTypes /\ pc[r] = "ready" /\ "written" \in Places /\ Moves(r, "written")
      /\ callers' = callers \ {r}
      /\ UNCHANGED <<transport, lines, answer, permits, waiters, owner, channel, worker>>
  BY DEF WriteResponse, QueueInv, Moves, Places
<1>2. /\ pc' \in [Calls -> Places] /\ pc'[r] = "written"
      /\ \A s \in Calls : s # r => pc'[s] = pc[s]
  BY <1>1, MoveEffect
<1>3. QueueTypes'
  BY <1>1, <1>2 DEF QueueTypes
<1>4. LinesUnread' /\ WaitersLock'
  BY <1>1, <1>2, LinesKept, QueueKept DEF QueueInv
<1>5. LanesBounded'
  BY <1>1, <1>2, LanesKept DEF QueueInv, LanesBounded
<1>6. GuardHasJob'
  BY <1>1, <1>2, QueueAssumption DEF QueueInv, QueueTypes, GuardHasJob, Calls
<1>7. QED
  BY <1>3, <1>4, <1>5, <1>6 DEF QueueInv

-----------------------------------------------------------------------------
(* Admission and the two lanes.                                            *)

\* A permit is taken only while its lane has one left.
LEMMA PermitTaken ==
  ASSUME QueueTypes, LanesBounded, NEW r \in Calls, PermitFree(r), permits' = permits \cup {r},
         \A s \in Calls : pc'[s] \in {"lock", "lease"} => s \in permits'
  PROVE  LanesBounded' /\ IsFiniteSet(permits') /\ permits' \subseteq Calls
<1>1. IsFiniteSet(permits') /\ permits' \subseteq Calls
  BY FS_AddElement DEF QueueTypes
<1>2. ASSUME NEW lane
      PROVE  /\ IsFiniteSet(permits \cap lane) /\ Cardinality(permits \cap lane) \in Nat
             /\ r \in lane => Cardinality(permits' \cap lane) <= Cardinality(permits \cap lane) + 1
             /\ r \notin lane => permits' \cap lane = permits \cap lane
  <2>1. IsFiniteSet(permits \cap lane)
    BY FS_Subset DEF QueueTypes
  <2>2. Cardinality(permits \cap lane) \in Nat
    BY <2>1, FS_CardinalityType
  <2>3. CASE r \in lane
    <3>1. permits' \cap lane = (permits \cap lane) \cup {r}
      BY <2>3
    <3>2. Cardinality(permits' \cap lane) = Cardinality(permits \cap lane)
          \/ Cardinality(permits' \cap lane) = Cardinality(permits \cap lane) + 1
      BY <2>1, <3>1, FS_AddElement
    <3>3. QED
      BY <2>1, <2>2, <2>3, <3>2
  <2>4. CASE r \notin lane
    BY <2>1, <2>2, <2>4
  <2>5. QED
    BY <2>3, <2>4
<1>3. CASE r \in LeaseCalls
  <2>1. r \notin MemoryCalls /\ Cardinality(permits \cap LeaseCalls) < QueueLimit
    BY <1>3, QueueAssumption DEF PermitFree, Lane
  <2>2. Cardinality(permits' \cap LeaseCalls) <= QueueLimit
    <3>1. Cardinality(permits \cap LeaseCalls) \in Nat
      BY <1>2
    <3>2. Cardinality(permits' \cap LeaseCalls) \in Nat
      BY <1>1, FS_Subset, FS_CardinalityType
    <3>3. Cardinality(permits' \cap LeaseCalls) <= Cardinality(permits \cap LeaseCalls) + 1
      BY <1>2, <1>3
    <3>4. QED
      BY <2>1, <3>1, <3>2, <3>3, QueueAssumption
  <2>3. permits' \cap MemoryCalls = permits \cap MemoryCalls
    BY <1>2, <2>1
  <2>4. QED
    BY <1>1, <2>2, <2>3 DEF LanesBounded
<1>4. CASE r \notin LeaseCalls
  <2>1. r \in MemoryCalls /\ Cardinality(permits \cap MemoryCalls) < QueueLimit
    BY <1>4 DEF PermitFree, Lane, Calls
  <2>2. Cardinality(permits' \cap MemoryCalls) <= QueueLimit
    <3>1. Cardinality(permits \cap MemoryCalls) \in Nat
      BY <1>2
    <3>2. Cardinality(permits' \cap MemoryCalls) \in Nat
      BY <1>1, FS_Subset, FS_CardinalityType
    <3>3. Cardinality(permits' \cap MemoryCalls) <= Cardinality(permits \cap MemoryCalls) + 1
      BY <1>2, <2>1
    <3>4. QED
      BY <2>1, <3>1, <3>2, <3>3, QueueAssumption
  <2>3. permits' \cap LeaseCalls = permits \cap LeaseCalls
    BY <1>2, <1>4
  <2>4. QED
    BY <1>1, <2>2, <2>3 DEF LanesBounded
<1>5. QED
  BY <1>3, <1>4

\* A request that begins to wait takes the last place of the queue.
LEMMA WaiterJoins ==
  ASSUME WaitersLock, NEW r \in MemoryCalls, pc[r] # "lock", pc'[r] = "lock",
         waiters' = Append(waiters, r), \A s \in Calls : s # r => pc'[s] = pc[s]
  PROVE  WaitersLock'
<1>1. waiters \in Seq(MemoryCalls) /\ r \in Calls
  BY DEF WaitersLock, Calls
<1>2. /\ waiters' \in Seq(MemoryCalls) /\ DOMAIN waiters' = DOMAIN waiters \cup {Len(waiters) + 1}
      /\ Len(waiters) + 1 \notin DOMAIN waiters
      /\ waiters'[Len(waiters) + 1] = r /\ \A i \in DOMAIN waiters : waiters'[i] = waiters[i]
  BY <1>1
<1>3. ToSet(waiters') = ToSet(waiters) \cup {r}
  BY <1>2 DEF ToSet
<1>4. r \notin ToSet(waiters)
  BY DEF WaitersLock
<1>5. IsInjective(waiters')
  BY <1>2, <1>4 DEF WaitersLock, IsInjective, ToSet
<1>6. ToSet(waiters') = {s \in Calls : pc'[s] = "lock"}
  BY <1>1, <1>3 DEF WaitersLock
<1>7. QED
  BY <1>2, <1>5, <1>6 DEF WaitersLock

LEMMA AdmitKeeps ==
  ASSUME QueueInv, NEW r \in Calls, AdmitCall(r)
  PROVE  QueueInv'
<1>1. /\ QueueTypes /\ pc[r] = "admission"
      /\ UNCHANGED <<transport, lines, owner, channel, worker, callers>>
  BY DEF AdmitCall, QueueInv
<1>2. CASE PermitFree(r)
  <2> DEFINE x == IF r \in LeaseCalls THEN "lease" ELSE "lock"
  <2>1. /\ permits' = permits \cup {r} /\ answer' = answer /\ x \in Places /\ Moves(r, x)
        /\ waiters' = IF r \in LeaseCalls THEN waiters ELSE Append(waiters, r)
    BY <1>2 DEF AdmitCall, Moves, Places
  <2>2. /\ pc' \in [Calls -> Places] /\ pc'[r] = x /\ \A s \in Calls : s # r => pc'[s] = pc[s]
    BY <1>1, <2>1, MoveEffect
  <2>3. LanesBounded' /\ IsFiniteSet(permits') /\ permits' \subseteq Calls
    <3>1. \A s \in Calls : pc'[s] \in {"lock", "lease"} => s \in permits'
      BY <2>1, <2>2 DEF QueueInv, LanesBounded
    <3>2. QED
      BY <1>1, <1>2, <2>1, <3>1, PermitTaken DEF QueueInv
  <2>4. QueueTypes'
    BY <1>1, <2>1, <2>2, <2>3 DEF QueueTypes
  <2>5. LinesUnread'
    BY <1>1, <2>2, LinesKept DEF QueueInv
  <2>6. WaitersLock'
    <3>1. CASE r \in LeaseCalls
      BY <1>1, <2>1, <2>2, <3>1, QueueKept DEF QueueInv
    <3>2. CASE r \notin LeaseCalls
      <4>1. r \in MemoryCalls /\ pc'[r] = "lock" /\ waiters' = Append(waiters, r)
        BY <2>1, <2>2, <3>2 DEF Calls
      <4>2. QED
        BY <1>1, <2>2, <4>1, WaiterJoins DEF QueueInv
    <3>3. QED
      BY <3>1, <3>2
  <2>7. GuardHasJob'
    BY <1>1, <2>1, <2>2, QueueAssumption DEF QueueInv, QueueTypes, GuardHasJob, Calls
  <2>8. QED
    BY <2>3, <2>4, <2>5, <2>6, <2>7 DEF QueueInv
<1>3. CASE ~PermitFree(r)
  <2>1. /\ permits' = permits /\ waiters' = waiters /\ "ready" \in Places /\ Moves(r, "ready")
        /\ answer' = [answer EXCEPT ![r] = "busy"]
    BY <1>3 DEF AdmitCall, Answered, Moves, Places
  <2>2. /\ pc' \in [Calls -> Places] /\ pc'[r] = "ready" /\ \A s \in Calls : s # r => pc'[s] = pc[s]
    BY <1>1, <2>1, MoveEffect
  <2>3. QueueTypes'
    BY <1>1, <2>1, <2>2 DEF QueueTypes, Answers
  <2>4. LinesUnread' /\ WaitersLock'
    BY <1>1, <2>1, <2>2, LinesKept, QueueKept DEF QueueInv
  <2>5. LanesBounded'
    BY <1>1, <2>1, <2>2, LanesKept DEF QueueInv, LanesBounded
  <2>6. GuardHasJob'
    BY <1>1, <2>1, <2>2, QueueAssumption DEF QueueInv, QueueTypes, GuardHasJob, Calls
  <2>7. QED
    BY <2>3, <2>4, <2>5, <2>6 DEF QueueInv
<1>4. QED
  BY <1>2, <1>3

LEMMA LeaseKeeps ==
  ASSUME QueueInv, NEW r \in Calls, FinishLease(r)
  PROVE  QueueInv'
<1>1. /\ QueueTypes /\ pc[r] = "lease" /\ "ready" \in Places /\ Moves(r, "ready")
      /\ answer' = [answer EXCEPT ![r] = "value"] /\ permits' = permits \ {r}
      /\ UNCHANGED <<transport, lines, waiters, owner, channel, worker, callers>>
  BY DEF FinishLease, Answered, QueueInv, Moves, Places
<1>2. /\ pc' \in [Calls -> Places] /\ pc'[r] = "ready" /\ \A s \in Calls : s # r => pc'[s] = pc[s]
  BY <1>1, MoveEffect
<1>3. LanesBounded' /\ IsFiniteSet(permits')
  BY <1>1, <1>2, LanesKept DEF QueueInv, LanesBounded
<1>4. QueueTypes'
  BY <1>1, <1>2, <1>3 DEF QueueTypes, Answers
<1>5. LinesUnread' /\ WaitersLock'
  BY <1>1, <1>2, LinesKept, QueueKept DEF QueueInv
<1>6. GuardHasJob'
  BY <1>1, <1>2, QueueAssumption DEF QueueInv, QueueTypes, GuardHasJob, Calls
<1>7. QED
  BY <1>3, <1>4, <1>5, <1>6 DEF QueueInv

-----------------------------------------------------------------------------
(* The runtime mutex and the memory thread.                                *)

\* The first waiter leaves the queue.
LEMMA WaiterServed ==
  ASSUME WaitersLock, NEW r \in Calls, waiters # <<>>, r = waiters[1], pc'[r] # "lock",
         waiters' = Tail(waiters), \A s \in Calls : s # r => pc'[s] = pc[s]
  PROVE  WaitersLock'
<1>1. waiters \in Seq(MemoryCalls) /\ 1 \in DOMAIN waiters /\ IsInjective(waiters)
  BY DEF WaitersLock
<1>2. /\ waiters' \in Seq(MemoryCalls) /\ DOMAIN waiters' = 1..(Len(waiters) - 1)
      /\ \A i \in DOMAIN waiters' : waiters'[i] = waiters[i + 1] /\ i + 1 \in DOMAIN waiters
  BY <1>1
<1>3. IsInjective(waiters')
  <2>1. SUFFICES ASSUME NEW i \in DOMAIN waiters', NEW j \in DOMAIN waiters', waiters'[i] = waiters'[j]
                 PROVE  i = j
    BY DEF IsInjective
  <2>2. i + 1 = j + 1 /\ i \in Nat /\ j \in Nat
    BY <1>1, <1>2, <2>1 DEF IsInjective
  <2>3. QED
    BY <2>2
<1>4. ToSet(waiters') = ToSet(waiters) \ {r}
  <2>1. ASSUME NEW i \in DOMAIN waiters' PROVE waiters'[i] \in ToSet(waiters) \ {r}
    BY <1>1, <1>2 DEF IsInjective, ToSet
  <2>2. ASSUME NEW i \in DOMAIN waiters, waiters[i] # r PROVE waiters[i] \in ToSet(waiters')
    <3>1. i - 1 \in DOMAIN waiters' /\ (i - 1) + 1 = i
      BY <1>1, <1>2, <2>2
    <3>2. waiters'[i - 1] = waiters[i]
      BY <1>2, <3>1
    <3>3. QED
      BY <3>1, <3>2 DEF ToSet
  <2>3. QED
    BY <2>1, <2>2 DEF ToSet
<1>5. QED
  BY <1>2, <1>3, <1>4 DEF WaitersLock

LEMMA LockKeeps ==
  ASSUME QueueInv, LockRuntime
  PROVE  QueueInv'
<1>1. PICK r \in Calls : r = waiters[1] /\ pc[r] = "lock" /\ r \in MemoryCalls /\ r \in permits
  <2>1. /\ waiters # <<>> /\ waiters \in Seq(MemoryCalls) /\ 1 \in DOMAIN waiters
    BY DEF LockRuntime, QueueInv, WaitersLock
  <2>2. waiters[1] \in ToSet(waiters) /\ waiters[1] \in MemoryCalls
    BY <2>1 DEF ToSet
  <2>3. QED
    BY <2>2 DEF QueueInv, WaitersLock, LanesBounded
<1>2. /\ QueueTypes /\ owner = NoCall /\ waiters # <<>> /\ waiters' = Tail(waiters)
      /\ UNCHANGED <<transport, lines, worker, callers>> /\ channel = <<>>
  BY DEF LockRuntime, QueueInv, GuardHasJob
<1>3. /\ owner' = r /\ channel' = <<r>> /\ Moves(r, "job") /\ "job" \in Places
      /\ UNCHANGED <<answer, permits>>
  BY <1>1, <1>2 DEF LockRuntime, Moves, Places
<1>4. /\ pc' \in [Calls -> Places] /\ pc'[r] = "job" /\ \A s \in Calls : s # r => pc'[s] = pc[s]
  BY <1>2, <1>3, MoveEffect
<1>5. QueueTypes'
  BY <1>1, <1>2, <1>3, <1>4 DEF QueueTypes
<1>6. LinesUnread'
  BY <1>1, <1>2, <1>4, LinesKept DEF QueueInv
<1>7. WaitersLock'
  BY <1>1, <1>2, <1>4, WaiterServed DEF QueueInv
<1>8. LanesBounded'
  BY <1>2, <1>3, <1>4, LanesKept DEF QueueInv, LanesBounded
<1>9. GuardHasJob'
  <2>1. r # NoCall /\ worker # r
    BY <1>1, QueueAssumption DEF QueueInv, GuardHasJob
  <2>2. worker # NoCall => worker \in Calls
    BY <1>2 DEF QueueTypes, Calls
  <2>3. worker # NoCall => pc'[worker] \in {"job", "released", "dropped"}
    BY <1>4, <2>1, <2>2 DEF QueueInv, GuardHasJob
  <2>4. QED
    BY <1>1, <1>2, <1>3, <1>4, <2>1, <2>3 DEF GuardHasJob
<1>10. QED
  BY <1>5, <1>6, <1>7, <1>8, <1>9 DEF QueueInv

LEMMA TakeKeeps ==
  ASSUME QueueInv, TakeJob
  PROVE  QueueInv'
<1>1. /\ QueueTypes /\ worker = NoCall /\ channel = <<owner>> /\ owner # NoCall /\ owner \in Calls
      /\ channel' = <<>> /\ UNCHANGED <<transport, lines, pc, answer, waiters, callers>>
      /\ owner \in permits /\ pc[owner] \in {"job", "dropped"}
  <2>1. /\ worker = NoCall /\ channel # <<>> /\ channel' = Tail(channel)
        /\ UNCHANGED <<transport, lines, pc, answer, waiters, callers>>
    BY DEF TakeJob
  <2>2. /\ channel = <<owner>> /\ owner # NoCall
        /\ owner \in permits /\ pc[owner] \in {"job", "dropped"}
    BY <2>1 DEF QueueInv, GuardHasJob
  <2>3. QueueTypes /\ owner \in Calls
    BY <2>2 DEF QueueInv, QueueTypes, Calls
  <2>4. QED
    BY <2>1, <2>2, <2>3
<1>2. \/ owner \in callers /\ worker' = owner /\ UNCHANGED <<owner, permits>>
      \/ owner \notin callers /\ owner' = NoCall /\ permits' = permits \ {owner} /\ worker' = worker
  BY <1>1 DEF TakeJob
<1>3. LanesBounded' /\ IsFiniteSet(permits')
  <2>1. /\ permits' \subseteq permits
        /\ \A s \in Calls : pc'[s] \in {"lock", "lease"} => s \in permits'
    BY <1>1, <1>2 DEF QueueInv, LanesBounded
  <2>2. QED
    BY <1>1, <2>1, LanesKept DEF QueueInv
<1>4. QueueTypes'
  BY <1>1, <1>2, <1>3 DEF QueueTypes
<1>5. LinesUnread' /\ WaitersLock'
  BY <1>1 DEF QueueInv, LinesUnread, WaitersLock
<1>6. GuardHasJob'
  BY <1>1, <1>2 DEF GuardHasJob
<1>7. QED
  BY <1>3, <1>4, <1>5, <1>6 DEF QueueInv

LEMMA EndKeeps ==
  ASSUME QueueInv, NEW r \in Calls, NEW a \in {"value", "panicked"}, EndJob(r, a)
  PROVE  QueueInv'
<1>1. /\ QueueTypes /\ worker = r /\ owner = r /\ r # NoCall
      /\ owner' = NoCall /\ permits' = permits \ {r}
      /\ UNCHANGED <<transport, lines, waiters, channel, worker, callers>>
      /\ channel = <<>> /\ pc[r] \in {"job", "dropped"}
  BY QueueAssumption DEF EndJob, QueueInv, GuardHasJob, Calls
<1>2. /\ answer' = IF r \in callers THEN [answer EXCEPT ![r] = a] ELSE answer
      /\ pc' = IF r \in callers THEN [pc EXCEPT ![r] = "released"] ELSE pc
  BY DEF EndJob
<1>3. /\ pc' \in [Calls -> Places] /\ pc'[r] \in {"job", "released", "dropped"}
      /\ \A s \in Calls : s # r => pc'[s] = pc[s]
  BY <1>1, <1>2 DEF QueueTypes, Places
<1>4. LanesBounded' /\ IsFiniteSet(permits')
  <2>1. /\ permits' \subseteq permits
        /\ \A s \in Calls : pc'[s] \in {"lock", "lease"} => s \in permits'
    BY <1>1, <1>3 DEF QueueInv, LanesBounded
  <2>2. QED
    BY <1>1, <2>1, LanesKept DEF QueueInv
<1>5. QueueTypes'
  BY <1>1, <1>2, <1>3, <1>4 DEF QueueTypes, Answers
<1>6. LinesUnread' /\ WaitersLock'
  BY <1>1, <1>3, LinesKept, QueueKept DEF QueueInv
<1>7. GuardHasJob'
  BY <1>1, <1>3 DEF GuardHasJob
<1>8. QED
  BY <1>4, <1>5, <1>6, <1>7 DEF QueueInv

LEMMA ReplyKeeps ==
  ASSUME QueueInv, NEW r \in Calls, Reply(r)
  PROVE  QueueInv'
<1>1. /\ QueueTypes /\ worker = r /\ owner # r /\ worker' = NoCall /\ r # NoCall
      /\ UNCHANGED <<transport, lines, answer, permits, waiters, owner, channel, callers>>
      /\ pc[r] \in {"job", "released", "dropped"}
      /\ pc' = IF pc[r] = "released" THEN [pc EXCEPT ![r] = "ready"] ELSE pc
  BY QueueAssumption DEF Reply, WorkerAfter, QueueInv, GuardHasJob, Calls
<1>2. /\ pc' \in [Calls -> Places] /\ pc'[r] \in {"job", "ready", "dropped"}
      /\ \A s \in Calls : s # r => pc'[s] = pc[s]
  BY <1>1 DEF QueueTypes, Places
<1>3. QueueTypes'
  BY <1>1, <1>2 DEF QueueTypes
<1>4. LinesUnread' /\ WaitersLock'
  BY <1>1, <1>2, LinesKept, QueueKept DEF QueueInv
<1>5. LanesBounded'
  BY <1>1, <1>2, LanesKept DEF QueueInv, LanesBounded
<1>6. GuardHasJob'
  <2>1. owner # NoCall => owner \in Calls /\ channel = <<owner>>
    BY <1>1 DEF QueueInv, QueueTypes, GuardHasJob, Calls
  <2>2. QED
    BY <1>1, <1>2, <2>1 DEF QueueInv, GuardHasJob
<1>7. QED
  BY <1>3, <1>4, <1>5, <1>6 DEF QueueInv

-----------------------------------------------------------------------------
(* A caller that leaves.                                                   *)

\* Its place in the queue goes, and the others keep their order.
LEMMA WaiterLeaves ==
  ASSUME WaitersLock, NEW r \in Calls, waiters' = WaitersWithout(r), pc'[r] # "lock",
         \A s \in Calls : s # r => pc'[s] = pc[s]
  PROVE  WaitersLock'
<1>1. waiters \in Seq(MemoryCalls) /\ IsInjective(waiters)
  BY DEF WaitersLock
<1>2. CASE r \notin ToSet(waiters)
  <2>1. waiters' = waiters /\ pc[r] # "lock"
    BY <1>2 DEF WaitersWithout, WaitersLock
  <2>2. QED
    BY <2>1, QueueKept
<1>3. CASE r \in ToSet(waiters)
  <2> DEFINE k == CHOOSE i \in DOMAIN waiters : waiters[i] = r
  <2>1. k \in DOMAIN waiters /\ waiters[k] = r
    BY <1>3 DEF ToSet
  <2>2. waiters' = SubSeq(waiters, 1, k - 1) \o SubSeq(waiters, k + 1, Len(waiters))
    BY <1>3 DEF WaitersWithout, RemoveAt
  <2> HIDE DEF k
  <2>3. PICK n \in Nat : n = Len(waiters)
    BY <1>1
  <2>4. k \in 1..n /\ DOMAIN waiters = 1..n
    BY <1>1, <2>1, <2>3
  <2> DEFINE front == SubSeq(waiters, 1, k - 1)
             back == SubSeq(waiters, k + 1, n)
  <2>5. /\ front \in Seq(MemoryCalls) /\ Len(front) = k - 1
        /\ \A i \in 1..(k - 1) : front[i] = waiters[i]
    BY <1>1, <2>3, <2>4
  <2>6. /\ back \in Seq(MemoryCalls) /\ Len(back) = n - k
        /\ \A i \in 1..(n - k) : back[i] = waiters[i + k]
    BY <1>1, <2>3, <2>4
  <2>7. waiters' = front \o back
    BY <2>2, <2>3
  <2> HIDE DEF front, back
  <2>8. /\ waiters' \in Seq(MemoryCalls) /\ DOMAIN waiters' = 1..(n - 1)
        /\ \A i \in 1..(n - 1) : waiters'[i] = IF i < k THEN waiters[i] ELSE waiters[i + 1]
    <3>1. waiters' \in Seq(MemoryCalls) /\ Len(waiters') = n - 1
      <4>1. waiters' \in Seq(MemoryCalls) /\ Len(waiters') = Len(front) + Len(back)
        <5>1. front \in Seq(MemoryCalls) /\ back \in Seq(MemoryCalls)
          BY <2>5, <2>6
        <5>2. front \o back \in Seq(MemoryCalls) /\ Len(front \o back) = Len(front) + Len(back)
          BY ONLY <5>1
        <5>3. QED
          BY ONLY <5>2, <2>7
      <4>2. QED
        BY <2>4, <2>5, <2>6, <4>1
    <3>2. ASSUME NEW i \in 1..(n - 1)
          PROVE waiters'[i] = IF i < k THEN waiters[i] ELSE waiters[i + 1]
      <4>1. CASE i < k
        BY <2>4, <2>5, <2>6, <2>7, <4>1
      <4>2. CASE ~(i < k)
        <5>1. waiters'[i] = back[i - (k - 1)] /\ i - (k - 1) \in 1..(n - k)
          BY <2>4, <2>5, <2>6, <2>7, <4>2
        <5>2. QED
          BY <2>4, <2>6, <4>2, <5>1
      <4>3. QED
        BY <4>1, <4>2
    <3>3. QED
      BY <2>4, <3>1, <3>2
  <2>9. IsInjective(waiters')
    <3>1. SUFFICES ASSUME NEW i \in 1..(n - 1), NEW j \in 1..(n - 1), waiters'[i] = waiters'[j]
                   PROVE i = j
      BY <2>8 DEF IsInjective
    <3> DEFINE at(l) == IF l < k THEN l ELSE l + 1
    <3>2. at(i) \in 1..n /\ at(j) \in 1..n /\ waiters[at(i)] = waiters[at(j)]
      BY <2>4, <2>8, <3>1
    <3>3. at(i) = at(j)
      BY <1>1, <2>4, <3>2 DEF IsInjective
    <3>4. QED
      BY <2>4, <3>3
  <2>10. ToSet(waiters') = ToSet(waiters) \ {r}
    <3>1. ASSUME NEW i \in 1..(n - 1) PROVE waiters'[i] \in ToSet(waiters) \ {r}
      <4> DEFINE j == IF i < k THEN i ELSE i + 1
      <4>1. j \in 1..n /\ j # k /\ waiters'[i] = waiters[j]
        BY <2>4, <2>8
      <4>2. waiters[j] # r
        BY <1>1, <2>1, <2>4, <4>1 DEF IsInjective
      <4>3. QED
        BY <2>4, <4>1, <4>2 DEF ToSet
    <3>2. ASSUME NEW j \in 1..n, waiters[j] # r PROVE waiters[j] \in ToSet(waiters')
      <4> DEFINE i == IF j < k THEN j ELSE j - 1
      <4>1. j # k
        BY <2>1, <3>2
      <4>2. i \in 1..(n - 1) /\ waiters'[i] = waiters[j]
        BY <2>4, <2>8, <4>1
      <4>3. QED
        BY <2>8, <4>2 DEF ToSet
    <3>3. QED
      BY <2>4, <2>8, <3>1, <3>2 DEF ToSet
  <2>11. QED
    BY <2>8, <2>9, <2>10 DEF WaitersLock
<1>4. QED
  BY <1>2, <1>3

LEMMA DropKeeps ==
  ASSUME QueueInv, NEW r \in Calls, DropCaller(r)
  PROVE  QueueInv'
<1>1. /\ QueueTypes /\ transport = "http" /\ callers' = callers \ {r} /\ "dropped" \in Places
      /\ Moves(r, "dropped") /\ answer' = [answer EXCEPT ![r] = "none"] /\ waiters' = WaitersWithout(r)
      /\ permits' = (IF pc[r] \in {"lease", "lock"} THEN permits \ {r} ELSE permits)
      /\ UNCHANGED <<transport, lines, channel, worker>>
  BY DEF DropCaller, Owns, QueueInv, Moves, Places
<1>2. /\ pc' \in [Calls -> Places] /\ pc'[r] = "dropped" /\ \A s \in Calls : s # r => pc'[s] = pc[s]
  BY <1>1, MoveEffect
<1>3. owner' = owner
  <2>1. owner = r /\ r # NoCall => pc[r] \notin {"lease", "lock"}
    BY DEF QueueInv, GuardHasJob
  <2>2. QED
    BY <2>1, QueueAssumption DEF DropCaller, Owns, Calls
<1>4. LanesBounded' /\ IsFiniteSet(permits')
  <2>1. /\ permits' \subseteq permits
        /\ \A s \in Calls : pc'[s] \in {"lock", "lease"} => s \in permits'
    BY <1>1, <1>2 DEF QueueInv, LanesBounded
  <2>2. QED
    BY <1>1, <2>1, LanesKept DEF QueueInv
<1>5. QueueTypes'
  BY <1>1, <1>2, <1>3, <1>4 DEF QueueTypes, Answers
<1>6. LinesUnread'
  BY <1>1 DEF QueueInv, LinesUnread
<1>7. WaitersLock'
  BY <1>1, <1>2, WaiterLeaves DEF QueueInv
<1>8. GuardHasJob'
  <2>1. ASSUME owner # NoCall
        PROVE  /\ owner \in permits' /\ pc'[owner] \in {"job", "dropped"}
               /\ (worker = owner <=> channel = <<>>)
    <3>1. owner \in Calls /\ owner \in permits /\ pc[owner] \in {"job", "dropped"}
      BY <1>1, <2>1 DEF QueueInv, QueueTypes, GuardHasJob, Calls
    <3>2. QED
      BY <1>1, <1>2, <2>1, <3>1 DEF QueueInv, GuardHasJob
  <2>2. ASSUME worker # NoCall PROVE pc'[worker] \in {"job", "released", "dropped"}
    <3>1. worker \in Calls /\ pc[worker] \in {"job", "released", "dropped"}
      BY <1>1, <2>2 DEF QueueInv, QueueTypes, GuardHasJob, Calls
    <3>2. QED
      BY <1>2, <3>1
  <2>3. channel = <<>> \/ (owner # NoCall /\ channel = <<owner>>)
    BY DEF QueueInv, GuardHasJob
  <2>4. QED
    BY <1>1, <1>3, <2>1, <2>2, <2>3 DEF GuardHasJob
<1>9. QED
  BY <1>4, <1>5, <1>6, <1>7, <1>8 DEF QueueInv

-----------------------------------------------------------------------------
THEOREM QueueInvHolds == QueueSpec => []QueueInv
<1>1. QueueInit => QueueInv
  <2> SUFFICES ASSUME QueueInit PROVE QueueInv
    OBVIOUS
  <2>1. QueueTypes
    BY FS_EmptySet DEF QueueInit, QueueTypes, Places, Answers
  <2>2. LinesUnread
    BY DEF QueueInit, LinesUnread, IsInjective
  <2>3. WaitersLock
    BY DEF QueueInit, WaitersLock, IsInjective, ToSet
  <2>4. LanesBounded
    <3>1. permits \cap MemoryCalls = {} /\ permits \cap LeaseCalls = {}
      BY DEF QueueInit
    <3>2. QED
      BY <3>1, FS_EmptySet, QueueAssumption DEF QueueInit, LanesBounded
  <2>5. GuardHasJob
    BY DEF QueueInit, GuardHasJob
  <2>6. QED
    BY <2>1, <2>2, <2>3, <2>4, <2>5 DEF QueueInv
<1>2. QueueInv /\ [QueueNext]_queueVars => QueueInv'
  <2> SUFFICES ASSUME QueueInv, [QueueNext]_queueVars PROVE QueueInv'
    OBVIOUS
  <2>1. CASE UNCHANGED queueVars
    BY <2>1
    DEF queueVars, QueueInv, QueueTypes, LinesUnread, WaitersLock, LanesBounded, GuardHasJob
  <2>2. CASE QueueNext
    BY <2>2, SendKeeps, ReadKeeps, WriteKeeps, AdmitKeeps, LeaseKeeps, LockKeeps, TakeKeeps,
       EndKeeps,
       ReplyKeeps, DropKeeps DEF QueueNext
  <2>3. QED
    BY <2>1, <2>2
<1>3. QED
  BY <1>1, <1>2, PTL DEF QueueSpec

\* For any calls and any limit, over stdio and over HTTP, whoever disconnects when: the mutex queue
\* has each waiting request once, work under way holds its permits and stays below the limit, and
\* the channel of the memory thread is never full when a job is sent (dispatch_tool, MemoryExecutor).
THEOREM AdmissionAlwaysHolds == QueueSpec => []AdmissionHolds
<1>1. QueueInv => AdmissionHolds
  <2> SUFFICES ASSUME QueueInv PROVE AdmissionHolds
    OBVIOUS
  <2>1. QueueTypeOK
    <3>1. Len(channel) <= 1
      <4>1. channel = <<>> \/ channel = <<owner>>
        BY DEF QueueInv, GuardHasJob
      <4>2. QED
        BY <4>1
    <3>2. QED
      BY <3>1 DEF QueueInv, QueueTypes, WaitersLock, QueueTypeOK
  <2>2. WorkIsBounded
    <3> DEFINE busy == ToSet(waiters) \cup ToSet(channel) \cup {r \in {worker} \ {NoCall} : owner = r}
    <3>1. ToSet(waiters) \subseteq permits \cap MemoryCalls
      <4>1. ToSet(waiters) \subseteq MemoryCalls
        BY DEF QueueInv, WaitersLock, ToSet
      <4>2. QED
        BY <4>1 DEF QueueInv, WaitersLock, LanesBounded
    <3>2. owner # NoCall => owner \in permits \cap MemoryCalls
      BY DEF QueueInv, QueueTypes, GuardHasJob
    <3>3. ToSet(channel) \subseteq permits \cap MemoryCalls
      <4>1. CASE channel = <<>>
        BY <4>1 DEF ToSet
      <4>2. CASE channel # <<>>
        BY <3>2, <4>2 DEF QueueInv, GuardHasJob, ToSet
      <4>3. QED
        BY <4>1, <4>2
    <3>4. busy \subseteq permits \cap MemoryCalls
      BY <3>1, <3>2, <3>3
    <3>5. IsFiniteSet(permits \cap MemoryCalls)
      BY FS_Subset DEF QueueInv, QueueTypes
    <3>6. IsFiniteSet(busy) /\ Cardinality(busy) <= Cardinality(permits \cap MemoryCalls)
      BY <3>4, <3>5, FS_Subset
    <3>7. Cardinality(busy) \in Nat /\ Cardinality(permits \cap MemoryCalls) \in Nat
      BY <3>5, <3>6, FS_CardinalityType
    <3>8. Cardinality(busy) <= QueueLimit
      BY <3>6, <3>7, QueueAssumption DEF QueueInv, LanesBounded
    <3>9. QED
      BY <3>4, <3>8 DEF WorkIsBounded
  <2>3. ChannelNeverFull
    BY DEF QueueInv, QueueTypes, ChannelNeverFull
  <2>4. QED
    BY <2>1, <2>2, <2>3 DEF AdmissionHolds
<1>2. QED
  BY <1>1, QueueInvHolds, PTL

-----------------------------------------------------------------------------
(* Mining.  Whoever works on a source is alone with it, so what its rows   *)
(* are between two steps follows from where that process is; if it stops,  *)
(* the staged effect still names every id it may have left behind.         *)

\* At work on the source: under the file lock, or in a local mine.
Working(p)  == Storing(p) /\ ~On(p, "waiting")
Applying(p) == Working(p) /\ ~On(p, "locked")

\* An effect waits to be applied; it is the last one.
Staging == staged # <<>> /\ LastEffect.state = "staged"

RowsOf(v)    == {<<i, v>> : i \in Chunked(v)}
Committed(r) == runOf[r].status = "committed"

\* Without the order of the locks, which OneMiner states.
MineTypes ==
  /\ replicated \in BOOLEAN /\ disk \in Contents
  /\ drawers \subseteq Ids \X FileVersions
  /\ record \in Contents
  /\ runOf \in [MineRuns -> [status  : {"none", "pending", "stale", "committed", "failed"},
                             version : FileVersions]]
  /\ staged \in Seq(Effect) /\ Len(staged) <= MaxEffects
  /\ holder \in Miners \cup {NoOne}
  /\ miner \in [Miners -> MinerState]
  /\ mineFaults \in 0..MaxMineFaults

\* Nobody opens the palace while somebody stores; who holds the lock is the only one at work; a
\* local mine has neither lock nor journal, and its process is the only one.
OneMiner ==
  /\ \A p, q \in Miners : Opening(p) => ~Storing(q)
  /\ replicated => \A p \in Miners : Working(p) <=> holder = p
  /\ ~replicated =>
       /\ holder = NoOne /\ staged = <<>>
       /\ \A p \in Miners : /\ miner[p].pc \notin {"waiting", "locked", "activating"}
                            /\ miner[p].effect = 0
       /\ \A p, q \in Miners : ~On(p, "down") /\ ~On(q, "down") => p = q

\* The run being written is the last one; a reconciliation lists runs that nobody will commit, and
\* the ids it spares stay the committed ones while it lasts.
RunsInOrder ==
  \A p \in Miners :
    /\ miner[p].pc \in {"clearing", "adding", "committing"} =>
         /\ miner[p].run \in MineRuns
         /\ runOf[miner[p].run].status = "pending" /\ runOf[miner[p].run].version = miner[p].apply
         /\ \A r \in MineRuns : r > miner[p].run => runOf[r].status = "none"
    /\ miner[p].pc \in {"reading", "pruning", "marking"} =>
         \A r \in miner[p].stale : runOf[r].status \in {"stale", "failed"}
    /\ On(p, "pruning") => \A r \in MineRuns : Committed(r) => IdsOf(r) \subseteq miner[p].known

\* The version recorded is that of the latest committed run.
RecordIsLatest ==
  IF record = Gone
    THEN \A r \in MineRuns : ~Committed(r)
    ELSE \E r \in MineRuns : /\ Committed(r) /\ runOf[r].version = record
                             /\ \A x \in MineRuns : Committed(x) => x <= r

\* What a miner applies is the effect staged last.
Targets ==
  \A p \in Miners :
    /\ Applying(p) /\ replicated =>
         /\ Staging /\ miner[p].effect = Len(staged) /\ miner[p].apply = LastEffect.version
    /\ miner[p].pc \in {"capturing", "creating", "clearing", "adding", "committing"} =>
         miner[p].apply # Gone
    /\ miner[p].pc \in {"removing", "forgetting"} => miner[p].apply = Gone
    /\ miner[p].pc \in {"sweeping", "activating"} => record = miner[p].apply

JournalInOrder ==
  /\ \A i \in DOMAIN staged : i < Len(staged) => staged[i].state # "staged"
  /\ staged # <<>> /\ ~Staging => record = LastEffect.version

\* Every row has an id that the effect at hand will clean up or keep.
RowsInReach ==
  /\ Staging => \A d \in drawers : d[1] \in LastEffect.previous \cup Chunked(LastEffect.version)
  /\ ~replicated /\ mineFaults = 0 =>
       \A p \in Miners :
         miner[p].pc \in {"creating", "clearing", "adding", "committing", "sweeping"} =>
           \A d \in drawers : d[1] \in miner[p].existing \cup Chunked(miner[p].apply)

RowsSound ==
  \A p \in Miners :
    /\ On(p, "adding") => \A d \in drawers : d[1] \notin Chunked(miner[p].apply)
    /\ miner[p].pc \in {"committing", "sweeping"} =>
         /\ RowsOf(miner[p].apply) \subseteq drawers
         /\ \A d \in drawers : d[1] \in Chunked(miner[p].apply) => d[2] = miner[p].apply
    /\ On(p, "activating") => drawers = RowsOf(record)
    /\ On(p, "forgetting") /\ ~replicated /\ mineFaults = 0 => drawers = {}

StoredAtRest ==
  /\ replicated /\ ~Staging => drawers = RowsOf(record)
  /\ ~replicated /\ mineFaults = 0 /\
     (\A p \in Miners : miner[p].pc \notin {"adding", "committing", "sweeping", "forgetting"})
       => drawers = RowsOf(record)

MineInv ==
  /\ MineTypes /\ OneMiner /\ RunsInOrder /\ RecordIsLatest /\ Targets /\ JournalInOrder
  /\ RowsInReach /\ RowsSound /\ StoredAtRest

\* What becomes of a process.
LEMMA MinerBecomes ==
  ASSUME MineTypes, NEW p \in Miners, NEW row \in MinerState,
         miner' = [miner EXCEPT ![p] = row]
  PROVE  /\ miner' \in [Miners -> MinerState] /\ miner'[p] = row
         /\ \A q \in Miners : q # p => miner'[q] = miner[q]
BY DEF MineTypes

LEMMA MinerSteps ==
  ASSUME MineTypes, NEW p \in Miners,
         NEW x \in {"down", "listing", "reading", "pruning", "marking", "ready", "waiting", "locked",
                   "capturing", "creating", "clearing", "adding", "committing", "sweeping",
                   "removing", "forgetting", "activating"},
         Step(p, x)
  PROVE  /\ miner' \in [Miners -> MinerState]
         /\ \A q \in Miners : q # p => miner'[q] = miner[q]
         /\ miner'[p].pc = x /\ miner'[p].want = miner[p].want /\ miner'[p].apply = miner[p].apply
         /\ miner'[p].effect = miner[p].effect /\ miner'[p].run = miner[p].run
         /\ miner'[p].existing = miner[p].existing /\ miner'[p].stale = miner[p].stale
         /\ miner'[p].known = miner[p].known
<1> DEFINE row == [miner[p] EXCEPT !.pc = x]
<1>1. miner[p] \in MinerState
  BY DEF MineTypes
<1>2. /\ row \in MinerState /\ row.pc = x /\ row.want = miner[p].want /\ row.apply = miner[p].apply
      /\ row.effect = miner[p].effect /\ row.run = miner[p].run
      /\ row.existing = miner[p].existing /\ row.stale = miner[p].stale
      /\ row.known = miner[p].known
  BY <1>1 DEF MinerState
<1>3. miner' = [miner EXCEPT ![p] = row]
  BY DEF Step, MineTypes
<1> HIDE DEF row
<1>4. QED
  BY <1>2, <1>3, MinerBecomes

LEMMA RestingMiners ==
  /\ Off \in MinerState /\ Off.pc = "down" /\ Off.effect = 0 /\ Off.run = 0
  /\ ReadyMiner \in MinerState /\ ReadyMiner.pc = "ready" /\ ReadyMiner.effect = 0
  /\ ReadyMiner.run = 0 /\ ReadyMiner.apply = Gone /\ ReadyMiner.existing = {}
BY MineAssumption DEF Off, ReadyMiner, MinerState, Contents

LEMMA MinerRests ==
  ASSUME MineTypes, NEW p \in Miners, NEW row \in {Off, ReadyMiner},
         miner' = [miner EXCEPT ![p] = row]
  PROVE  /\ miner' \in [Miners -> MinerState]
         /\ \A q \in Miners : q # p => miner'[q] = miner[q]
         /\ miner'[p].pc \in {"down", "ready"} /\ miner'[p].effect = 0 /\ miner'[p].run = 0
BY RestingMiners, MinerBecomes

\* A process at work is alone.
LEMMA Alone ==
  ASSUME MineInv, NEW p \in Miners, Working(p)
  PROVE  /\ \A q \in Miners : q # p => miner[q].pc \in {"down", "ready", "waiting"}
         /\ replicated => holder = p
         /\ ~replicated => \A q \in Miners : q # p => miner[q].pc = "down"
<1>1. ASSUME NEW q \in Miners, q # p, replicated
      PROVE  miner[q].pc \in {"down", "ready", "waiting"}
  <2>1. ~Opening(q) /\ ~Working(q) /\ miner[q] \in MinerState
    BY <1>1 DEF MineInv, OneMiner, MineTypes, Working
  <2>2. QED
    BY <2>1 DEF Working, Storing, Opening, On
<1>2. ASSUME NEW q \in Miners, q # p, ~replicated
      PROVE  miner[q].pc = "down"
  BY <1>2 DEF MineInv, OneMiner, Working, Storing, On
<1>3. QED
  BY <1>1, <1>2 DEF MineInv, OneMiner

\* The staged effect is the only one that a recovery finds.
LEMMA RecoverLast ==
  ASSUME MineInv
  PROVE  /\ Staging => Recoverable = {Len(staged)}
         /\ ~Staging => Recoverable = {}
BY DEF MineInv, MineTypes, JournalInOrder, Recoverable, Staging, LastEffect

\* The manifest of the latest run lists the ids of the recorded version.
LEMMA LatestIds ==
  ASSUME MineInv
  PROVE  LatestCommitted = Chunked(record)
<1>1. CASE record = Gone
  BY <1>1 DEF MineInv, RecordIsLatest, Committed, LatestCommitted, With, Chunked
<1>2. CASE record # Gone
  <2>1. PICK r \in MineRuns : /\ Committed(r) /\ runOf[r].version = record
                              /\ \A x \in MineRuns : Committed(x) => x <= r
    BY <1>2 DEF MineInv, RecordIsLatest
  <2>2. {q \in With("committed") : \A x \in With("committed") : x <= q} = {r}
    BY <2>1, MineAssumption DEF With, Committed, MineRuns
  <2>3. LatestCommitted = UNION {IdsOf(q) : q \in {r}}
    BY <2>2 DEF LatestCommitted
  <2>4. QED
    BY <1>2, <2>1, <2>3 DEF IdsOf, Chunked
<1>3. QED
  BY <1>1, <1>2

LEMMA RowIsPair ==
  ASSUME MineTypes
  PROVE  \A d \in drawers : d = <<d[1], d[2]>> /\ d[1] \in Ids /\ d[2] \in FileVersions
BY DEF MineTypes

LEMMA MinerStarts ==
  ASSUME MineInv, NEW p \in Miners, StartMiner(p), ~OpenWhileMining
  PROVE  MineInv'
<1>1. /\ miner[p].pc = "down"
      /\ \A q \in Miners : ~Storing(q)
      /\ (~replicated => \A q \in Miners : miner[q].pc = "down")
  BY DEF StartMiner, On
<1>2. UNCHANGED <<replicated, disk, drawers, record, runOf, staged, holder, mineFaults>>
  BY DEF StartMiner, Step, SetRuns, AfterStore
<1>3. /\ miner' \in [Miners -> MinerState]
      /\ \A q \in Miners : q # p => miner'[q] = miner[q]
      /\ miner'[p].pc = "listing" /\ miner'[p].want = miner[p].want
      /\ miner'[p].apply = miner[p].apply /\ miner'[p].effect = miner[p].effect
      /\ miner'[p].run = miner[p].run /\ miner'[p].existing = miner[p].existing
      /\ miner'[p].stale = miner[p].stale /\ miner'[p].known = miner[p].known
  BY MinerSteps DEF StartMiner, MineInv
<1>4. \A q \in Miners : q # p => miner'[q] = miner[q]
  BY <1>3
<1>5. LastEffect' = LastEffect /\ (Staging' <=> Staging)
  BY <1>2 DEF LastEffect, Staging
<1>6. MineTypes'
  BY <1>2, <1>3 DEF MineInv, MineTypes
<1>7. OneMiner'
  BY <1>1, <1>2, <1>3, <1>4 DEF MineInv, OneMiner, On, Opening, Storing, Working, Applying
<1>8. RunsInOrder'
  BY <1>1, <1>2, <1>3, <1>4
  DEF MineInv, RunsInOrder, IdsOf, Committed, On, Opening, Storing, Working, Applying
<1>9. RecordIsLatest'
  BY <1>2 DEF MineInv, RecordIsLatest, Committed
<1>10. Targets'
  BY <1>1, <1>2, <1>3, <1>4, <1>5 DEF MineInv, Targets, On, Opening, Storing, Working, Applying
<1>11. JournalInOrder'
  BY <1>2, <1>5 DEF MineInv, JournalInOrder
<1>12. RowsInReach'
  BY <1>1, <1>2, <1>3, <1>4, <1>5 DEF MineInv, RowsInReach
<1>13. RowsSound'
  BY <1>1, <1>2, <1>3, <1>4, <1>5 DEF MineInv, RowsSound, On
<1>14. StoredAtRest'
  BY <1>1, <1>2, <1>3, <1>4, <1>5 DEF MineInv, StoredAtRest
<1>15. QED
  BY <1>6, <1>7, <1>8, <1>9, <1>10, <1>11, <1>12, <1>13, <1>14 DEF MineInv

LEMMA MinerLists ==
  ASSUME MineInv, NEW p \in Miners, ListStale(p)
  PROVE  MineInv'
<1>1. miner[p].pc = "listing"
  BY DEF ListStale, On
<1>2. UNCHANGED <<replicated, disk, drawers, record, runOf, staged, holder, mineFaults>>
  BY DEF ListStale, Step, SetRuns, AfterStore
<1>3. /\ miner' \in [Miners -> MinerState]
      /\ \A q \in Miners : q # p => miner'[q] = miner[q]
      /\ miner'[p].pc \in {"ready", "reading"} /\ miner'[p].want = miner[p].want
      /\ miner'[p].apply = miner[p].apply /\ miner'[p].effect = miner[p].effect
      /\ miner'[p].run = miner[p].run /\ miner'[p].existing = miner[p].existing
      /\ miner'[p].known = miner[p].known
      /\ \A r \in miner'[p].stale : runOf[r].status = "stale"
  <2> DEFINE row == [miner[p] EXCEPT !.stale = With("stale"),
                                 !.pc = IF With("stale") = {} THEN "ready" ELSE "reading"]
  <2>1. miner[p] \in MinerState
    BY DEF MineInv, MineTypes
  <2>2. /\ row \in MinerState /\ row.pc \in {"ready", "reading"} /\ row.want = miner[p].want
        /\ row.apply = miner[p].apply /\ row.effect = miner[p].effect
        /\ row.run = miner[p].run /\ row.existing = miner[p].existing
        /\ row.known = miner[p].known /\ \A r \in row.stale : runOf[r].status = "stale"
    BY <2>1 DEF MinerState, With
  <2>3. miner' = [miner EXCEPT ![p] = row]
    BY DEF ListStale, MineInv, MineTypes
  <2> HIDE DEF row
  <2>4. QED
    BY <2>2, <2>3, MinerBecomes DEF MineInv
<1>4. \A q \in Miners : ~Storing(q) /\ (q # p => miner'[q] = miner[q])
  BY <1>1, <1>3 DEF MineInv, OneMiner, Opening
<1>5. LastEffect' = LastEffect /\ (Staging' <=> Staging)
  BY <1>2 DEF LastEffect, Staging
<1>6. MineTypes'
  BY <1>2, <1>3 DEF MineInv, MineTypes
<1>7. OneMiner'
  BY <1>1, <1>2, <1>3, <1>4 DEF MineInv, OneMiner, On, Opening, Storing, Working, Applying
<1>8. RunsInOrder'
  BY <1>1, <1>2, <1>3, <1>4
  DEF MineInv, RunsInOrder, IdsOf, Committed, On, Opening, Storing, Working, Applying
<1>9. RecordIsLatest'
  BY <1>2 DEF MineInv, RecordIsLatest, Committed
<1>10. Targets'
  BY <1>1, <1>2, <1>3, <1>4, <1>5 DEF MineInv, Targets, On, Opening, Storing, Working, Applying
<1>11. JournalInOrder'
  BY <1>2, <1>5 DEF MineInv, JournalInOrder
<1>12. RowsInReach'
  BY <1>1, <1>2, <1>3, <1>4, <1>5 DEF MineInv, RowsInReach
<1>13. RowsSound'
  BY <1>1, <1>2, <1>3, <1>4, <1>5 DEF MineInv, RowsSound, On
<1>14. StoredAtRest'
  BY <1>1, <1>2, <1>3, <1>4, <1>5 DEF MineInv, StoredAtRest
<1>15. QED
  BY <1>6, <1>7, <1>8, <1>9, <1>10, <1>11, <1>12, <1>13, <1>14 DEF MineInv

LEMMA MinerReads ==
  ASSUME MineInv, NEW p \in Miners, ReadCommitted(p)
  PROVE  MineInv'
<1>1. miner[p].pc = "reading"
  BY DEF ReadCommitted, On
<1>2. UNCHANGED <<replicated, disk, drawers, record, runOf, staged, holder, mineFaults>>
  BY DEF ReadCommitted, Step, SetRuns, AfterStore
<1>3. /\ miner' \in [Miners -> MinerState]
      /\ \A q \in Miners : q # p => miner'[q] = miner[q]
      /\ miner'[p].pc = "pruning" /\ miner'[p].want = miner[p].want
      /\ miner'[p].apply = miner[p].apply /\ miner'[p].effect = miner[p].effect
      /\ miner'[p].run = miner[p].run /\ miner'[p].existing = miner[p].existing
      /\ miner'[p].stale = miner[p].stale
      /\ \A r \in MineRuns : Committed(r) => IdsOf(r) \subseteq miner'[p].known
  <2> DEFINE row == [miner[p] EXCEPT !.known = EverCommitted, !.pc = "pruning"]
  <2>0. /\ EverCommitted \subseteq Ids
        /\ \A r \in MineRuns : Committed(r) => IdsOf(r) \subseteq EverCommitted
    BY DEF EverCommitted, With, Committed, IdsOf, Ids, MineInv, MineTypes
  <2>1. miner[p] \in MinerState
    BY DEF MineInv, MineTypes
  <2>2. /\ row \in MinerState /\ row.pc = "pruning" /\ row.want = miner[p].want
        /\ row.apply = miner[p].apply /\ row.effect = miner[p].effect
        /\ row.run = miner[p].run /\ row.existing = miner[p].existing
        /\ row.stale = miner[p].stale
        /\ \A r \in MineRuns : Committed(r) => IdsOf(r) \subseteq row.known
    BY <2>0, <2>1 DEF MinerState
  <2>3. miner' = [miner EXCEPT ![p] = row]
    BY DEF ReadCommitted, MineInv, MineTypes
  <2> HIDE DEF row
  <2>4. QED
    BY <2>2, <2>3, MinerBecomes DEF MineInv
<1>4. \A q \in Miners : ~Storing(q) /\ (q # p => miner'[q] = miner[q])
  BY <1>1, <1>3 DEF MineInv, OneMiner, Opening
<1>5. LastEffect' = LastEffect /\ (Staging' <=> Staging)
  BY <1>2 DEF LastEffect, Staging
<1>6. MineTypes'
  BY <1>2, <1>3 DEF MineInv, MineTypes
<1>7. OneMiner'
  BY <1>1, <1>2, <1>3, <1>4 DEF MineInv, OneMiner, On, Opening, Storing, Working, Applying
<1>8. RunsInOrder'
  BY <1>1, <1>2, <1>3, <1>4
  DEF MineInv, RunsInOrder, IdsOf, Committed, On, Opening, Storing, Working, Applying
<1>9. RecordIsLatest'
  BY <1>2 DEF MineInv, RecordIsLatest, Committed
<1>10. Targets'
  BY <1>1, <1>2, <1>3, <1>4, <1>5 DEF MineInv, Targets, On, Opening, Storing, Working, Applying
<1>11. JournalInOrder'
  BY <1>2, <1>5 DEF MineInv, JournalInOrder
<1>12. RowsInReach'
  BY <1>1, <1>2, <1>3, <1>4, <1>5 DEF MineInv, RowsInReach
<1>13. RowsSound'
  BY <1>1, <1>2, <1>3, <1>4, <1>5 DEF MineInv, RowsSound, On
<1>14. StoredAtRest'
  BY <1>1, <1>2, <1>3, <1>4, <1>5 DEF MineInv, StoredAtRest
<1>15. QED
  BY <1>6, <1>7, <1>8, <1>9, <1>10, <1>11, <1>12, <1>13, <1>14 DEF MineInv

LEMMA MinerPrunes ==
  ASSUME MineInv, NEW p \in Miners, Prune(p)
  PROVE  MineInv'
<1>1. miner[p].pc = "pruning"
  BY DEF Prune, On
<1>2. UNCHANGED <<replicated, disk, record, runOf, staged, holder, mineFaults>>
  BY DEF Prune, Step, SetRuns, AfterStore
<1>3. /\ miner' \in [Miners -> MinerState]
      /\ \A q \in Miners : q # p => miner'[q] = miner[q]
      /\ miner'[p].pc = "marking" /\ miner'[p].want = miner[p].want
      /\ miner'[p].apply = miner[p].apply /\ miner'[p].effect = miner[p].effect
      /\ miner'[p].run = miner[p].run /\ miner'[p].existing = miner[p].existing
      /\ miner'[p].stale = miner[p].stale /\ miner'[p].known = miner[p].known
      /\ drawers' \subseteq drawers
      /\ \A d \in drawers : (\E r \in MineRuns : Committed(r) /\ d[1] \in IdsOf(r)) => d \in drawers'
  <2>1. drawers' = Without((UNION {IdsOf(r) : r \in miner[p].stale}) \ miner[p].known)
    BY DEF Prune
  <2>2. \A r \in MineRuns : Committed(r) => IdsOf(r) \subseteq miner[p].known
    BY <1>1 DEF MineInv, RunsInOrder, On
  <2>3. /\ drawers' \subseteq drawers
        /\ \A d \in drawers : (\E r \in MineRuns : Committed(r) /\ d[1] \in IdsOf(r)) => d \in drawers'
    BY <2>1, <2>2 DEF Without
  <2>4. QED
    BY <2>3, MinerSteps DEF Prune, MineInv
<1>4. \A q \in Miners : ~Storing(q) /\ (q # p => miner'[q] = miner[q])
  BY <1>1, <1>3 DEF MineInv, OneMiner, Opening
<1>5. LastEffect' = LastEffect /\ (Staging' <=> Staging)
  BY <1>2 DEF LastEffect, Staging
<1>6. MineTypes'
  BY <1>2, <1>3 DEF MineInv, MineTypes
<1>7. OneMiner'
  BY <1>1, <1>2, <1>3, <1>4 DEF MineInv, OneMiner, On, Opening, Storing, Working, Applying
<1>8. RunsInOrder'
  BY <1>1, <1>2, <1>3, <1>4
  DEF MineInv, RunsInOrder, IdsOf, Committed, On, Opening, Storing, Working, Applying
<1>9. RecordIsLatest'
  BY <1>2 DEF MineInv, RecordIsLatest, Committed
<1>10. Targets'
  BY <1>1, <1>2, <1>3, <1>4, <1>5 DEF MineInv, Targets, On, Opening, Storing, Working, Applying
<1>11. JournalInOrder'
  BY <1>2, <1>5 DEF MineInv, JournalInOrder
<1>12. RowsInReach'
  BY <1>1, <1>2, <1>3, <1>4, <1>5 DEF MineInv, RowsInReach
<1>13. RowsSound'
  <2>1. \A q \in Miners : miner'[q].pc \notin {"adding", "committing", "sweeping", "activating",
                                               "forgetting"}
    BY <1>1, <1>3, <1>4 DEF Storing, Opening, On
  <2>2. QED
    BY <2>1 DEF RowsSound, On
<1>14. StoredAtRest'
  <2>1. ASSUME drawers = RowsOf(record)  PROVE drawers' = drawers
    <3>1. ASSUME NEW d \in drawers  PROVE \E r \in MineRuns : Committed(r) /\ d[1] \in IdsOf(r)
      <4>1. d[1] \in Chunked(record) /\ record # Gone
        BY <2>1, <3>1 DEF RowsOf, Chunked
      <4>2. QED
        BY <4>1 DEF MineInv, RecordIsLatest, IdsOf, Chunked
    <3>2. QED
      BY <1>3, <3>1
  <2>2. QED
    BY <1>1, <1>2, <1>3, <1>4, <1>5, <2>1 DEF MineInv, StoredAtRest
<1>15. QED
  BY <1>6, <1>7, <1>8, <1>9, <1>10, <1>11, <1>12, <1>13, <1>14 DEF MineInv

LEMMA MinerMarks ==
  ASSUME MineInv, NEW p \in Miners, MarkStale(p)
  PROVE  MineInv'
<1>1. miner[p].pc = "marking"
  BY DEF MarkStale, On
<1>2. UNCHANGED <<replicated, disk, drawers, record, staged, holder, mineFaults>>
  BY DEF MarkStale, Step, SetRuns, AfterStore
<1>3. /\ miner' \in [Miners -> MinerState]
      /\ \A q \in Miners : q # p => miner'[q] = miner[q]
      /\ miner'[p].pc \in {"down", "ready"} /\ miner'[p].effect = 0 /\ miner'[p].run = 0
      /\ runOf' \in [MineRuns -> [status : {"none", "pending", "stale", "committed", "failed"},
                                version : FileVersions]]
      /\ \A r \in MineRuns :
           /\ runOf'[r].version = runOf[r].version
           /\ runOf'[r] = runOf[r]
              \/ (runOf[r].status \in {"stale", "failed"} /\ runOf'[r].status = "failed")
  <2>1. \A r \in MineRuns :
          runOf'[r] = IF r \in {q \in miner[p].stale : runOf[q].status # "none"} THEN [runOf[r] EXCEPT !.status = "failed"] ELSE runOf[r]
    BY DEF MarkStale, SetRuns
  <2>2. runOf' \in [MineRuns -> [status : {"none", "pending", "stale", "committed", "failed"},
                                version : FileVersions]]
    BY DEF MarkStale, SetRuns, MineInv, MineTypes
  <2>3. \A r \in miner[p].stale : runOf[r].status \in {"stale", "failed"}
    BY <1>1 DEF MineInv, RunsInOrder
  <2>4. \A r \in MineRuns : /\ runOf'[r].version = runOf[r].version
                            /\ runOf'[r] = runOf[r] \/ (runOf[r].status \in {"stale", "failed"}
                                                        /\ runOf'[r].status = "failed")
    BY <2>1, <2>3 DEF MineInv, MineTypes
  <2>5. QED
    BY <2>2, <2>4, MinerRests DEF MarkStale, MineInv
<1>4. \A q \in Miners : ~Storing(q) /\ (q # p => miner'[q] = miner[q])
  BY <1>1, <1>3 DEF MineInv, OneMiner, Opening
<1>5. LastEffect' = LastEffect /\ (Staging' <=> Staging)
  BY <1>2 DEF LastEffect, Staging
<1>6. MineTypes'
  BY <1>2, <1>3 DEF MineInv, MineTypes
<1>7. OneMiner'
  BY <1>1, <1>2, <1>3, <1>4 DEF MineInv, OneMiner, On, Opening, Storing, Working, Applying
<1>8. RunsInOrder'
  <2>1. ASSUME NEW q \in Miners
        PROVE  /\ miner'[q].pc \notin {"clearing", "adding", "committing"}
               /\ miner'[q].pc \in {"reading", "pruning", "marking"} =>
                    \A r \in miner'[q].stale : runOf'[r].status \in {"stale", "failed"}
               /\ On(q, "pruning")' =>
                    \A r \in MineRuns : Committed(r)' => IdsOf(r)' \subseteq miner'[q].known
    <3>1. miner[q].stale \subseteq MineRuns
      BY DEF MineInv, MineTypes, MinerState
    <3>2. QED
      BY <1>3, <1>4, <3>1
      DEF MineInv, RunsInOrder, IdsOf, Committed, On, Opening, Storing, Working, Applying
  <2>2. QED
    BY <2>1 DEF RunsInOrder
<1>9. RecordIsLatest'
  BY <1>2, <1>3 DEF MineInv, RecordIsLatest, Committed
<1>10. Targets'
  BY <1>1, <1>2, <1>3, <1>4, <1>5 DEF MineInv, Targets, On, Opening, Storing, Working, Applying
<1>11. JournalInOrder'
  BY <1>2, <1>5 DEF MineInv, JournalInOrder
<1>12. RowsInReach'
  BY <1>1, <1>2, <1>3, <1>4, <1>5 DEF MineInv, RowsInReach
<1>13. RowsSound'
  BY <1>1, <1>2, <1>3, <1>4, <1>5 DEF MineInv, RowsSound, On
<1>14. StoredAtRest'
  BY <1>1, <1>2, <1>3, <1>4, <1>5 DEF MineInv, StoredAtRest
<1>15. QED
  BY <1>6, <1>7, <1>8, <1>9, <1>10, <1>11, <1>12, <1>13, <1>14 DEF MineInv

LEMMA MineBegins ==
  ASSUME MineInv, NEW p \in Miners, BeginMine(p), ~OpenWhileMining
  PROVE  MineInv'
<1>1. /\ miner[p].pc = "ready" /\ (replicated \/ disk \in FileVersions \/ disk = Gone)
      /\ \A q \in Miners : ~Opening(q)
  BY DEF BeginMine, On, MineInv, MineTypes, Contents
<1>2. UNCHANGED <<replicated, disk, drawers, record, runOf, staged, holder, mineFaults>>
  BY DEF BeginMine, Step, SetRuns, AfterStore
<1>3. /\ miner' \in [Miners -> MinerState]
      /\ \A q \in Miners : q # p => miner'[q] = miner[q]
      /\ miner'[p].pc \in {"waiting", "removing", "capturing"}
      /\ miner'[p].effect = miner[p].effect /\ miner'[p].run = miner[p].run
      /\ miner'[p].existing = miner[p].existing /\ miner'[p].stale = miner[p].stale
      /\ miner'[p].known = miner[p].known /\ (miner'[p].pc = "waiting" <=> replicated)
      /\ (miner'[p].pc = "capturing" => miner'[p].apply # Gone)
      /\ (miner'[p].pc = "removing" => miner'[p].apply = Gone)
  <2> DEFINE row == [miner[p] EXCEPT !.pc = Enter(p), !.want = disk, !.apply = disk]
  <2>1. miner[p] \in MinerState
    BY DEF MineInv, MineTypes
  <2>2. /\ row \in MinerState /\ row.pc \in {"waiting", "removing", "capturing"}
        /\ row.effect = miner[p].effect /\ row.run = miner[p].run
        /\ row.existing = miner[p].existing /\ row.stale = miner[p].stale
        /\ row.known = miner[p].known /\ (row.pc = "waiting" <=> replicated)
        /\ (row.pc = "capturing" => row.apply # Gone)
        /\ (row.pc = "removing" => row.apply = Gone)
    BY <2>1 DEF MinerState, Enter, MineInv, MineTypes
  <2>3. miner' = [miner EXCEPT ![p] = row]
    BY DEF BeginMine, MineInv, MineTypes
  <2> HIDE DEF row
  <2>4. QED
    BY <2>2, <2>3, MinerBecomes DEF MineInv
<1>4. \A q \in Miners : q # p => miner'[q] = miner[q]
  BY <1>3
<1>5. LastEffect' = LastEffect /\ (Staging' <=> Staging)
  BY <1>2 DEF LastEffect, Staging
<1>6. MineTypes'
  BY <1>2, <1>3 DEF MineInv, MineTypes
<1>7. OneMiner'
  BY <1>1, <1>2, <1>3, <1>4 DEF MineInv, OneMiner, On, Opening, Storing, Working, Applying
<1>8. RunsInOrder'
  BY <1>1, <1>2, <1>3, <1>4
  DEF MineInv, RunsInOrder, IdsOf, Committed, On, Opening, Storing, Working, Applying
<1>9. RecordIsLatest'
  BY <1>2 DEF MineInv, RecordIsLatest, Committed
<1>10. Targets'
  BY <1>1, <1>2, <1>3, <1>4, <1>5 DEF MineInv, Targets, On, Opening, Storing, Working, Applying
<1>11. JournalInOrder'
  BY <1>2, <1>5 DEF MineInv, JournalInOrder
<1>12. RowsInReach'
  BY <1>1, <1>2, <1>3, <1>4, <1>5 DEF MineInv, RowsInReach
<1>13. RowsSound'
  BY <1>1, <1>2, <1>3, <1>4, <1>5 DEF MineInv, RowsSound, On
<1>14. StoredAtRest'
  BY <1>1, <1>2, <1>3, <1>4, <1>5 DEF MineInv, StoredAtRest
<1>15. QED
  BY <1>6, <1>7, <1>8, <1>9, <1>10, <1>11, <1>12, <1>13, <1>14 DEF MineInv

LEMMA RecoveryBegins ==
  ASSUME MineInv, NEW p \in Miners, BeginRecovery(p), ~OpenWhileMining
  PROVE  MineInv'
<1>1. /\ miner[p].pc = "ready" /\ replicated
      /\ \A q \in Miners : ~Opening(q)
  BY DEF BeginRecovery, On
<1>2. UNCHANGED <<replicated, disk, drawers, record, runOf, staged, holder, mineFaults>>
  BY DEF BeginRecovery, Step, SetRuns, AfterStore
<1>3. /\ miner' \in [Miners -> MinerState]
      /\ \A q \in Miners : q # p => miner'[q] = miner[q]
      /\ miner'[p].pc = "waiting" /\ miner'[p].want = miner[p].want
      /\ miner'[p].apply = miner[p].apply /\ miner'[p].effect = miner[p].effect
      /\ miner'[p].run = miner[p].run /\ miner'[p].existing = miner[p].existing
      /\ miner'[p].stale = miner[p].stale /\ miner'[p].known = miner[p].known
  BY MinerSteps DEF BeginRecovery, MineInv
<1>4. \A q \in Miners : q # p => miner'[q] = miner[q]
  BY <1>3
<1>5. LastEffect' = LastEffect /\ (Staging' <=> Staging)
  BY <1>2 DEF LastEffect, Staging
<1>6. MineTypes'
  BY <1>2, <1>3 DEF MineInv, MineTypes
<1>7. OneMiner'
  BY <1>1, <1>2, <1>3, <1>4 DEF MineInv, OneMiner, On, Opening, Storing, Working, Applying
<1>8. RunsInOrder'
  BY <1>1, <1>2, <1>3, <1>4
  DEF MineInv, RunsInOrder, IdsOf, Committed, On, Opening, Storing, Working, Applying
<1>9. RecordIsLatest'
  BY <1>2 DEF MineInv, RecordIsLatest, Committed
<1>10. Targets'
  BY <1>1, <1>2, <1>3, <1>4, <1>5 DEF MineInv, Targets, On, Opening, Storing, Working, Applying
<1>11. JournalInOrder'
  BY <1>2, <1>5 DEF MineInv, JournalInOrder
<1>12. RowsInReach'
  BY <1>1, <1>2, <1>3, <1>4, <1>5 DEF MineInv, RowsInReach
<1>13. RowsSound'
  BY <1>1, <1>2, <1>3, <1>4, <1>5 DEF MineInv, RowsSound, On
<1>14. StoredAtRest'
  BY <1>1, <1>2, <1>3, <1>4, <1>5 DEF MineInv, StoredAtRest
<1>15. QED
  BY <1>6, <1>7, <1>8, <1>9, <1>10, <1>11, <1>12, <1>13, <1>14 DEF MineInv

LEMMA MinerLocks ==
  ASSUME MineInv, NEW p \in Miners, LockSource(p)
  PROVE  MineInv'
<1>1. miner[p].pc = "waiting" /\ holder = NoOne /\ replicated
  BY DEF LockSource, On, MineInv, MineTypes, OneMiner
<1>2. UNCHANGED <<replicated, disk, drawers, record, runOf, staged, mineFaults>>
  BY DEF LockSource, Step, SetRuns, AfterStore
<1>3. /\ miner' \in [Miners -> MinerState]
      /\ \A q \in Miners : q # p => miner'[q] = miner[q]
      /\ miner'[p].pc = "locked" /\ miner'[p].want = miner[p].want
      /\ miner'[p].apply = miner[p].apply /\ miner'[p].effect = miner[p].effect
      /\ miner'[p].run = miner[p].run /\ miner'[p].existing = miner[p].existing
      /\ miner'[p].stale = miner[p].stale /\ miner'[p].known = miner[p].known /\ holder' = p
  BY MinerSteps DEF LockSource, MineInv
<1>4. \A q \in Miners : q # p => miner'[q] = miner[q]
  BY <1>3
<1>5. LastEffect' = LastEffect /\ (Staging' <=> Staging)
  BY <1>2 DEF LastEffect, Staging
<1>6. MineTypes'
  BY <1>2, <1>3 DEF MineInv, MineTypes
<1>7. OneMiner'
  <2>1. \A q \in Miners : ~Working(q)
    BY <1>1, MineAssumption DEF MineInv, OneMiner
  <2>2. \A q \in Miners : ~Opening(q)
    BY <1>1 DEF MineInv, OneMiner, Storing, Opening, On
  <2>3. QED
    BY <1>1, <1>2, <1>3, <1>4, <2>1, <2>2 DEF OneMiner, On, Opening, Storing, Working, Applying
<1>8. RunsInOrder'
  BY <1>1, <1>2, <1>3, <1>4
  DEF MineInv, RunsInOrder, IdsOf, Committed, On, Opening, Storing, Working, Applying
<1>9. RecordIsLatest'
  BY <1>2 DEF MineInv, RecordIsLatest, Committed
<1>10. Targets'
  BY <1>1, <1>2, <1>3, <1>4, <1>5 DEF MineInv, Targets, On, Opening, Storing, Working, Applying
<1>11. JournalInOrder'
  BY <1>2, <1>5 DEF MineInv, JournalInOrder
<1>12. RowsInReach'
  BY <1>1, <1>2, <1>3, <1>4, <1>5 DEF MineInv, RowsInReach
<1>13. RowsSound'
  BY <1>1, <1>2, <1>3, <1>4, <1>5 DEF MineInv, RowsSound, On
<1>14. StoredAtRest'
  BY <1>1, <1>2, <1>3, <1>4, <1>5 DEF MineInv, StoredAtRest
<1>15. QED
  BY <1>6, <1>7, <1>8, <1>9, <1>10, <1>11, <1>12, <1>13, <1>14 DEF MineInv

LEMMA EffectIsTaken ==
  ASSUME MineInv, NEW p \in Miners, ApplyStaged(p)
  PROVE  MineInv'
<1>1. miner[p].pc = "locked"
  BY DEF ApplyStaged, On
<1>2. UNCHANGED <<replicated, disk, drawers, record, runOf, staged, holder, mineFaults>>
  BY DEF ApplyStaged, Step, SetRuns, AfterStore
<1>3. /\ miner' \in [Miners -> MinerState]
      /\ \A q \in Miners : q # p => miner'[q] = miner[q]
      /\ miner'[p].pc \in {"removing", "capturing"} /\ miner'[p].want = miner[p].want
      /\ miner'[p].run = miner[p].run /\ miner'[p].existing = miner[p].existing
      /\ miner'[p].stale = miner[p].stale /\ miner'[p].known = miner[p].known /\ Staging
      /\ miner'[p].effect = Len(staged) /\ miner'[p].apply = LastEffect.version
      /\ (miner'[p].pc = "removing" <=> miner'[p].apply = Gone)
  <2> DEFINE row == [miner[p] EXCEPT !.effect = Len(staged), !.apply = LastEffect.version,
                                 !.pc = IF LastEffect.version = Gone THEN "removing" ELSE "capturing"]
  <2>0. Staging /\ Recoverable = {Len(staged)} /\ Len(staged) \in 0..MaxEffects /\ LastEffect \in Effect
    BY RecoverLast, MineAssumption DEF ApplyStaged, Staging, LastEffect, MineInv, MineTypes
  <2>1. miner[p] \in MinerState
    BY DEF MineInv, MineTypes
  <2>2. /\ row \in MinerState /\ row.pc \in {"removing", "capturing"}
        /\ row.want = miner[p].want /\ row.run = miner[p].run
        /\ row.existing = miner[p].existing /\ row.stale = miner[p].stale
        /\ row.known = miner[p].known /\ row.effect = Len(staged)
        /\ row.apply = LastEffect.version /\ (row.pc = "removing" <=> row.apply = Gone)
    BY <2>0, <2>1 DEF MinerState, MineInv, MineTypes, Effect
  <2>3. miner' = [miner EXCEPT ![p] = row]
    BY <2>0 DEF ApplyStaged, LastEffect, MineInv, MineTypes
  <2> HIDE DEF row
  <2>4. QED
    BY <2>2, <2>3, MinerBecomes, <2>0 DEF MineInv
<1>4. \A q \in Miners : q # p => miner'[q] = miner[q] /\ miner[q].pc \in {"down", "ready", "waiting"}
  BY <1>1, <1>3, Alone DEF Working, Storing, Opening, On
<1>5. LastEffect' = LastEffect /\ (Staging' <=> Staging)
  BY <1>2 DEF LastEffect, Staging
<1>6. MineTypes'
  BY <1>2, <1>3 DEF MineInv, MineTypes
<1>7. OneMiner'
  BY <1>1, <1>2, <1>3, <1>4 DEF MineInv, OneMiner, On, Opening, Storing, Working, Applying
<1>8. RunsInOrder'
  BY <1>1, <1>2, <1>3, <1>4
  DEF MineInv, RunsInOrder, IdsOf, Committed, On, Opening, Storing, Working, Applying
<1>9. RecordIsLatest'
  BY <1>2 DEF MineInv, RecordIsLatest, Committed
<1>10. Targets'
  BY <1>1, <1>2, <1>3, <1>4, <1>5 DEF MineInv, Targets, On, Opening, Storing, Working, Applying
<1>11. JournalInOrder'
  BY <1>2, <1>5 DEF MineInv, JournalInOrder
<1>12. RowsInReach'
  BY <1>1, <1>2, <1>3, <1>4, <1>5 DEF MineInv, RowsInReach
<1>13. RowsSound'
  BY <1>1, <1>2, <1>3, <1>4, <1>5 DEF MineInv, RowsSound, On
<1>14. StoredAtRest'
  BY <1>1, <1>2, <1>3, <1>4, <1>5 DEF MineInv, StoredAtRest
<1>15. QED
  BY <1>6, <1>7, <1>8, <1>9, <1>10, <1>11, <1>12, <1>13, <1>14 DEF MineInv

LEMMA EffectIsStaged ==
  ASSUME MineInv, NEW p \in Miners, StageEffect(p)
  PROVE  MineInv'
<1>1. miner[p].pc = "locked" /\ Working(p) /\ ~Staging /\ miner[p].want \in Contents
  BY RecoverLast DEF StageEffect, On, Working, Storing, Opening, MineInv, MineTypes, MinerState
<1>2. UNCHANGED <<replicated, disk, drawers, record, runOf, holder, mineFaults>>
  BY DEF StageEffect, Step, SetRuns, AfterStore
<1>3. /\ miner' \in [Miners -> MinerState]
      /\ \A q \in Miners : q # p => miner'[q] = miner[q]
      /\ miner'[p].pc = "locked" /\ miner'[p].apply = miner[p].apply
      /\ miner'[p].effect = miner[p].effect /\ miner'[p].run = miner[p].run
      /\ miner'[p].existing = miner[p].existing /\ miner'[p].stale = miner[p].stale
      /\ miner'[p].known = miner[p].known
      /\ staged' \in Seq(Effect) /\ Len(staged') = Len(staged) + 1 /\ Len(staged') <= MaxEffects
      /\ LastEffect'.state = "staged" /\ LastEffect'.version \in Contents
      /\ LastEffect'.previous = Chunked(record)
      /\ \A i \in DOMAIN staged : staged'[i] = staged[i]
  <2> DEFINE row == [miner[p] EXCEPT !.want = NoOne]
             new == [version |-> miner[p].want, previous |-> Captured(miner[p].want),
                     state |-> "staged"]
  <2>1. miner[p] \in MinerState /\ staged \in Seq(Effect)
    BY DEF MineInv, MineTypes
  <2>2. /\ row \in MinerState /\ row.pc = miner[p].pc /\ row.apply = miner[p].apply
        /\ row.effect = miner[p].effect /\ row.run = miner[p].run /\ row.known = miner[p].known
        /\ row.existing = miner[p].existing /\ row.stale = miner[p].stale
    BY <2>1 DEF MinerState
  <2>3. miner' = [miner EXCEPT ![p] = row]
    BY DEF StageEffect, MineInv, MineTypes
  <2>4. Chunked(record) \subseteq Ids
    BY DEF Chunked, Ids, MineInv, MineTypes, Contents
  <2>5. /\ new \in Effect /\ new.state = "staged" /\ new.version \in Contents
        /\ new.previous = Chunked(record)
    BY <1>1, <2>4, LatestIds DEF Effect, Captured
  <2>6. staged' = Append(staged, new) /\ Len(staged) < MaxEffects
    BY DEF StageEffect
  <2> HIDE DEF row, new
  <2>7. /\ staged' \in Seq(Effect) /\ Len(staged') = Len(staged) + 1 /\ Len(staged') <= MaxEffects
        /\ staged'[Len(staged')] = new /\ \A i \in DOMAIN staged : staged'[i] = staged[i]
    BY <2>1, <2>5, <2>6, MineAssumption
  <2>8. QED
    BY <1>1, <2>2, <2>3, <2>5, <2>7, MinerBecomes DEF LastEffect, MineInv
<1>4. \A q \in Miners : q # p => miner'[q] = miner[q] /\ miner[q].pc \in {"down", "ready", "waiting"}
  BY <1>1, <1>3, Alone DEF Working, Storing, Opening, On
<1>5. Staging' /\ replicated
  BY <1>1, <1>3 DEF Staging, MineInv, OneMiner, MineTypes
<1>6. MineTypes'
  BY <1>2, <1>3 DEF MineInv, MineTypes
<1>7. OneMiner'
  BY <1>1, <1>2, <1>3, <1>4 DEF MineInv, OneMiner, On, Opening, Storing, Working, Applying
<1>8. RunsInOrder'
  BY <1>1, <1>2, <1>3, <1>4
  DEF MineInv, RunsInOrder, IdsOf, Committed, On, Opening, Storing, Working, Applying
<1>9. RecordIsLatest'
  BY <1>2 DEF MineInv, RecordIsLatest, Committed
<1>10. Targets'
  BY <1>1, <1>2, <1>3, <1>4, <1>5 DEF MineInv, Targets, On, Opening, Storing, Working, Applying
<1>11. JournalInOrder'
  <2>1. \A i \in DOMAIN staged' : i < Len(staged') => staged'[i].state # "staged"
    BY <1>1, <1>3 DEF MineInv, MineTypes, JournalInOrder, Staging, LastEffect
  <2>2. QED
    BY <1>5, <2>1 DEF JournalInOrder
<1>12. RowsInReach'
  <2>1. drawers = RowsOf(record)
    BY <1>1, <1>5 DEF MineInv, StoredAtRest, MineTypes
  <2>2. \A d \in drawers : d[1] \in Chunked(record)
    BY <2>1 DEF RowsOf
  <2>3. QED
    BY <1>2, <1>3, <1>5, <2>2 DEF RowsInReach
<1>13. RowsSound'
  BY <1>1, <1>2, <1>3, <1>4, <1>5 DEF MineInv, RowsSound, On
<1>14. StoredAtRest'
  BY <1>1, <1>2, <1>3, <1>4, <1>5 DEF MineInv, StoredAtRest
<1>15. QED
  BY <1>6, <1>7, <1>8, <1>9, <1>10, <1>11, <1>12, <1>13, <1>14 DEF MineInv

LEMMA MinerUnlocks ==
  ASSUME MineInv, NEW p \in Miners, ReleaseSource(p)
  PROVE  MineInv'
<1>1. miner[p].pc = "locked" /\ Working(p)
  BY DEF ReleaseSource, On, Working, Storing, Opening
<1>2. UNCHANGED <<replicated, disk, drawers, record, runOf, staged, mineFaults>>
  BY DEF ReleaseSource, Step, SetRuns, AfterStore
<1>3. /\ miner' \in [Miners -> MinerState]
      /\ \A q \in Miners : q # p => miner'[q] = miner[q]
      /\ miner'[p].pc \in {"down", "ready"} /\ miner'[p].effect = 0 /\ miner'[p].run = 0
      /\ holder' = NoOne /\ replicated /\ holder = p
  <2>1. replicated /\ holder = p
    BY <1>1 DEF MineInv, OneMiner
  <2>2. QED
    BY <2>1, MinerRests DEF ReleaseSource, MineInv
<1>4. \A q \in Miners : q # p => miner'[q] = miner[q] /\ miner[q].pc \in {"down", "ready", "waiting"}
  BY <1>1, <1>3, Alone DEF Working, Storing, Opening, On
<1>5. LastEffect' = LastEffect /\ (Staging' <=> Staging)
  BY <1>2 DEF LastEffect, Staging
<1>6. MineTypes'
  BY <1>2, <1>3 DEF MineInv, MineTypes
<1>7. OneMiner'
  BY <1>1, <1>2, <1>3, <1>4, MineAssumption
  DEF MineInv, OneMiner, On, Opening, Storing, Working, Applying
<1>8. RunsInOrder'
  BY <1>1, <1>2, <1>3, <1>4
  DEF MineInv, RunsInOrder, IdsOf, Committed, On, Opening, Storing, Working, Applying
<1>9. RecordIsLatest'
  BY <1>2 DEF MineInv, RecordIsLatest, Committed
<1>10. Targets'
  BY <1>1, <1>2, <1>3, <1>4, <1>5 DEF MineInv, Targets, On, Opening, Storing, Working, Applying
<1>11. JournalInOrder'
  BY <1>2, <1>5 DEF MineInv, JournalInOrder
<1>12. RowsInReach'
  BY <1>1, <1>2, <1>3, <1>4, <1>5 DEF MineInv, RowsInReach
<1>13. RowsSound'
  BY <1>1, <1>2, <1>3, <1>4, <1>5 DEF MineInv, RowsSound, On
<1>14. StoredAtRest'
  BY <1>1, <1>2, <1>3, <1>4, <1>5 DEF MineInv, StoredAtRest
<1>15. QED
  BY <1>6, <1>7, <1>8, <1>9, <1>10, <1>11, <1>12, <1>13, <1>14 DEF MineInv

LEMMA EffectIsActivated ==
  ASSUME MineInv, NEW p \in Miners, Activate(p)
  PROVE  MineInv'
<1>1. miner[p].pc = "activating" /\ Working(p) /\ Applying(p)
  BY DEF Activate, On, Working, Storing, Opening, Applying
<1>2. UNCHANGED <<replicated, disk, drawers, record, runOf, holder, mineFaults>>
  BY DEF Activate, Step, SetRuns, AfterStore
<1>3. /\ miner' \in [Miners -> MinerState]
      /\ \A q \in Miners : q # p => miner'[q] = miner[q]
      /\ miner'[p].pc = "locked" /\ miner'[p].effect = 0 /\ miner'[p].run = 0
      /\ replicated /\ Staging /\ staged' \in Seq(Effect) /\ Len(staged') = Len(staged)
      /\ LastEffect'.state = "queued" /\ LastEffect'.version = record
      /\ \A i \in DOMAIN staged : i # Len(staged) => staged'[i] = staged[i]
  <2> DEFINE row == [ReadyMiner EXCEPT !.pc = "locked", !.want = miner[p].want]
  <2>1. miner[p] \in MinerState /\ staged \in Seq(Effect)
    BY DEF MineInv, MineTypes
  <2>2. row \in MinerState /\ row.pc = "locked" /\ row.effect = 0 /\ row.run = 0
    BY <2>1, RestingMiners DEF MinerState
  <2>3. miner' = [miner EXCEPT ![p] = row]
    BY DEF Activate
  <2> HIDE DEF row
  <2>4. /\ replicated /\ Staging /\ miner[p].effect = Len(staged)
        /\ miner[p].apply = LastEffect.version /\ record = miner[p].apply
    BY <1>1 DEF MineInv, OneMiner, Targets, MineTypes
  <2>5. /\ Len(staged) \in DOMAIN staged /\ LastEffect \in Effect
        /\ staged' = [staged EXCEPT ![Len(staged)].state = "queued"]
    BY <2>1, <2>4 DEF Activate, Staging, LastEffect
  <2>6. [LastEffect EXCEPT !.state = "queued"] \in Effect
    BY <2>5 DEF Effect
  <2>7. staged' = [staged EXCEPT ![Len(staged)] = [LastEffect EXCEPT !.state = "queued"]]
    BY <2>1, <2>5 DEF LastEffect
  <2>8. /\ staged' \in Seq(Effect) /\ Len(staged') = Len(staged)
        /\ staged'[Len(staged)] = [LastEffect EXCEPT !.state = "queued"]
        /\ \A i \in DOMAIN staged : i # Len(staged) => staged'[i] = staged[i]
    <3> DEFINE e == [LastEffect EXCEPT !.state = "queued"]
    <3>2. e \in Effect /\ \A i \in 1..Len(staged) : staged[i] \in Effect
      BY <2>1, <2>6
    <3>6. staged' = [staged EXCEPT ![Len(staged)] = e] /\ DOMAIN staged = 1..Len(staged)
      BY <2>1, <2>7
    <3> HIDE DEF e
    <3>1. staged' = [i \in 1..Len(staged) |-> IF i = Len(staged) THEN e ELSE staged[i]]
      BY <3>6
    <3>3. staged' \in Seq(Effect) /\ Len(staged') = Len(staged)
      BY <2>1, <3>1, <3>2
    <3>4. Len(staged) \in 1..Len(staged) /\ DOMAIN staged = 1..Len(staged)
      BY <2>1, <2>5
    <3>5. QED
      BY <3>1, <3>3, <3>4 DEF e
  <2>9. LastEffect'.state = "queued" /\ LastEffect'.version = record
    BY <2>4, <2>5, <2>8 DEF LastEffect, Effect
  <2>10. QED
    BY <2>2, <2>3, <2>4, <2>8, <2>9, MinerBecomes DEF MineInv
<1>4. \A q \in Miners : q # p => miner'[q] = miner[q] /\ miner[q].pc \in {"down", "ready", "waiting"}
  BY <1>1, <1>3, Alone DEF Working, Storing, Opening, On
<1>5. ~Staging'
  BY <1>3 DEF Staging
<1>6. MineTypes'
  BY <1>2, <1>3 DEF MineInv, MineTypes
<1>7. OneMiner'
  BY <1>1, <1>2, <1>3, <1>4 DEF MineInv, OneMiner, On, Opening, Storing, Working, Applying
<1>8. RunsInOrder'
  BY <1>1, <1>2, <1>3, <1>4
  DEF MineInv, RunsInOrder, IdsOf, Committed, On, Opening, Storing, Working, Applying
<1>9. RecordIsLatest'
  BY <1>2 DEF MineInv, RecordIsLatest, Committed
<1>10. Targets'
  BY <1>1, <1>2, <1>3, <1>4, <1>5 DEF MineInv, Targets, On, Opening, Storing, Working, Applying
<1>11. JournalInOrder'
  <2>1. \A i \in DOMAIN staged' : i < Len(staged') => staged'[i].state # "staged"
    BY <1>3 DEF MineInv, MineTypes, JournalInOrder
  <2>2. QED
    BY <1>2, <1>3, <2>1 DEF JournalInOrder
<1>12. RowsInReach'
  BY <1>1, <1>2, <1>3, <1>4, <1>5 DEF MineInv, RowsInReach
<1>13. RowsSound'
  BY <1>1, <1>2, <1>3, <1>4, <1>5 DEF MineInv, RowsSound, On
<1>14. StoredAtRest'
  BY <1>1, <1>2, <1>3, <1>5 DEF MineInv, StoredAtRest, RowsSound, On
<1>15. QED
  BY <1>6, <1>7, <1>8, <1>9, <1>10, <1>11, <1>12, <1>13, <1>14 DEF MineInv

LEMMA ExistingIsCaptured ==
  ASSUME MineInv, NEW p \in Miners, CaptureExisting(p)
  PROVE  MineInv'
<1>1. miner[p].pc = "capturing" /\ Working(p)
  BY DEF CaptureExisting, On, Working, Storing, Opening
<1>2. UNCHANGED <<replicated, disk, drawers, record, runOf, staged, holder, mineFaults>>
  BY DEF CaptureExisting, Step, SetRuns, AfterStore
<1>3. /\ miner' \in [Miners -> MinerState]
      /\ \A q \in Miners : q # p => miner'[q] = miner[q]
      /\ miner'[p].pc = "creating" /\ miner'[p].want = miner[p].want
      /\ miner'[p].apply = miner[p].apply /\ miner'[p].effect = miner[p].effect
      /\ miner'[p].run = miner[p].run /\ miner'[p].stale = miner[p].stale
      /\ miner'[p].known = miner[p].known /\ miner'[p].existing = Chunked(record)
  <2> DEFINE row == [miner[p] EXCEPT !.existing = LatestCommitted, !.pc = "creating"]
  <2>0. LatestCommitted = Chunked(record) /\ Chunked(record) \subseteq Ids
    BY LatestIds DEF Chunked, Ids, MineInv, MineTypes, Contents
  <2>1. miner[p] \in MinerState
    BY DEF MineInv, MineTypes
  <2>2. /\ row \in MinerState /\ row.pc = "creating" /\ row.want = miner[p].want
        /\ row.apply = miner[p].apply /\ row.effect = miner[p].effect
        /\ row.run = miner[p].run /\ row.stale = miner[p].stale /\ row.known = miner[p].known
        /\ row.existing = Chunked(record)
    BY <2>0, <2>1 DEF MinerState
  <2>3. miner' = [miner EXCEPT ![p] = row]
    BY DEF CaptureExisting, MineInv, MineTypes
  <2> HIDE DEF row
  <2>4. QED
    BY <2>2, <2>3, MinerBecomes DEF MineInv
<1>4. \A q \in Miners : q # p => miner'[q] = miner[q] /\ miner[q].pc \in {"down", "ready", "waiting"}
  BY <1>1, <1>3, Alone DEF Working, Storing, Opening, On
<1>5. LastEffect' = LastEffect /\ (Staging' <=> Staging)
  BY <1>2 DEF LastEffect, Staging
<1>6. MineTypes'
  BY <1>2, <1>3 DEF MineInv, MineTypes
<1>7. OneMiner'
  BY <1>1, <1>2, <1>3, <1>4 DEF MineInv, OneMiner, On, Opening, Storing, Working, Applying
<1>8. RunsInOrder'
  BY <1>1, <1>2, <1>3, <1>4
  DEF MineInv, RunsInOrder, IdsOf, Committed, On, Opening, Storing, Working, Applying
<1>9. RecordIsLatest'
  BY <1>2 DEF MineInv, RecordIsLatest, Committed
<1>10. Targets'
  BY <1>1, <1>2, <1>3, <1>4, <1>5 DEF MineInv, Targets, On, Opening, Storing, Working, Applying
<1>11. JournalInOrder'
  BY <1>2, <1>5 DEF MineInv, JournalInOrder
<1>12. RowsInReach'
  <2>1. ASSUME ~replicated, mineFaults = 0
        PROVE  \A d \in drawers : d[1] \in Chunked(record)
    <3>1. \A q \in Miners : miner[q].pc \notin {"adding", "committing", "sweeping", "forgetting"}
      BY <1>1, <1>4
    <3>2. drawers = RowsOf(record)
      BY <2>1, <3>1 DEF MineInv, StoredAtRest
    <3>3. QED
      BY <3>2 DEF RowsOf
  <2>2. QED
    BY <1>1, <1>2, <1>3, <1>4, <1>5, <2>1 DEF MineInv, RowsInReach
<1>13. RowsSound'
  BY <1>1, <1>2, <1>3, <1>4, <1>5 DEF MineInv, RowsSound, On
<1>14. StoredAtRest'
  BY <1>1, <1>2, <1>3, <1>4, <1>5 DEF MineInv, StoredAtRest
<1>15. QED
  BY <1>6, <1>7, <1>8, <1>9, <1>10, <1>11, <1>12, <1>13, <1>14 DEF MineInv

LEMMA RunIsCreated ==
  ASSUME MineInv, NEW p \in Miners, CreatePendingRun(p)
  PROVE  MineInv'
<1>1. miner[p].pc = "creating" /\ Working(p)
  BY DEF CreatePendingRun, On, Working, Storing, Opening
<1>2. UNCHANGED <<replicated, disk, drawers, record, staged, holder, mineFaults>>
  BY DEF CreatePendingRun, Step, SetRuns, AfterStore
<1>3. /\ miner' \in [Miners -> MinerState]
      /\ \A q \in Miners : q # p => miner'[q] = miner[q]
      /\ miner'[p].pc = "clearing" /\ miner'[p].want = miner[p].want
      /\ miner'[p].apply = miner[p].apply /\ miner'[p].effect = miner[p].effect
      /\ miner'[p].existing = miner[p].existing /\ miner'[p].stale = miner[p].stale
      /\ miner'[p].known = miner[p].known /\ miner'[p].run \in MineRuns
      /\ runOf' \in [MineRuns -> [status : {"none", "pending", "stale", "committed", "failed"},
                                version : FileVersions]]
      /\ runOf'[miner'[p].run].status = "pending" /\ runOf'[miner'[p].run].version = miner[p].apply
      /\ ~Committed(miner'[p].run)
      /\ \A r \in MineRuns : r > miner'[p].run => runOf'[r].status = "none"
      /\ \A r \in MineRuns : r # miner'[p].run => runOf'[r] = runOf[r]
  <2>1. PICK r \in Unused :
          /\ runOf' = [runOf EXCEPT ![r] = [status |-> "pending", version |-> miner[p].apply]]
          /\ miner' = [miner EXCEPT ![p].run = r, ![p].pc = "clearing"]
    BY DEF CreatePendingRun
  <2>2. r \in MineRuns /\ \A q \in MineRuns : q >= r => runOf[q].status = "none"
    BY <2>1 DEF Unused
  <2>3. miner[p] \in MinerState /\ miner[p].apply \in FileVersions
    BY <1>1 DEF MineInv, MineTypes, Targets, MinerState, Contents
  <2>4. /\ runOf' \in [MineRuns -> [status : {"none", "pending", "stale", "committed", "failed"},
                                   version : FileVersions]]
        /\ runOf'[r].status = "pending" /\ runOf'[r].version = miner[p].apply
        /\ \A q \in MineRuns : q # r => runOf'[q] = runOf[q]
    BY <2>1, <2>2, <2>3 DEF MineInv, MineTypes
  <2>5. ~Committed(r) /\ \A q \in MineRuns : q > r => runOf'[q].status = "none"
    BY <2>2, <2>4 DEF Committed, MineRuns
  <2> DEFINE row == [miner[p] EXCEPT !.run = r, !.pc = "clearing"]
  <2>6. /\ row \in MinerState /\ row.pc = "clearing" /\ row.run = r
        /\ row.want = miner[p].want /\ row.apply = miner[p].apply /\ row.effect = miner[p].effect
        /\ row.existing = miner[p].existing /\ row.stale = miner[p].stale /\ row.known = miner[p].known
    BY <2>2, <2>3 DEF MinerState
  <2>7. miner' = [miner EXCEPT ![p] = row]
    BY <2>1 DEF MineInv, MineTypes
  <2> HIDE DEF row
  <2>8. QED
    BY <2>2, <2>4, <2>5, <2>6, <2>7, MinerBecomes DEF MineInv
<1>4. \A q \in Miners : q # p => miner'[q] = miner[q] /\ miner[q].pc \in {"down", "ready", "waiting"}
  BY <1>1, <1>3, Alone DEF Working, Storing, Opening, On
<1>5. LastEffect' = LastEffect /\ (Staging' <=> Staging)
  BY <1>2 DEF LastEffect, Staging
<1>6. MineTypes'
  BY <1>2, <1>3 DEF MineInv, MineTypes
<1>7. OneMiner'
  BY <1>1, <1>2, <1>3, <1>4 DEF MineInv, OneMiner, On, Opening, Storing, Working, Applying
<1>8. RunsInOrder'
  <2>1. ASSUME NEW q \in Miners
        PROVE  miner'[q].pc \notin {"reading", "pruning", "marking"} /\ ~On(q, "pruning")'
    BY <1>1, <1>3, <1>4 DEF On
  <2>2. QED
    BY <1>1, <1>3, <1>4, <2>1 DEF RunsInOrder
<1>9. RecordIsLatest'
  BY <1>2, <1>3 DEF MineInv, RecordIsLatest, Committed
<1>10. Targets'
  BY <1>1, <1>2, <1>3, <1>4, <1>5 DEF MineInv, Targets, On, Opening, Storing, Working, Applying
<1>11. JournalInOrder'
  BY <1>2, <1>5 DEF MineInv, JournalInOrder
<1>12. RowsInReach'
  BY <1>1, <1>2, <1>3, <1>4, <1>5 DEF MineInv, RowsInReach
<1>13. RowsSound'
  BY <1>1, <1>2, <1>3, <1>4, <1>5 DEF MineInv, RowsSound, On
<1>14. StoredAtRest'
  BY <1>1, <1>2, <1>3, <1>4, <1>5 DEF MineInv, StoredAtRest
<1>15. QED
  BY <1>6, <1>7, <1>8, <1>9, <1>10, <1>11, <1>12, <1>13, <1>14 DEF MineInv

LEMMA RowsAreCleared ==
  ASSUME MineInv, NEW p \in Miners, ClearExisting(p)
  PROVE  MineInv'
<1>1. miner[p].pc = "clearing" /\ Working(p) /\ Applying(p)
  BY DEF ClearExisting, On, Working, Storing, Opening, Applying
<1>2. UNCHANGED <<replicated, disk, record, runOf, staged, holder, mineFaults>>
  BY DEF ClearExisting, Step, SetRuns, AfterStore
<1>3. /\ miner' \in [Miners -> MinerState]
      /\ \A q \in Miners : q # p => miner'[q] = miner[q]
      /\ miner'[p].pc = "adding" /\ miner'[p].want = miner[p].want
      /\ miner'[p].apply = miner[p].apply /\ miner'[p].effect = miner[p].effect
      /\ miner'[p].run = miner[p].run /\ miner'[p].existing = miner[p].existing
      /\ miner'[p].stale = miner[p].stale /\ miner'[p].known = miner[p].known
      /\ drawers' = {d \in drawers : d[1] \notin Chunked(miner[p].apply)}
  <2>1. Chunked(miner[p].apply) = ChunksOf[miner[p].apply]
    BY <1>1 DEF Chunked, MineInv, Targets
  <2>2. QED
    BY <2>1, MinerSteps DEF ClearExisting, Without, MineInv
<1>4. \A q \in Miners : q # p => miner'[q] = miner[q] /\ miner[q].pc \in {"down", "ready", "waiting"}
  BY <1>1, <1>3, Alone DEF Working, Storing, Opening, On
<1>5. LastEffect' = LastEffect /\ (Staging' <=> Staging)
  BY <1>2 DEF LastEffect, Staging
<1>6. MineTypes'
  BY <1>2, <1>3 DEF MineInv, MineTypes
<1>7. OneMiner'
  BY <1>1, <1>2, <1>3, <1>4 DEF MineInv, OneMiner, On, Opening, Storing, Working, Applying
<1>8. RunsInOrder'
  BY <1>1, <1>2, <1>3, <1>4
  DEF MineInv, RunsInOrder, IdsOf, Committed, On, Opening, Storing, Working, Applying
<1>9. RecordIsLatest'
  BY <1>2 DEF MineInv, RecordIsLatest, Committed
<1>10. Targets'
  BY <1>1, <1>2, <1>3, <1>4, <1>5 DEF MineInv, Targets, On, Opening, Storing, Working, Applying
<1>11. JournalInOrder'
  BY <1>2, <1>5 DEF MineInv, JournalInOrder
<1>12. RowsInReach'
  BY <1>1, <1>2, <1>3, <1>4, <1>5 DEF MineInv, RowsInReach
<1>13. RowsSound'
  BY <1>1, <1>2, <1>3, <1>4, <1>5 DEF MineInv, RowsSound, On
<1>14. StoredAtRest'
  <2>1. replicated => Staging
    BY <1>1 DEF MineInv, Targets
  <2>2. QED
    BY <1>2, <1>3, <1>5, <2>1 DEF StoredAtRest
<1>15. QED
  BY <1>6, <1>7, <1>8, <1>9, <1>10, <1>11, <1>12, <1>13, <1>14 DEF MineInv

LEMMA RowsAreAdded ==
  ASSUME MineInv, NEW p \in Miners, AddRows(p)
  PROVE  MineInv'
<1>1. miner[p].pc = "adding" /\ Working(p) /\ Applying(p)
  BY DEF AddRows, On, Working, Storing, Opening, Applying
<1>2. UNCHANGED <<replicated, disk, record, runOf, staged, holder, mineFaults>>
  BY DEF AddRows, Step, SetRuns, AfterStore
<1>3. /\ miner' \in [Miners -> MinerState]
      /\ \A q \in Miners : q # p => miner'[q] = miner[q]
      /\ miner'[p].pc = "committing" /\ miner'[p].want = miner[p].want
      /\ miner'[p].apply = miner[p].apply /\ miner'[p].effect = miner[p].effect
      /\ miner'[p].run = miner[p].run /\ miner'[p].existing = miner[p].existing
      /\ miner'[p].stale = miner[p].stale /\ miner'[p].known = miner[p].known
      /\ drawers' = drawers \cup RowsOf(miner[p].apply) /\ miner[p].apply \in FileVersions
  <2>1. miner[p].apply \in FileVersions
    BY <1>1 DEF MineInv, Targets, MineTypes, MinerState, Contents
  <2>2. Chunked(miner[p].apply) = ChunksOf[miner[p].apply]
    BY <1>1 DEF Chunked, MineInv, Targets
  <2>3. QED
    BY <2>1, <2>2, MinerSteps DEF AddRows, RowsOf, MineInv
<1>4. \A q \in Miners : q # p => miner'[q] = miner[q] /\ miner[q].pc \in {"down", "ready", "waiting"}
  BY <1>1, <1>3, Alone DEF Working, Storing, Opening, On
<1>5. LastEffect' = LastEffect /\ (Staging' <=> Staging)
  BY <1>2 DEF LastEffect, Staging
<1>6. MineTypes'
  <2>1. Chunked(miner[p].apply) \subseteq Ids
    BY <1>3 DEF Chunked, Ids
  <2>2. drawers' \subseteq Ids \X FileVersions
    BY <1>3, <2>1 DEF RowsOf, MineInv, MineTypes
  <2>3. QED
    BY <1>2, <1>3, <2>2 DEF MineInv, MineTypes
<1>7. OneMiner'
  BY <1>1, <1>2, <1>3, <1>4 DEF MineInv, OneMiner, On, Opening, Storing, Working, Applying
<1>8. RunsInOrder'
  BY <1>1, <1>2, <1>3, <1>4
  DEF MineInv, RunsInOrder, IdsOf, Committed, On, Opening, Storing, Working, Applying
<1>9. RecordIsLatest'
  BY <1>2 DEF MineInv, RecordIsLatest, Committed
<1>10. Targets'
  BY <1>1, <1>2, <1>3, <1>4, <1>5 DEF MineInv, Targets, On, Opening, Storing, Working, Applying
<1>11. JournalInOrder'
  BY <1>2, <1>5 DEF MineInv, JournalInOrder
<1>12. RowsInReach'
  <2>1. \A d \in drawers' : d \in drawers \/ d[1] \in Chunked(miner[p].apply)
    BY <1>3 DEF RowsOf
  <2>2. replicated => miner[p].apply = LastEffect.version
    BY <1>1 DEF MineInv, Targets
  <2>3. ~replicated => ~Staging
    BY DEF MineInv, OneMiner, Staging
  <2>4. QED
    BY <1>1, <1>2, <1>3, <1>4, <1>5, <2>1, <2>2, <2>3 DEF MineInv, RowsInReach, MineTypes
<1>13. RowsSound'
  <2>1. /\ RowsOf(miner[p].apply) \subseteq drawers'
        /\ \A d \in drawers' : d[1] \in Chunked(miner[p].apply) => d[2] = miner[p].apply
    BY <1>1, <1>3 DEF RowsOf, MineInv, RowsSound, On
  <2>2. QED
    BY <1>2, <1>3, <1>4, <2>1 DEF RowsSound, On
<1>14. StoredAtRest'
  <2>1. replicated => Staging
    BY <1>1 DEF MineInv, Targets
  <2>2. QED
    BY <1>2, <1>3, <1>5, <2>1 DEF StoredAtRest
<1>15. QED
  BY <1>6, <1>7, <1>8, <1>9, <1>10, <1>11, <1>12, <1>13, <1>14 DEF MineInv

LEMMA RunIsCommitted ==
  ASSUME MineInv, NEW p \in Miners, CommitMine(p)
  PROVE  MineInv'
<1>1. miner[p].pc = "committing" /\ Working(p) /\ Applying(p)
  BY DEF CommitMine, On, Working, Storing, Opening, Applying
<1>2. UNCHANGED <<replicated, disk, drawers, staged, holder, mineFaults>>
  BY DEF CommitMine, Step, SetRuns, AfterStore
<1>3. /\ miner' \in [Miners -> MinerState]
      /\ \A q \in Miners : q # p => miner'[q] = miner[q]
      /\ miner'[p].pc = "sweeping" /\ miner'[p].want = miner[p].want
      /\ miner'[p].apply = miner[p].apply /\ miner'[p].effect = miner[p].effect
      /\ miner'[p].run = miner[p].run /\ miner'[p].existing = miner[p].existing
      /\ miner'[p].stale = miner[p].stale /\ miner'[p].known = miner[p].known
      /\ record' = miner[p].apply /\ miner[p].apply \in FileVersions
      /\ miner[p].run \in MineRuns
      /\ runOf' \in [MineRuns -> [status : {"none", "pending", "stale", "committed", "failed"},
                                version : FileVersions]]
      /\ runOf'[miner[p].run].status = "committed" /\ runOf'[miner[p].run].version = miner[p].apply
      /\ \A r \in MineRuns : r > miner[p].run => runOf[r].status = "none"
      /\ \A r \in MineRuns : r # miner[p].run => runOf'[r] = runOf[r]
  <2>1. miner[p].apply \in FileVersions
    BY <1>1 DEF MineInv, Targets, MineTypes, MinerState, Contents
  <2>2. /\ miner[p].run \in MineRuns /\ runOf[miner[p].run].version = miner[p].apply
        /\ \A r \in MineRuns : r > miner[p].run => runOf[r].status = "none"
    BY <1>1 DEF MineInv, RunsInOrder
  <2>3. runOf' = [runOf EXCEPT ![miner[p].run].status = "committed"]
    BY DEF CommitMine
  <2>4. /\ runOf' \in [MineRuns -> [status : {"none", "pending", "stale", "committed", "failed"},
                                   version : FileVersions]]
        /\ runOf'[miner[p].run].status = "committed"
        /\ runOf'[miner[p].run].version = miner[p].apply
        /\ \A r \in MineRuns : r # miner[p].run => runOf'[r] = runOf[r]
    BY <2>2, <2>3 DEF MineInv, MineTypes
  <2>5. QED
    BY <2>1, <2>2, <2>4, MinerSteps DEF CommitMine, MineInv
<1>4. \A q \in Miners : q # p => miner'[q] = miner[q] /\ miner[q].pc \in {"down", "ready", "waiting"}
  BY <1>1, <1>3, Alone DEF Working, Storing, Opening, On
<1>5. LastEffect' = LastEffect /\ (Staging' <=> Staging)
  BY <1>2 DEF LastEffect, Staging
<1>6. MineTypes'
  BY <1>2, <1>3 DEF MineInv, MineTypes, Contents
<1>7. OneMiner'
  BY <1>1, <1>2, <1>3, <1>4 DEF MineInv, OneMiner, On, Opening, Storing, Working, Applying
<1>8. RunsInOrder'
  <2>1. ASSUME NEW q \in Miners
        PROVE  miner'[q].pc \notin {"reading", "pruning", "marking"} /\ ~On(q, "pruning")'
    BY <1>1, <1>3, <1>4 DEF On
  <2>2. QED
    BY <1>1, <1>3, <1>4, <2>1 DEF RunsInOrder
<1>9. RecordIsLatest'
  <2>1. \A x \in MineRuns : Committed(x)' => x <= miner[p].run
    BY <1>3, MineAssumption DEF Committed, MineRuns
  <2>2. QED
    BY <1>3, <2>1, MineAssumption DEF RecordIsLatest, Committed
<1>10. Targets'
  BY <1>1, <1>2, <1>3, <1>4, <1>5 DEF MineInv, Targets, On, Opening, Storing, Working, Applying
<1>11. JournalInOrder'
  <2>1. replicated => Staging
    BY <1>1 DEF MineInv, Targets
  <2>2. ~replicated => staged = <<>>
    BY DEF MineInv, OneMiner
  <2>3. QED
    BY <1>2, <1>5, <2>1, <2>2 DEF MineInv, JournalInOrder, MineTypes
<1>12. RowsInReach'
  BY <1>1, <1>2, <1>3, <1>4, <1>5 DEF MineInv, RowsInReach
<1>13. RowsSound'
  BY <1>2, <1>1, <1>3, <1>4, <1>5 DEF MineInv, RowsSound, On
<1>14. StoredAtRest'
  <2>1. replicated => Staging
    BY <1>1 DEF MineInv, Targets
  <2>2. QED
    BY <1>2, <1>3, <1>5, <2>1 DEF StoredAtRest
<1>15. QED
  BY <1>6, <1>7, <1>8, <1>9, <1>10, <1>11, <1>12, <1>13, <1>14 DEF MineInv

\* What the sweep leaves are the rows of the version recorded.
LEMMA SweptClean ==
  ASSUME MineInv, NEW p \in Miners, miner[p].pc = "sweeping", Applying(p),
         replicated \/ mineFaults = 0
  PROVE  drawers \ {d \in drawers : d[1] \in Leftover(p)} = RowsOf(record)
<1>1. /\ record = miner[p].apply /\ RowsOf(record) \subseteq drawers
      /\ \A d \in drawers : d[1] \in Chunked(record) => d[2] = record
  BY DEF MineInv, Targets, RowsSound
<1>2. \A d \in drawers : d[1] \in Leftover(p) \/ d[1] \in Chunked(record)
  <2>1. CASE replicated
    <3>1. /\ Staging /\ miner[p].effect = Len(staged) /\ miner[p].apply = LastEffect.version
          /\ Len(staged) # 0
      BY <2>1 DEF MineInv, Targets, MineTypes, Staging
    <3>2. staged[miner[p].effect].previous = LastEffect.previous /\ miner[p].effect # 0
      BY <3>1 DEF LastEffect
    <3>3. \A d \in drawers : d[1] \in LastEffect.previous \/ d[1] \in Chunked(record)
      BY <1>1, <3>1 DEF MineInv, RowsInReach
    <3>4. QED
      BY <1>1, <3>2, <3>3 DEF Leftover
  <2>2. CASE ~replicated
    <3>1. \A d \in drawers : d[1] \in miner[p].existing \/ d[1] \in Chunked(record)
      BY <1>1, <2>2 DEF MineInv, RowsInReach
    <3>2. QED
      BY <1>1, <3>1 DEF Leftover
  <2>3. QED
    BY <2>1, <2>2 DEF MineInv, MineTypes
<1>3. \A d \in drawers : d[1] \in Chunked(record) => d \in RowsOf(record)
  BY <1>1, RowIsPair DEF RowsOf, MineInv
<1>4. \A d \in RowsOf(record) : d[1] \in Chunked(record)
  BY DEF RowsOf
<1>5. \A d \in drawers : d[1] \in Chunked(record) => d[1] \notin Leftover(p)
  BY <1>1 DEF Leftover
<1>6. QED
  BY <1>1, <1>2, <1>3, <1>4, <1>5

LEMMA LeftoversAreSwept ==
  ASSUME MineInv, NEW p \in Miners, Sweep(p)
  PROVE  MineInv'
<1>1. miner[p].pc = "sweeping" /\ Working(p) /\ Applying(p)
  BY DEF Sweep, On, Working, Storing, Opening, Applying
<1>2. UNCHANGED <<replicated, disk, record, runOf, staged, holder, mineFaults>>
  BY DEF Sweep, Step, SetRuns, AfterStore
<1>3. /\ miner' \in [Miners -> MinerState]
      /\ \A q \in Miners : q # p => miner'[q] = miner[q]
      /\ miner'[p].pc \in {"activating", "ready"}
      /\ (replicated <=> miner'[p].pc = "activating")
      /\ miner'[p].effect = IF replicated THEN miner[p].effect ELSE 0
      /\ (replicated => miner'[p].apply = miner[p].apply)
      /\ drawers' = drawers \ {d \in drawers : d[1] \in Leftover(p)}
  <2>1. drawers' = drawers \ {d \in drawers : d[1] \in Leftover(p)}
    BY DEF Sweep, Without
  <2>2. CASE replicated
    <3>1. Step(p, "activating")
      BY <2>2 DEF Sweep, AfterStore, Step, MineInv, MineTypes
    <3>2. QED
      BY <2>1, <2>2, <3>1, MinerSteps DEF MineInv
  <2>3. CASE ~replicated
    <3>1. miner' = [miner EXCEPT ![p] = ReadyMiner]
      BY <2>3 DEF Sweep, AfterStore
    <3>2. miner'[p] = ReadyMiner
      BY <3>1 DEF MineInv, MineTypes
    <3>3. QED
      BY <2>1, <2>3, <3>1, <3>2, RestingMiners, MinerBecomes DEF MineInv
  <2>4. QED
    BY <2>2, <2>3
<1>4. \A q \in Miners : q # p => miner'[q] = miner[q] /\ miner[q].pc \in {"down", "ready", "waiting"}
  BY <1>1, <1>3, Alone DEF Working, Storing, Opening, On
<1>5. LastEffect' = LastEffect /\ (Staging' <=> Staging)
  BY <1>2 DEF LastEffect, Staging
<1>6. MineTypes'
  BY <1>2, <1>3 DEF MineInv, MineTypes
<1>7. OneMiner'
  BY <1>1, <1>2, <1>3, <1>4 DEF MineInv, OneMiner, On, Opening, Storing, Working, Applying
<1>8. RunsInOrder'
  BY <1>1, <1>2, <1>3, <1>4
  DEF MineInv, RunsInOrder, IdsOf, Committed, On, Opening, Storing, Working, Applying
<1>9. RecordIsLatest'
  BY <1>2 DEF MineInv, RecordIsLatest, Committed
<1>10. Targets'
  BY <1>1, <1>2, <1>3, <1>4, <1>5 DEF MineInv, Targets, On, Opening, Storing, Working, Applying
<1>11. JournalInOrder'
  BY <1>2, <1>5 DEF MineInv, JournalInOrder
<1>12. RowsInReach'
  BY <1>1, <1>2, <1>3, <1>4, <1>5 DEF MineInv, RowsInReach
<1>13. RowsSound'
  <2>1. replicated => drawers' = RowsOf(record)
    BY <1>1, <1>3, SweptClean
  <2>2. QED
    BY <1>2, <1>3, <1>4, <2>1 DEF RowsSound, On
<1>14. StoredAtRest'
  <2>1. replicated => Staging
    BY <1>1 DEF MineInv, Targets
  <2>2. ~replicated /\ mineFaults = 0 => drawers' = RowsOf(record)
    BY <1>1, <1>3, SweptClean
  <2>3. QED
    BY <1>2, <1>3, <1>5, <2>1, <2>2 DEF StoredAtRest
<1>15. QED
  BY <1>6, <1>7, <1>8, <1>9, <1>10, <1>11, <1>12, <1>13, <1>14 DEF MineInv

LEMMA RowsAreRemoved ==
  ASSUME MineInv, NEW p \in Miners, RemoveRows(p)
  PROVE  MineInv'
<1>1. miner[p].pc = "removing" /\ Working(p) /\ Applying(p)
  BY DEF RemoveRows, On, Working, Storing, Opening, Applying
<1>2. UNCHANGED <<replicated, disk, record, runOf, staged, holder, mineFaults>>
  BY DEF RemoveRows, Step, SetRuns, AfterStore
<1>3. /\ miner' \in [Miners -> MinerState]
      /\ \A q \in Miners : q # p => miner'[q] = miner[q]
      /\ miner'[p].pc = "forgetting" /\ miner'[p].want = miner[p].want
      /\ miner'[p].apply = miner[p].apply /\ miner'[p].effect = miner[p].effect
      /\ miner'[p].run = miner[p].run /\ miner'[p].existing = miner[p].existing
      /\ miner'[p].stale = miner[p].stale /\ miner'[p].known = miner[p].known
      /\ drawers' = {d \in drawers : d[1] \notin Chunked(record)}
  <2>1. QED
    BY LatestIds, MinerSteps DEF RemoveRows, Without, MineInv
<1>4. \A q \in Miners : q # p => miner'[q] = miner[q] /\ miner[q].pc \in {"down", "ready", "waiting"}
  BY <1>1, <1>3, Alone DEF Working, Storing, Opening, On
<1>5. LastEffect' = LastEffect /\ (Staging' <=> Staging)
  BY <1>2 DEF LastEffect, Staging
<1>6. MineTypes'
  BY <1>2, <1>3 DEF MineInv, MineTypes
<1>7. OneMiner'
  BY <1>1, <1>2, <1>3, <1>4 DEF MineInv, OneMiner, On, Opening, Storing, Working, Applying
<1>8. RunsInOrder'
  BY <1>1, <1>2, <1>3, <1>4
  DEF MineInv, RunsInOrder, IdsOf, Committed, On, Opening, Storing, Working, Applying
<1>9. RecordIsLatest'
  BY <1>2 DEF MineInv, RecordIsLatest, Committed
<1>10. Targets'
  BY <1>1, <1>2, <1>3, <1>4, <1>5 DEF MineInv, Targets, On, Opening, Storing, Working, Applying
<1>11. JournalInOrder'
  BY <1>2, <1>5 DEF MineInv, JournalInOrder
<1>12. RowsInReach'
  BY <1>1, <1>2, <1>3, <1>4, <1>5 DEF MineInv, RowsInReach
<1>13. RowsSound'
  <2>1. ~replicated /\ mineFaults = 0 => drawers = RowsOf(record)
    BY <1>1, <1>4 DEF MineInv, StoredAtRest
  <2>2. ~replicated /\ mineFaults = 0 => drawers' = {}
    BY <1>3, <2>1 DEF RowsOf
  <2>3. QED
    BY <1>2, <1>3, <1>4, <2>2 DEF RowsSound, On
<1>14. StoredAtRest'
  <2>1. replicated => Staging
    BY <1>1 DEF MineInv, Targets
  <2>2. QED
    BY <1>2, <1>3, <1>5, <2>1 DEF StoredAtRest
<1>15. QED
  BY <1>6, <1>7, <1>8, <1>9, <1>10, <1>11, <1>12, <1>13, <1>14 DEF MineInv

LEMMA SourceIsForgotten ==
  ASSUME MineInv, NEW p \in Miners, Forget(p)
  PROVE  MineInv'
<1>1. miner[p].pc = "forgetting" /\ Working(p) /\ Applying(p)
  BY DEF Forget, On, Working, Storing, Opening, Applying
<1>2. UNCHANGED <<replicated, disk, drawers, staged, holder, mineFaults>>
  BY DEF Forget, Step, SetRuns, AfterStore
<1>3. /\ miner' \in [Miners -> MinerState]
      /\ \A q \in Miners : q # p => miner'[q] = miner[q]
      /\ miner'[p].pc \in {"sweeping", "ready"}
      /\ (replicated <=> miner'[p].pc = "sweeping")
      /\ miner'[p].effect = IF replicated THEN miner[p].effect ELSE 0
      /\ (replicated => miner'[p].apply = Gone /\ miner[p].apply = Gone) /\ record' = Gone
      /\ runOf' \in [MineRuns -> [status : {"none", "pending", "stale", "committed", "failed"},
                                version : FileVersions]]
      /\ \A r \in MineRuns : runOf'[r].status = "none"
  <2>1. runOf' = [r \in MineRuns |-> [runOf[r] EXCEPT !.status = "none"]] /\ record' = Gone
    BY DEF Forget, SetRuns
  <2>2. /\ runOf' \in [MineRuns -> [status : {"none", "pending", "stale", "committed", "failed"},
                                   version : FileVersions]]
        /\ \A r \in MineRuns : runOf'[r].status = "none"
    BY <2>1 DEF MineInv, MineTypes
  <2>3. CASE replicated
    <3> DEFINE row == [miner[p] EXCEPT !.pc = "sweeping", !.existing = {}]
    <3>1. miner[p] \in MinerState /\ miner[p].apply = Gone
      BY <1>1 DEF MineInv, MineTypes, Targets
    <3>2. /\ row \in MinerState /\ row.pc = "sweeping" /\ row.effect = miner[p].effect
          /\ row.apply = Gone
      BY <3>1 DEF MinerState
    <3>3. miner' = [miner EXCEPT ![p] = row]
      BY <2>3 DEF Forget, MineInv, MineTypes
    <3> HIDE DEF row
    <3>4. QED
      BY <2>1, <2>2, <2>3, <3>1, <3>2, <3>3, MinerBecomes DEF MineInv
  <2>4. CASE ~replicated
    <3>1. miner' = [miner EXCEPT ![p] = ReadyMiner]
      BY <2>4 DEF Forget
    <3>2. miner'[p] = ReadyMiner
      BY <3>1 DEF MineInv, MineTypes
    <3>3. QED
      BY <2>1, <2>2, <2>4, <3>1, <3>2, RestingMiners, MinerBecomes DEF MineInv
  <2>5. QED
    BY <2>3, <2>4
<1>4. \A q \in Miners : q # p => miner'[q] = miner[q] /\ miner[q].pc \in {"down", "ready", "waiting"}
  BY <1>1, <1>3, Alone DEF Working, Storing, Opening, On
<1>5. LastEffect' = LastEffect /\ (Staging' <=> Staging)
  BY <1>2 DEF LastEffect, Staging
<1>6. MineTypes'
  BY <1>2, <1>3 DEF MineInv, MineTypes, Contents
<1>7. OneMiner'
  BY <1>1, <1>2, <1>3, <1>4 DEF MineInv, OneMiner, On, Opening, Storing, Working, Applying
<1>8. RunsInOrder'
  <2>1. ASSUME NEW q \in Miners
        PROVE  miner'[q].pc \notin {"reading", "pruning", "marking"} /\ ~On(q, "pruning")'
    BY <1>1, <1>3, <1>4 DEF On
  <2>2. QED
    BY <1>1, <1>3, <1>4, <2>1 DEF RunsInOrder
<1>9. RecordIsLatest'
  BY <1>3 DEF RecordIsLatest, Committed
<1>10. Targets'
  BY <1>1, <1>2, <1>3, <1>4, <1>5 DEF MineInv, Targets, On, Opening, Storing, Working, Applying
<1>11. JournalInOrder'
  <2>1. replicated => Staging
    BY <1>1 DEF MineInv, Targets
  <2>2. ~replicated => staged = <<>>
    BY DEF MineInv, OneMiner
  <2>3. QED
    BY <1>2, <1>5, <2>1, <2>2 DEF MineInv, JournalInOrder, MineTypes
<1>12. RowsInReach'
  BY <1>1, <1>2, <1>3, <1>4, <1>5 DEF MineInv, RowsInReach
<1>13. RowsSound'
  <2>1. RowsOf(Gone) = {} /\ Chunked(Gone) = {}
    BY DEF RowsOf, Chunked
  <2>2. QED
    BY <1>2, <1>3, <1>4, <2>1 DEF RowsSound, On
<1>14. StoredAtRest'
  <2>1. replicated => Staging
    BY <1>1 DEF MineInv, Targets
  <2>2. ~replicated /\ mineFaults = 0 => drawers' = {}
    BY <1>1, <1>2 DEF MineInv, RowsSound, On
  <2>3. RowsOf(Gone) = {}
    BY DEF RowsOf, Chunked
  <2>4. QED
    BY <1>2, <1>3, <1>5, <2>1, <2>2, <2>3 DEF StoredAtRest
<1>15. QED
  BY <1>6, <1>7, <1>8, <1>9, <1>10, <1>11, <1>12, <1>13, <1>14 DEF MineInv

LEMMA WriteFails ==
  ASSUME MineInv, NEW p \in Miners, FailWrite(p)
  PROVE  MineInv'
<1>1. /\ miner[p].pc \in {"clearing", "adding"} /\ Working(p) /\ Applying(p)
      /\ holder = NoOne \/ holder = p
  <2>1. miner[p].pc \in {"clearing", "adding"} /\ Working(p) /\ Applying(p)
    BY DEF FailWrite, On, Working, Storing, Opening, Applying
  <2>2. QED
    BY <2>1, Alone DEF MineInv, OneMiner, MineTypes
<1>2. UNCHANGED <<replicated, disk, record, staged>>
  BY DEF FailWrite, Step, SetRuns, AfterStore
<1>3. /\ miner' \in [Miners -> MinerState]
      /\ \A q \in Miners : q # p => miner'[q] = miner[q]
      /\ miner'[p].pc \in {"down", "ready"} /\ miner'[p].effect = 0 /\ miner'[p].run = 0
      /\ holder' = NoOne /\ mineFaults' \in 0..MaxMineFaults /\ mineFaults' # 0
      /\ runOf' \in [MineRuns -> [status : {"none", "pending", "stale", "committed", "failed"},
                                version : FileVersions]]
      /\ \A r \in MineRuns : (Committed(r)' <=> Committed(r)) /\ runOf'[r].version = runOf[r].version
      /\ drawers' \subseteq Ids \X FileVersions
      /\ \A d \in drawers' : d \in drawers \/ d[1] \in Chunked(miner[p].apply)
  <2>1. miner[p].apply \in FileVersions /\ Chunked(miner[p].apply) = ChunksOf[miner[p].apply]
    BY <1>1 DEF Chunked, MineInv, Targets, MineTypes, MinerState, Contents
  <2>2. /\ miner[p].run \in MineRuns /\ ~Committed(miner[p].run)
    BY <1>1 DEF MineInv, RunsInOrder, Committed
  <2>3. \A r \in MineRuns :
          runOf'[r] = IF r \in {miner[p].run} THEN [runOf[r] EXCEPT !.status = "failed"] ELSE runOf[r]
    BY DEF FailWrite, SetRuns
  <2>4. /\ runOf' \in [MineRuns -> [status : {"none", "pending", "stale", "committed", "failed"},
                                   version : FileVersions]]
    BY DEF FailWrite, SetRuns, MineInv, MineTypes
  <2>5. \A r \in MineRuns : (Committed(r)' <=> Committed(r)) /\ runOf'[r].version = runOf[r].version
    BY <2>2, <2>3 DEF Committed, MineInv, MineTypes
  <2>6. \/ drawers' \subseteq drawers
        \/ drawers' = drawers \cup {<<i, miner[p].apply>> : i \in Chunked(miner[p].apply)}
    BY <2>1 DEF FailWrite, Without
  <2>7. Chunked(miner[p].apply) \subseteq Ids
    BY <2>1 DEF Ids
  <2>8. /\ drawers' \subseteq Ids \X FileVersions
        /\ \A d \in drawers' : d \in drawers \/ d[1] \in Chunked(miner[p].apply)
    BY <2>1, <2>6, <2>7 DEF MineInv, MineTypes
  <2>9. holder' = NoOne
    BY <1>1 DEF FailWrite
  <2>10. mineFaults' \in 0..MaxMineFaults /\ mineFaults' # 0
    BY MineAssumption DEF FailWrite, MineInv, MineTypes
  <2>11. miner' = [miner EXCEPT ![p] = ReadyMiner]
    BY DEF FailWrite
  <2>12. QED
    BY <2>4, <2>5, <2>8, <2>9, <2>10, <2>11, MinerRests DEF MineInv
<1>4. \A q \in Miners : q # p => miner'[q] = miner[q] /\ miner[q].pc \in {"down", "ready", "waiting"}
  BY <1>1, <1>3, Alone DEF Working, Storing, Opening, On
<1>5. LastEffect' = LastEffect /\ (Staging' <=> Staging)
  BY <1>2 DEF LastEffect, Staging
<1>6. MineTypes'
  BY <1>2, <1>3 DEF MineInv, MineTypes
<1>7. OneMiner'
  BY <1>1, <1>2, <1>3, <1>4, MineAssumption
  DEF MineInv, OneMiner, On, Opening, Storing, Working, Applying
<1>8. RunsInOrder'
  <2>1. ASSUME NEW q \in Miners
        PROVE  miner'[q].pc \notin {"reading", "pruning", "marking"} /\ ~On(q, "pruning")'
    BY <1>1, <1>3, <1>4 DEF On
  <2>2. QED
    BY <1>1, <1>3, <1>4, <2>1 DEF RunsInOrder
<1>9. RecordIsLatest'
  BY <1>2, <1>3 DEF MineInv, RecordIsLatest
<1>10. Targets'
  BY <1>1, <1>2, <1>3, <1>4, <1>5 DEF MineInv, Targets, On, Opening, Storing, Working, Applying
<1>11. JournalInOrder'
  BY <1>2, <1>5 DEF MineInv, JournalInOrder
<1>12. RowsInReach'
  <2>1. replicated => Staging /\ miner[p].apply = LastEffect.version
    BY <1>1 DEF MineInv, Targets
  <2>2. ~replicated => ~Staging
    BY DEF MineInv, OneMiner, Staging
  <2>3. QED
    BY <1>2, <1>3, <1>5, <2>1, <2>2 DEF MineInv, RowsInReach, MineTypes
<1>13. RowsSound'
  BY <1>1, <1>2, <1>3, <1>4 DEF RowsSound, On
<1>14. StoredAtRest'
  <2>1. replicated => Staging
    BY <1>1 DEF MineInv, Targets
  <2>2. QED
    BY <1>2, <1>3, <1>5, <2>1 DEF StoredAtRest
<1>15. QED
  BY <1>6, <1>7, <1>8, <1>9, <1>10, <1>11, <1>12, <1>13, <1>14 DEF MineInv

LEMMA MinerCrashes ==
  ASSUME MineInv, NEW p \in Miners, CrashMiner(p)
  PROVE  MineInv'
<1>1. miner[p].pc # "down"
  BY DEF CrashMiner, On
<1>2. UNCHANGED <<replicated, disk, drawers, record, runOf, staged>>
  BY DEF CrashMiner, Step, SetRuns, AfterStore
<1>3. /\ miner' \in [Miners -> MinerState]
      /\ \A q \in Miners : q # p => miner'[q] = miner[q]
      /\ miner'[p].pc \in {"down", "ready"} /\ miner'[p].effect = 0 /\ miner'[p].run = 0
      /\ holder' = (IF holder = p THEN NoOne ELSE holder)
      /\ mineFaults' \in 0..MaxMineFaults /\ mineFaults' # 0
  <2>1. mineFaults' \in 0..MaxMineFaults /\ mineFaults' # 0
    BY MineAssumption DEF CrashMiner, MineInv, MineTypes
  <2>2. QED
    BY <2>1, MinerRests DEF CrashMiner, MineInv
<1>4. \A q \in Miners : q # p => miner'[q] = miner[q]
  BY <1>3
<1>5. LastEffect' = LastEffect /\ (Staging' <=> Staging)
  BY <1>2 DEF LastEffect, Staging
<1>6. MineTypes'
  BY <1>2, <1>3 DEF MineInv, MineTypes
<1>7. OneMiner'
  <2>1. NoOne \notin Miners
    BY MineAssumption
  <2>2. QED
    BY <1>1, <1>2, <1>3, <1>4, <2>1
    DEF MineInv, OneMiner, MineTypes, On, Opening, Storing, Working, Applying
<1>8. RunsInOrder'
  BY <1>1, <1>2, <1>3, <1>4
  DEF MineInv, RunsInOrder, IdsOf, Committed, On, Opening, Storing, Working, Applying
<1>9. RecordIsLatest'
  BY <1>2 DEF MineInv, RecordIsLatest, Committed
<1>10. Targets'
  BY <1>1, <1>2, <1>3, <1>4, <1>5 DEF MineInv, Targets, On, Opening, Storing, Working, Applying
<1>11. JournalInOrder'
  BY <1>2, <1>5 DEF MineInv, JournalInOrder
<1>12. RowsInReach'
  BY <1>1, <1>2, <1>3, <1>4, <1>5 DEF MineInv, RowsInReach
<1>13. RowsSound'
  BY <1>1, <1>2, <1>3, <1>4, <1>5 DEF MineInv, RowsSound, On
<1>14. StoredAtRest'
  BY <1>1, <1>2, <1>3, <1>4, <1>5 DEF MineInv, StoredAtRest
<1>15. QED
  BY <1>6, <1>7, <1>8, <1>9, <1>10, <1>11, <1>12, <1>13, <1>14 DEF MineInv

LEMMA MinerExits ==
  ASSUME MineInv, NEW p \in Miners, ExitMiner(p)
  PROVE  MineInv'
<1>1. miner[p].pc = "ready"
  BY DEF ExitMiner, On
<1>2. UNCHANGED <<replicated, disk, drawers, record, runOf, staged, holder, mineFaults>>
  BY DEF ExitMiner, Step, SetRuns, AfterStore
<1>3. /\ miner' \in [Miners -> MinerState]
      /\ \A q \in Miners : q # p => miner'[q] = miner[q]
      /\ miner'[p].pc \in {"down", "ready"} /\ miner'[p].effect = 0 /\ miner'[p].run = 0
      /\ miner'[p].pc = "down"
  <2>1. miner'[p] = Off
    BY DEF ExitMiner, MineInv, MineTypes
  <2>2. QED
    BY <2>1, RestingMiners, MinerRests DEF ExitMiner, MineInv
<1>4. \A q \in Miners : q # p => miner'[q] = miner[q]
  BY <1>3
<1>5. LastEffect' = LastEffect /\ (Staging' <=> Staging)
  BY <1>2 DEF LastEffect, Staging
<1>6. MineTypes'
  BY <1>2, <1>3 DEF MineInv, MineTypes
<1>7. OneMiner'
  BY <1>1, <1>2, <1>3, <1>4 DEF MineInv, OneMiner, On, Opening, Storing, Working, Applying
<1>8. RunsInOrder'
  BY <1>1, <1>2, <1>3, <1>4
  DEF MineInv, RunsInOrder, IdsOf, Committed, On, Opening, Storing, Working, Applying
<1>9. RecordIsLatest'
  BY <1>2 DEF MineInv, RecordIsLatest, Committed
<1>10. Targets'
  BY <1>1, <1>2, <1>3, <1>4, <1>5 DEF MineInv, Targets, On, Opening, Storing, Working, Applying
<1>11. JournalInOrder'
  BY <1>2, <1>5 DEF MineInv, JournalInOrder
<1>12. RowsInReach'
  BY <1>1, <1>2, <1>3, <1>4, <1>5 DEF MineInv, RowsInReach
<1>13. RowsSound'
  BY <1>1, <1>2, <1>3, <1>4, <1>5 DEF MineInv, RowsSound, On
<1>14. StoredAtRest'
  BY <1>1, <1>2, <1>3, <1>4, <1>5 DEF MineInv, StoredAtRest
<1>15. QED
  BY <1>6, <1>7, <1>8, <1>9, <1>10, <1>11, <1>12, <1>13, <1>14 DEF MineInv

\* A delivery fails: what was staged or applied here stays as it is.
LEMMA DeliveryFails ==
  ASSUME MineInv, NEW i \in DOMAIN staged, FailDelivery(i)
  PROVE  MineInv'
<1>1. /\ staged[i].state = "queued" /\ staged \in Seq(Effect) /\ i \in 1..Len(staged)
      /\ staged[i] \in Effect
  BY DEF FailDelivery, MineInv, MineTypes
<1>2. UNCHANGED <<replicated, disk, drawers, record, runOf, holder, miner>>
  BY DEF FailDelivery
<1>3. mineFaults' \in 0..MaxMineFaults /\ mineFaults' # 0
  BY MineAssumption DEF FailDelivery, MineInv, MineTypes
<1> DEFINE e == [staged[i] EXCEPT !.state = "failed"]
<1>4. /\ e \in Effect /\ e.state = "failed" /\ e.version = staged[i].version
      /\ \A j \in 1..Len(staged) : staged[j] \in Effect
  <2>1. /\ e \in Effect /\ e.state = "failed" /\ e.version = staged[i].version
    BY <1>1 DEF Effect
  <2>2. \A j \in 1..Len(staged) : staged[j] \in Effect
    BY <1>1
  <2>3. QED
    BY <2>1, <2>2
<1>5. staged' = [staged EXCEPT ![i] = e] /\ DOMAIN staged = 1..Len(staged)
  BY <1>1 DEF FailDelivery
<1> HIDE DEF e
<1>6. staged' = [j \in 1..Len(staged) |-> IF j = i THEN e ELSE staged[j]]
  BY <1>5
<1>7. /\ staged' \in Seq(Effect) /\ Len(staged') = Len(staged)
      /\ \A j \in DOMAIN staged : staged'[j] = IF j = i THEN e ELSE staged[j]
  BY <1>1, <1>4, <1>5, <1>6
<1>8. /\ Staging' <=> Staging
      /\ Staging => LastEffect' = LastEffect
      /\ staged # <<>> => LastEffect'.version = LastEffect.version
  BY <1>1, <1>4, <1>7 DEF Staging, LastEffect
<1>9. replicated
  BY <1>1 DEF MineInv, OneMiner, MineTypes
<1>10. MineTypes'
  BY <1>2, <1>3, <1>7 DEF MineInv, MineTypes
<1>11. OneMiner'
  BY <1>2, <1>9 DEF MineInv, OneMiner, On, Opening, Storing, Working
<1>12. RunsInOrder' /\ RecordIsLatest'
  BY <1>2 DEF MineInv, RunsInOrder, RecordIsLatest, IdsOf, Committed, On
<1>13. Targets'
  BY <1>2, <1>7, <1>8 DEF MineInv, Targets, On, Storing, Working, Applying, Opening
<1>14. JournalInOrder'
  BY <1>1, <1>2, <1>4, <1>7, <1>8 DEF MineInv, JournalInOrder
<1>15. RowsInReach' /\ StoredAtRest'
  BY <1>2, <1>3, <1>8, <1>9 DEF MineInv, RowsInReach, StoredAtRest, RowsOf
<1>16. RowsSound'
  BY <1>2, <1>3, <1>9 DEF MineInv, RowsSound, RowsOf, On
<1>17. QED
  BY <1>10, <1>11, <1>12, <1>13, <1>14, <1>15, <1>16 DEF MineInv

\* Somebody edits the file: no promise is about what is on the disk.
LEMMA FileIsEdited ==
  ASSUME MineInv, Edit
  PROVE  MineInv'
<1>1. disk' \in Contents
  BY DEF Edit
<1>2. UNCHANGED <<replicated, drawers, record, runOf, staged, holder, miner, mineFaults>>
  BY DEF Edit
<1>3. MineTypes'
  BY <1>1, <1>2 DEF MineInv, MineTypes
<1>4. OneMiner' /\ RunsInOrder' /\ RecordIsLatest'
  BY <1>2
  DEF MineInv, OneMiner, RunsInOrder, RecordIsLatest, IdsOf, Committed, On, Opening, Storing,
              Working
<1>5. Targets' /\ JournalInOrder' /\ RowsInReach'
  BY <1>2 DEF MineInv, Targets, JournalInOrder, RowsInReach, Staging, LastEffect, On, Opening,
              Storing, Working, Applying
<1>6. RowsSound' /\ StoredAtRest'
  BY <1>2 DEF MineInv, RowsSound, StoredAtRest, RowsOf, Staging, LastEffect, On
<1>7. QED
  BY <1>3, <1>4, <1>5, <1>6 DEF MineInv

\* Runs get older: only those that nobody holds.
LEMMA RunsGrowStale ==
  ASSUME MineInv, RunsAge
  PROVE  MineInv'
<1> DEFINE old == {r \in With("pending") : \A p \in Miners : miner[p].run # r}
<1>1. UNCHANGED <<replicated, disk, drawers, record, staged, holder, miner, mineFaults>>
  BY DEF RunsAge
<1>2. /\ \A r \in MineRuns :
           runOf'[r] = IF r \in old THEN [runOf[r] EXCEPT !.status = "stale"] ELSE runOf[r]
      /\ runOf' \in [MineRuns -> [status : {"none", "pending", "stale", "committed", "failed"},
                                  version : FileVersions]]
  BY DEF RunsAge, SetRuns, MineInv, MineTypes
<1>3. \A r \in MineRuns :
        /\ runOf'[r].version = runOf[r].version
        /\ (\E p \in Miners : miner[p].run = r) \/ runOf[r].status # "pending" => runOf'[r] = runOf[r]
        /\ runOf'[r] = runOf[r] \/ (runOf[r].status = "pending" /\ runOf'[r].status = "stale")
  BY <1>2 DEF With, MineInv, MineTypes
<1> HIDE DEF old
<1>4. MineTypes'
  BY <1>1, <1>2 DEF MineInv, MineTypes
<1>5. \A r \in MineRuns : (Committed(r)' <=> Committed(r)) /\ IdsOf(r)' = IdsOf(r)
  BY <1>3 DEF Committed, IdsOf
<1>6. OneMiner'
  BY <1>1 DEF MineInv, OneMiner, On, Opening, Storing, Working
<1>7. RunsInOrder'
  <2>1. ASSUME NEW p \in Miners
        PROVE  /\ miner[p].pc \in {"clearing", "adding", "committing"} =>
                    /\ miner[p].run \in MineRuns
                    /\ runOf'[miner[p].run].status = "pending"
                    /\ runOf'[miner[p].run].version = miner[p].apply
                    /\ \A r \in MineRuns : r > miner[p].run => runOf'[r].status = "none"
               /\ miner[p].pc \in {"reading", "pruning", "marking"} =>
                    \A r \in miner[p].stale : runOf'[r].status \in {"stale", "failed"}
               /\ On(p, "pruning") =>
                    \A r \in MineRuns : Committed(r)' => IdsOf(r)' \subseteq miner[p].known
    <3>1. miner[p].stale \subseteq MineRuns
      BY DEF MineInv, MineTypes, MinerState
    <3>2. QED
      BY <1>3, <1>5, <3>1 DEF MineInv, RunsInOrder
  <2>2. QED
    BY <1>1, <2>1 DEF RunsInOrder, On
<1>8. RecordIsLatest'
  BY <1>1, <1>3, <1>5 DEF MineInv, RecordIsLatest
<1>9. Targets' /\ JournalInOrder' /\ RowsInReach'
  BY <1>1 DEF MineInv, Targets, JournalInOrder, RowsInReach, Staging, LastEffect, On, Opening,
              Storing, Working, Applying
<1>10. RowsSound' /\ StoredAtRest'
  BY <1>1 DEF MineInv, RowsSound, StoredAtRest, RowsOf, Staging, LastEffect, On
<1>11. QED
  BY <1>4, <1>6, <1>7, <1>8, <1>9, <1>10 DEF MineInv

LEMMA MineStutters ==
  ASSUME MineInv, UNCHANGED mineVars
  PROVE  MineInv'
<1>1. UNCHANGED <<replicated, disk, drawers, record, runOf, staged, holder, miner, mineFaults>>
  BY DEF mineVars
<1>2. MineTypes'
  BY <1>1 DEF MineInv, MineTypes
<1>3. OneMiner' /\ RunsInOrder' /\ RecordIsLatest'
  BY <1>1
  DEF MineInv, OneMiner, RunsInOrder, RecordIsLatest, IdsOf, Committed, On, Opening, Storing,
              Working
<1>4. Targets' /\ JournalInOrder' /\ RowsInReach'
  BY <1>1 DEF MineInv, Targets, JournalInOrder, RowsInReach, Staging, LastEffect, On, Opening,
              Storing, Working, Applying
<1>5. RowsSound' /\ StoredAtRest'
  BY <1>1 DEF MineInv, RowsSound, StoredAtRest, RowsOf, Staging, LastEffect, On
<1>6. QED
  BY <1>2, <1>3, <1>4, <1>5 DEF MineInv

LEMMA MineStarts ==
  ASSUME MineInit
  PROVE  MineInv
<1>1. \A p \in Miners : miner[p] = Off /\ miner[p].pc = "down" /\ miner[p].effect = 0
  BY RestingMiners DEF MineInit
<1>2. MineTypes
  <2>1. miner \in [Miners -> MinerState]
    BY RestingMiners DEF MineInit
  <2>2. replicated \in BOOLEAN /\ staged \in Seq(Effect) /\ Len(staged) <= MaxEffects
    BY MineAssumption DEF MineInit
  <2>3. QED
    BY <2>1, <2>2, MineAssumption DEF MineInit, MineTypes, Contents
<1>3. OneMiner
  BY <1>1, MineAssumption DEF MineInit, OneMiner, On, Opening, Storing, Working
<1>4. RunsInOrder /\ Targets /\ RowsSound
  BY <1>1 DEF RunsInOrder, Targets, RowsSound, On, Opening, Storing, Working, Applying
<1>5. RecordIsLatest
  BY DEF MineInit, RecordIsLatest, Committed
<1>6. JournalInOrder /\ RowsInReach /\ ~Staging
  BY <1>1 DEF MineInit, JournalInOrder, RowsInReach, Staging
<1>7. StoredAtRest
  BY <1>1, <1>6 DEF MineInit, StoredAtRest, RowsOf, Chunked
<1>8. QED
  BY <1>2, <1>3, <1>4, <1>5, <1>6, <1>7 DEF MineInv

LEMMA MineStep ==
  ASSUME MineInv, ~OpenWhileMining, [MineNext]_mineVars
  PROVE  MineInv'
<1>1. ASSUME NEW p \in Miners, StartMiner(p) \/ Open(p) \/ BeginMine(p) \/ BeginRecovery(p)
      PROVE  MineInv'
  BY <1>1, MinerStarts, MinerLists, MinerReads, MinerPrunes, MinerMarks, MineBegins,
     RecoveryBegins
     DEF Open
<1>2. ASSUME NEW p \in Miners, Journal(p)
      PROVE  MineInv'
  BY <1>2, MinerLocks, EffectIsTaken, EffectIsStaged, MinerUnlocks, EffectIsActivated DEF Journal
<1>3. ASSUME NEW p \in Miners, Store(p)
      PROVE  MineInv'
  BY <1>3, ExistingIsCaptured, RunIsCreated, RowsAreCleared, RowsAreAdded, RunIsCommitted,
     LeftoversAreSwept, RowsAreRemoved, SourceIsForgotten DEF Store
<1>4. ASSUME NEW p \in Miners, FailWrite(p) \/ CrashMiner(p) \/ ExitMiner(p)
      PROVE  MineInv'
  BY <1>4, WriteFails, MinerCrashes, MinerExits
<1>5. QED
  BY <1>1, <1>2, <1>3, <1>4, DeliveryFails, FileIsEdited, RunsGrowStale, MineStutters DEF MineNext

\* Whatever is interrupted, the rows, the record, the runs and the journal of a source stay in the
\* relation MineInv states, as long as no process opens the palace while another one stores: the
\* staged effect is the last one and names every id a half-done write may have left
\* (replicated_ingest.rs recover_replicated_source_locked; engine.rs commit_ingest, reconcile).
THEOREM MineInvHolds ==
  ASSUME ~OpenWhileMining
  PROVE  MineSpec => []MineInv
<1>1. MineInit => MineInv
  BY MineStarts
<1>2. MineInv /\ [MineNext]_mineVars => MineInv'
  BY MineStep
<1>3. QED
  BY <1>1, <1>2, PTL DEF MineSpec

\* When no effect is staged and nobody stores, the rows are those of the recorded version, so that a
\* mine may skip a file whose content is the recorded one (ingest lib.rs ingest_project_with_
\* replication): always for a replicated mine, and for a local one as long as nothing failed.
THEOREM SkippingIsRight ==
  ASSUME ~OpenWhileMining
  PROVE  MineSpec => []SkipIsRight
<1>1. ASSUME MineInv
      PROVE  SkipIsRight
  <2>1. SUFFICES ASSUME Recoverable = {}, replicated \/ mineFaults = 0,
                        \A p \in Miners : ~Storing(p) \/ miner[p].pc \in {"waiting", "locked"}
                 PROVE  drawers = RowsOf(record)
    BY DEF SkipIsRight, AtRest, Stored, RowsOf
  <2>2. ~Staging
    BY <1>1, <2>1, RecoverLast DEF MineInv, MineTypes
  <2>3. \A p \in Miners : miner[p].pc \notin {"adding", "committing", "sweeping", "forgetting"}
    BY <2>1 DEF Storing, Opening, On
  <2>4. QED
    BY <1>1, <2>1, <2>2, <2>3 DEF MineInv, StoredAtRest, MineTypes
<1>2. QED
  BY <1>1, MineInvHolds, PTL

\* Everything has its type, who is between the lock and its release holds the lock, and at rest the
\* effect sent last is the version recorded: effects leave in the order they were applied here
\* (replicated_ingest.rs commit_replicated_source).
THEOREM JournalHolds ==
  ASSUME ~OpenWhileMining
  PROVE  MineSpec => []JournalInv
<1>1. ASSUME MineInv
      PROVE  JournalInv
  <2>1. MineTypeOK
    <3>1. ASSUME NEW p \in Miners, miner[p].pc \in {"locked", "activating"}
          PROVE  holder = p
      BY <1>1, <3>1 DEF MineInv, OneMiner, MineTypes, Working, Storing, Opening, On
    <3>2. QED
      BY <1>1, <3>1 DEF MineInv, MineTypes, MineTypeOK
  <2>2. RemoteGetsRecord
    BY <1>1, RecoverLast DEF RemoteGetsRecord, AtRest, MineInv, JournalInOrder
  <2>3. QED
    BY <2>1, <2>2 DEF JournalInv
<1>2. QED
  BY <1>1, MineInvHolds, PTL

-----------------------------------------------------------------------------
(* Feeds.  That no row is skipped is not inductive: a page in hand has to  *)
(* cover all that its cursor will pass once the worker stores it, while    *)
(* rows arrive, and the local page is read before any remote is asked.     *)

FeedRow == [note : 1..MaxRows, time : 0..FeedClock, hidden : BOOLEAN, acked : BOOLEAN, late : BOOLEAN]

\* The rows of all logs, and the writers about to add one.
LogRows == {r \in {<<p, i>> : p \in Origins, i \in 1..MaxRows} : r[2] \in DOMAIN log[r[1]]}
Writers == {w \in Loggers : writing[w] # NotWriting}

LogsKept ==
  /\ log \in [Origins -> Seq(FeedRow)] /\ \A p \in Origins : Len(log[p]) <= MaxRows
  /\ Cardinality(LogRows) + Cardinality(Writers) <= MaxRows
  /\ feed # "changes" => Writers = {}
  /\ feed = "changes" =>
       /\ \A p \in Origins : \A i \in DOMAIN log[p] : log[p][i].time \in 1..now
       /\ \A w \in Writers : writing[w].time \in 1..now

\* A place that a row of p has.
PlaceIn(p, place) == place = Start \/ \E m \in DOMAIN log[p] : place = Key(p, m)

\* Cursors are places of rows.  The remotes are asked after the local page was read; a page that did
\* not come says nothing.
CursorsKept ==
  \A p \in Origins :
    /\ PlaceIn(p, cursor[p]) /\ PlaceIn(p, call[p].next)
    /\ call[p].at \in {"idle", "asked"} => call[p].rows = {} /\ call[p].next = Start
    /\ call[p].at = "failed" => p # Local /\ call[p].rows = {} /\ call[p].next \in {Start, cursor[p]}
    /\ p # Local /\ call[p].at \in {"answered", "failed"} => call[Local].at = "answered"

\* The row is behind the cursors that the call in hand would have the worker store.
Passed(p, i) ==
  IF feed # "changes" \/ (p # Local /\ (cursor[p] # Start \/ call[p].next # Start))
    THEN call[p].next # Start /\ ~Less(call[p].next, Key(p, i))
  ELSE IF p = Local THEN call[p].next # Start /\ log[p][i].time <= call[p].next[1]
  ELSE call[Local].next # Start /\ log[p][i].time < call[Local].next[1]

\* What a page in hand would pass is on it, or was dealt with before.
PagesCover ==
  \A p \in Origins : call[p].at = "answered" =>
    \A i \in DOMAIN log[p] : Owed(p, i) /\ Passed(p, i) => <<p, i>> \in handled \/ i \in call[p].rows

FeedKept == FeedTypeOK /\ LogsKept /\ CursorsKept /\ PagesCover /\ NothingSkipped /\ PostedOnce

-----------------------------------------------------------------------------
(* Places and pages.                                                       *)

LEMMA LeastNumber ==
  ASSUME NEW T, T \subseteq Nat, T # {}
  PROVE  \E x \in T : \A y \in T : x <= y
<1>1. \E x \in T : \A y \in T : ~(<<y, x>> \in OpToRel(<, Nat))
  BY NatLessThanWellFounded, WFMin
<1>2. \A x, y \in T : y < x => <<y, x>> \in OpToRel(<, Nat)
  BY DEF OpToRel
<1>3. PICK x \in T : \A y \in T : ~(y < x)
  BY <1>1, <1>2
<1>4. QED
  BY <1>3

\* The rows of p and their places, in the order of the feed.
TimeOf(p, i) == IF feed = "changes" THEN log[p][i].time ELSE 0

LEMMA LogIs ==
  ASSUME LogsKept
  PROVE  /\ Local \in Origins /\ Remotes \subseteq Origins
         /\ \A p \in Origins :
              /\ log[p] \in Seq(FeedRow) /\ Len(log[p]) \in Nat /\ Len(log[p]) <= MaxRows
              /\ DOMAIN log[p] = 1..Len(log[p])
              /\ \A i \in DOMAIN log[p] : /\ log[p][i] \in FeedRow /\ TimeOf(p, i) \in 0..FeedClock
                                          /\ i \in 1..MaxRows /\ Key(p, i) = <<TimeOf(p, i), i>>
<1>1. \A p \in Origins : log[p] \in Seq(FeedRow) /\ Len(log[p]) <= MaxRows
  BY DEF LogsKept
<1>2. \A p \in Origins : Len(log[p]) \in Nat /\ DOMAIN log[p] = 1..Len(log[p])
  BY <1>1
<1>3. \A p \in Origins : \A i \in DOMAIN log[p] : log[p][i] \in FeedRow /\ i \in 1..MaxRows
  BY <1>1, <1>2, FeedAssumption
<1>4. \A p \in Origins : \A i \in DOMAIN log[p] :
        TimeOf(p, i) \in 0..FeedClock /\ Key(p, i) = <<TimeOf(p, i), i>>
  BY <1>3, FeedAssumption DEF FeedRow, TimeOf, Key
<1>5. QED
  BY <1>1, <1>2, <1>3, <1>4 DEF Origins

LEMMA PlacesAreOrdered ==
  ASSUME LogsKept, NEW p \in Origins, NEW i \in DOMAIN log[p], NEW j \in DOMAIN log[p]
  PROVE  /\ Less(Key(p, i), Key(p, j)) <=>
              (TimeOf(p, i) < TimeOf(p, j) \/ (TimeOf(p, i) = TimeOf(p, j) /\ i < j))
         /\ Key(p, i) # Start /\ Key(p, i)[1] = TimeOf(p, i) /\ Key(p, i)[2] = i
         /\ TimeOf(p, i) \in Nat /\ TimeOf(p, j) \in Nat /\ i \in Nat /\ j \in Nat
<1>1. /\ TimeOf(p, i) \in Nat /\ TimeOf(p, j) \in Nat /\ i \in Nat \ {0} /\ j \in Nat
      /\ Key(p, i) = <<TimeOf(p, i), i>> /\ Key(p, j) = <<TimeOf(p, j), j>>
  BY LogIs, FeedAssumption
<1>2. QED
  BY <1>1 DEF Less, Start

LEMMA LeastPlace ==
  ASSUME LogsKept, NEW p \in Origins, NEW S, S \subseteq DOMAIN log[p], S # {}
  PROVE  \E m \in S : \A j \in S : ~Less(Key(p, j), Key(p, m))
<1>1. \A i \in S : TimeOf(p, i) \in Nat /\ i \in Nat
  BY PlacesAreOrdered
<1>2. PICK t \in {TimeOf(p, i) : i \in S} : \A u \in {TimeOf(p, i) : i \in S} : t <= u
  BY <1>1, LeastNumber
<1>3. PICK m \in {i \in S : TimeOf(p, i) = t} : \A j \in {i \in S : TimeOf(p, i) = t} : m <= j
  BY <1>1, <1>2, LeastNumber
<1>4. ASSUME NEW j \in S
      PROVE  ~Less(Key(p, j), Key(p, m))
  <2>1. t <= TimeOf(p, j) /\ (TimeOf(p, j) = t => m <= j) /\ TimeOf(p, m) = t
    BY <1>2, <1>3
  <2>2. QED
    BY <1>1, <1>3, <2>1, PlacesAreOrdered
<1>5. QED
  BY <1>3, <1>4

LEMMA LatestPlace ==
  ASSUME LogsKept, NEW p \in Origins, NEW S, S \subseteq DOMAIN log[p], S # {}
  PROVE  Latest(p, S) \in S /\ \A j \in S : ~Less(Key(p, Latest(p, S)), Key(p, j))
<1>1. \A i \in S : /\ TimeOf(p, i) \in 0..FeedClock /\ FeedClock - TimeOf(p, i) \in Nat
                   /\ i \in 1..MaxRows /\ MaxRows - i \in Nat
  BY LogIs, FeedAssumption
<1>2. PICK t \in {FeedClock - TimeOf(p, i) : i \in S} :
        \A u \in {FeedClock - TimeOf(p, i) : i \in S} : t <= u
  BY <1>1, LeastNumber
<1>3. PICK k \in {MaxRows - i : i \in {x \in S : FeedClock - TimeOf(p, x) = t}} :
        \A l \in {MaxRows - i : i \in {x \in S : FeedClock - TimeOf(p, x) = t}} : k <= l
  <2>1. {MaxRows - i : i \in {x \in S : FeedClock - TimeOf(p, x) = t}} # {}
    BY <1>2
  <2>2. {MaxRows - i : i \in {x \in S : FeedClock - TimeOf(p, x) = t}} \subseteq Nat
    BY <1>1
  <2>3. QED
    BY <2>1, <2>2, LeastNumber
<1>4. PICK m \in S : FeedClock - TimeOf(p, m) = t /\ MaxRows - m = k
  BY <1>3
<1>5. ASSUME NEW j \in S
      PROVE  ~Less(Key(p, m), Key(p, j))
  <2>1. t <= FeedClock - TimeOf(p, j) /\ (FeedClock - TimeOf(p, j) = t => k <= MaxRows - j)
    BY <1>2, <1>3
  <2>2. TimeOf(p, j) <= TimeOf(p, m) /\ (TimeOf(p, j) = TimeOf(p, m) => j <= m)
    BY <1>1, <1>4, <2>1, FeedAssumption
  <2>3. QED
    BY <1>1, <2>2, PlacesAreOrdered
<1>6. QED
  BY <1>4, <1>5 DEF Latest

\* A page is a prefix of what was asked for, and it is not empty if there is anything.
LEMMA PageIsPrefix ==
  ASSUME LogsKept, NEW p \in Origins, NEW S, S \subseteq DOMAIN log[p], NEW n \in Nat \ {0}
  PROVE  /\ First(p, S, n) \subseteq S
         /\ \A i \in First(p, S, n), j \in S : ~Less(Key(p, i), Key(p, j)) => j \in First(p, S, n)
         /\ S # {} => First(p, S, n) # {}
<1> DEFINE Below(i) == {j \in S : Less(Key(p, j), Key(p, i))}
<1>1. IsFiniteSet(S)
  <2>1. DOMAIN log[p] = 1..Len(log[p]) /\ Len(log[p]) \in Nat
    BY LogIs
  <2>2. IsFiniteSet(1..Len(log[p]))
    BY <2>1, FS_Interval
  <2>3. QED
    BY <2>1, <2>2, FS_Subset
<1>2. \A i \in S : IsFiniteSet(Below(i)) /\ Cardinality(Below(i)) \in Nat
  BY <1>1, FS_Subset, FS_CardinalityType
<1>3. ASSUME NEW i \in First(p, S, n), NEW j \in S, ~Less(Key(p, i), Key(p, j))
      PROVE  j \in First(p, S, n)
  <2>1. i \in S /\ Cardinality(Below(i)) < n
    BY DEF First
  <2>2. Below(j) \subseteq Below(i)
    BY <1>3, <2>1, PlacesAreOrdered
  <2>3. Cardinality(Below(j)) <= Cardinality(Below(i))
    BY <1>2, <2>1, <2>2, FS_Subset
  <2>4. Cardinality(Below(j)) < n
    <3>1. Cardinality(Below(i)) \in Nat /\ Cardinality(Below(j)) \in Nat /\ n \in Nat
      BY <1>2, <2>1
    <3> HIDE DEF Below
    <3>2. QED
      BY <2>1, <2>3, <3>1
  <2>5. QED
    BY <2>4 DEF First
<1>4. ASSUME S # {}
      PROVE  First(p, S, n) # {}
  <2>1. PICK m \in S : \A j \in S : ~Less(Key(p, j), Key(p, m))
    BY <1>4, LeastPlace
  <2>2. Below(m) = {}
    BY <2>1
  <2>3. Cardinality(Below(m)) < n
    BY <2>2, FS_EmptySet
  <2>4. QED
    BY <2>3 DEF First
<1>5. QED
  BY <1>3, <1>4 DEF First

-----------------------------------------------------------------------------
(* Pages are read, and lost.                                               *)

\* What a step that leaves the logs alone keeps.
LEMMA LogsStay ==
  ASSUME FeedKept, UNCHANGED <<feed, log, writing, now, handled>>
  PROVE  /\ LogsKept' /\ PostedOnce'
         /\ \A p \in Origins : \A i \in DOMAIN log[p] :
              (Key(p, i)' = Key(p, i)) /\ (Owed(p, i)' <=> Owed(p, i))
<1>1. LogsKept'
  BY DEF FeedKept, LogsKept, LogRows, Writers
<1>2. PostedOnce'
  BY DEF FeedKept, PostedOnce
<1>3. QED
  BY <1>1, <1>2 DEF Key, Owed, Visible

LEMMA SkipsStay ==
  ASSUME FeedKept, UNCHANGED <<feed, log, cursor, handled>>
  PROVE  NothingSkipped'
BY DEF FeedKept, NothingSkipped, Owed, Visible, Ahead, Supplied, Key

LEMMA CallIsDropped ==
  ASSUME FeedKept, UNCHANGED <<feed, log, writing, now, cursor, handled>>,
         NEW c \in {Asked, NotCalled}, call' = [p \in Origins |-> c]
  PROVE  FeedKept'
<1>1. c.at \in {"idle", "asked"} /\ c.rows = {} /\ c.next = Start
  BY DEF Asked, NotCalled
<1>2. c \in [at : {"idle", "asked", "answered", "failed"}, rows : SUBSET (1..MaxRows),
             next : (0..FeedClock) \X (0..MaxRows)]
  BY FeedAssumption DEF Asked, NotCalled, Start
<1>3. FeedTypeOK'
  BY <1>2 DEF FeedKept, FeedTypeOK
<1>4. CursorsKept'
  BY <1>1, LogsStay DEF FeedKept, CursorsKept, PlaceIn
<1>5. PagesCover'
  BY <1>1 DEF PagesCover
<1>6. QED
  BY <1>3, <1>4, <1>5, LogsStay, SkipsStay DEF FeedKept

LEMMA PageIsNotRead ==
  ASSUME FeedKept, NEW r \in Origins, FailPage(r)
  PROVE  FeedKept'
<1>1. /\ r # Local /\ call[r].at = "asked" /\ call[Local].at = "answered"
      /\ UNCHANGED <<feed, log, writing, now, cursor, handled>>
  BY DEF FailPage, MayRead
<1>2. PICK next \in {Start, cursor[r]} :
        call' = [call EXCEPT ![r] = [NotCalled EXCEPT !.at = "failed", !.next = next]]
  BY DEF FailPage, Supplied
<1> DEFINE page == [NotCalled EXCEPT !.at = "failed", !.next = next]
<1>3. page.at = "failed" /\ page.rows = {} /\ page.next = next
  BY DEF NotCalled
<1>4. page \in [at : {"idle", "asked", "answered", "failed"}, rows : SUBSET (1..MaxRows),
                next : (0..FeedClock) \X (0..MaxRows)]
  <2>1. NotCalled \in [at : {"idle", "asked", "answered", "failed"}, rows : SUBSET (1..MaxRows),
                       next : (0..FeedClock) \X (0..MaxRows)]
    BY FeedAssumption DEF NotCalled, Start
  <2>2. next \in (0..FeedClock) \X (0..MaxRows)
    BY FeedAssumption DEF Start, FeedKept, FeedTypeOK
  <2>3. QED
    BY <2>1, <2>2
<1>5. \A p \in Origins : call'[p] = IF p = r THEN page ELSE call[p]
  BY <1>2 DEF FeedKept, FeedTypeOK
<1>6. FeedTypeOK'
  BY <1>1, <1>2, <1>4 DEF FeedKept, FeedTypeOK
<1> HIDE DEF page
<1>7. CursorsKept'
  BY <1>1, <1>3, <1>5, LogsStay, LogIs DEF FeedKept, CursorsKept, PlaceIn
<1>8. PagesCover'
  <2>1. ASSUME NEW p \in Origins, call'[p].at = "answered", NEW i \in DOMAIN log[p], Passed(p, i)'
        PROVE  call[p].at = "answered" /\ call'[p] = call[p] /\ Passed(p, i)
    BY <1>1, <1>3, <1>5, <2>1, LogsStay, LogIs DEF Passed, FeedKept
  <2>2. QED
    BY <1>1, <2>1, LogsStay DEF PagesCover, FeedKept
<1>9. QED
  BY <1>1, <1>6, <1>7, <1>8, LogsStay, SkipsStay DEF FeedKept

LEMMA PageIsRead ==
  ASSUME FeedKept, NEW r \in Origins, ReadPage(r)
  PROVE  FeedKept'
<1>1. /\ call[r].at = "asked" /\ (r = Local \/ call[Local].at = "answered")
      /\ UNCHANGED <<feed, log, writing, now, cursor, handled>>
  BY DEF ReadPage, MayRead
<1>2. PICK n \in PageSizes : call' = [call EXCEPT ![r] = Answer(r, n)]
  BY DEF ReadPage
<1> DEFINE asked == {i \in Matching(r) : Ahead(r, i)}
           shown == First(r, asked, n)
           page  == Answer(r, n)
<1>3. LogsKept /\ n \in Nat \ {0} /\ asked \subseteq DOMAIN log[r]
  BY FeedAssumption DEF PageSizes, FeedKept, Matching
<1>4. /\ page.at = "answered" /\ page.rows = {i \in shown : Visible(r, i)}
      /\ page.next = NextCursor(r, asked, shown)
      /\ DOMAIN page = {"at", "rows", "next"}
      /\ page = [at |-> "answered", rows |-> {i \in shown : Visible(r, i)},
                 next |-> NextCursor(r, asked, shown)]
  BY DEF Answer
<1>5. /\ shown \subseteq asked
      /\ \A i \in shown, j \in asked : ~Less(Key(r, i), Key(r, j)) => j \in shown
      /\ asked # {} => shown # {}
  BY <1>3, PageIsPrefix
<1> HIDE DEF asked, shown
<1>6. \/ page.next = Start /\ (asked = shown \/ (feed = "changes" /\ r = Local))
      \/ \E m \in shown : page.next = Key(r, m) /\ \A j \in shown : ~Less(Key(r, m), Key(r, j))
  <2>1. shown # {} => /\ Latest(r, shown) \in shown
                      /\ \A j \in shown : ~Less(Key(r, Latest(r, shown)), Key(r, j))
    BY <1>3, <1>5, LatestPlace
  <2>2. CASE asked # shown \/ (feed = "changes" /\ r = Local /\ shown # {})
    BY <1>4, <1>5, <2>1, <2>2 DEF NextCursor
  <2>3. CASE ~(asked # shown \/ (feed = "changes" /\ r = Local /\ shown # {}))
    BY <1>4, <2>3 DEF NextCursor
  <2>4. QED
    BY <2>2, <2>3
<1>7. PlaceIn(r, page.next) /\ page.next \in (0..FeedClock) \X (0..MaxRows)
  <2>1. CASE page.next = Start
    BY <2>1, FeedAssumption DEF PlaceIn, Start
  <2>2. CASE \E m \in shown : page.next = Key(r, m)
    BY <1>3, <1>5, <2>2, LogIs, FeedAssumption DEF PlaceIn
  <2>3. QED
    BY <1>6, <2>1, <2>2
<1>8. page.rows \subseteq 1..MaxRows
  BY <1>3, <1>4, <1>5, LogIs
<1>9. page \in [at : {"idle", "asked", "answered", "failed"}, rows : SUBSET (1..MaxRows),
                next : (0..FeedClock) \X (0..MaxRows)]
  BY <1>4, <1>7, <1>8
<1> HIDE DEF page
<1>10. call' = [call EXCEPT ![r] = page]
  BY <1>2 DEF page
<1>11. \A p \in Origins : call'[p] = IF p = r THEN page ELSE call[p]
  BY <1>10 DEF FeedKept, FeedTypeOK
<1>12. FeedTypeOK'
  BY <1>1, <1>9, <1>10 DEF FeedKept, FeedTypeOK
<1>13. CursorsKept'
  <2>1. \A p \in Origins : \A place : PlaceIn(p, place)' <=> PlaceIn(p, place)
    BY <1>1, LogsStay DEF PlaceIn
  <2>2. Local \in Origins
    BY DEF Origins
  <2>3. QED
    BY <1>1, <1>4, <1>7, <1>11, <2>1, <2>2 DEF FeedKept, CursorsKept
<1>14. ASSUME NEW i \in DOMAIN log[r], Owed(r, i), Passed(r, i)', <<r, i>> \notin handled
       PROVE  i \in page.rows
  <2>1. i \in asked
    <3>1. Ahead(r, i)
      BY <1>14 DEF FeedKept, NothingSkipped
    <3>2. i \in Matching(r)
      BY <1>14 DEF Matching, Owed
    <3>3. QED
      BY <3>1, <3>2 DEF asked
  <2>2. Visible(r, i)
    BY <1>14 DEF Owed
  <2>3. CASE page.next = Start
    <3>1. asked = shown
      <4>1. ~(feed = "changes" /\ r = Local)
        BY <1>1, <1>11, <1>14, <2>3 DEF Passed
      <4>2. ~\E m \in shown : page.next = Key(r, m)
        BY <1>3, <1>5, <2>3, PlacesAreOrdered
      <4>3. QED
        BY <1>6, <4>1, <4>2
    <3>2. QED
      BY <1>4, <2>1, <2>2, <3>1
  <2>4. CASE \E m \in shown : page.next = Key(r, m) /\ \A j \in shown : ~Less(Key(r, m), Key(r, j))
    <3>1. PICK m \in shown : page.next = Key(r, m)
      BY <2>4
    <3>2. m \in DOMAIN log[r] /\ page.next # Start /\ page.next[1] = TimeOf(r, m)
      BY <1>3, <1>5, <1>14, <3>1, PlacesAreOrdered
    <3>3. ~Less(Key(r, m), Key(r, i))
      <4>1. CASE feed # "changes" \/ r # Local
        BY <1>1, <1>11, <1>14, <3>1, <3>2, <4>1, LogsStay DEF Passed
      <4>2. CASE feed = "changes" /\ r = Local
        <5>1. log[r][i].time <= TimeOf(r, m) /\ TimeOf(r, i) = log[r][i].time
          BY <1>1, <1>11, <1>14, <3>1, <3>2, <4>2 DEF Passed, TimeOf
        <5>2. i # m => TimeOf(r, i) # TimeOf(r, m)
          BY <1>14, <3>2, <4>2 DEF Owed, TimeOf
        <5>3. QED
          BY <1>3, <3>2, <5>1, <5>2, PlacesAreOrdered
      <4>3. QED
        BY <4>1, <4>2
    <3>4. QED
      BY <1>4, <1>5, <2>1, <2>2, <3>1, <3>3
  <2>5. QED
    BY <1>6, <2>3, <2>4
<1>15. PagesCover'
  <2>1. ASSUME NEW p \in Origins, p # r, call'[p].at = "answered", NEW i \in DOMAIN log[p],
               Passed(p, i)'
        PROVE  call[p].at = "answered" /\ call'[p] = call[p] /\ Passed(p, i)
    <3>1. call'[p] = call[p]
      BY <1>11, <2>1
    <3>2. p # Local => call[Local].at = "answered"
      BY <2>1, <3>1 DEF FeedKept, CursorsKept
    <3>3. p # Local => call'[Local] = call[Local]
      BY <1>1, <1>11, <3>2 DEF Origins
    <3>4. QED
      BY <1>1, <2>1, <3>1, <3>3, LogsStay DEF Passed
  <2>2. QED
    BY <1>1, <1>11, <1>14, <2>1, LogsStay DEF PagesCover, FeedKept
<1>16. QED
  BY <1>1, <1>12, <1>13, <1>15, LogsStay, SkipsStay DEF FeedKept

LEMMA CallEnds ==
  ASSUME FeedKept, EndCall
  PROVE  FeedKept'
<1>1. /\ \A p \in Origins : call[p].at \in {"answered", "failed"}
      /\ UNCHANGED <<feed, log, writing, now>>
      /\ handled' = handled \cup {r \in Origins \X (1..MaxRows) : r[2] \in call[r[1]].rows}
      /\ call' = [p \in Origins |-> NotCalled]
      /\ cursor' = [p \in Origins |-> IF call[p].next = Start \/ (p = Local /\ KeepsSince)
                                        THEN cursor[p] ELSE call[p].next]
  BY DEF EndCall
<1>2. \A p \in Origins : \A i \in DOMAIN log[p] :
        /\ Key(p, i)' = Key(p, i) /\ (Owed(p, i)' => Owed(p, i)) /\ i \in 1..MaxRows
  BY <1>1, LogIs DEF Key, Owed, Visible, FeedKept
<1>3. NotCalled.at = "idle" /\ NotCalled.rows = {} /\ NotCalled.next = Start
  BY DEF NotCalled
<1>4. NotCalled \in [at : {"idle", "asked", "answered", "failed"}, rows : SUBSET (1..MaxRows),
                     next : (0..FeedClock) \X (0..MaxRows)]
  BY FeedAssumption DEF NotCalled, Start
<1>5. FeedTypeOK'
  <2>1. handled' \subseteq Origins \X (1..MaxRows)
    BY <1>1 DEF FeedKept, FeedTypeOK
  <2>2. call' \in [Origins -> [at : {"idle", "asked", "answered", "failed"}, rows : SUBSET (1..MaxRows),
                               next : (0..FeedClock) \X (0..MaxRows)]]
    BY <1>1, <1>4
  <2>3. cursor' \in [Origins -> (0..FeedClock) \X (0..MaxRows)]
    BY <1>1 DEF FeedKept, FeedTypeOK
  <2>4. QED
    BY <1>1, <2>1, <2>2, <2>3 DEF FeedKept, FeedTypeOK
<1>6. LogsKept' /\ PostedOnce'
  BY <1>1 DEF FeedKept, LogsKept, LogRows, Writers, PostedOnce
<1>7. CursorsKept'
  BY <1>1, <1>2, <1>3 DEF FeedKept, CursorsKept, PlaceIn
<1>8. PagesCover'
  BY <1>1, <1>3 DEF PagesCover
<1>9. ASSUME NEW p \in Origins, NEW i \in DOMAIN log[p], Owed(p, i), ~Ahead(p, i)'
      PROVE  ~Ahead(p, i) \/ (call[p].at = "answered" /\ Passed(p, i))
  <2>1. cursor'[p] = IF call[p].next = Start \/ (p = Local /\ KeepsSince)
                       THEN cursor[p] ELSE call[p].next
    BY <1>1
  <2>2. /\ call[p].at = "failed" => p # Local /\ call[p].next \in {Start, cursor[p]}
        /\ call[p].at \in {"answered", "failed"} /\ call[Local].at = "answered"
    BY <1>1 DEF FeedKept, CursorsKept, Origins
  <2>3. CASE feed # "changes"
    BY <1>1, <1>2, <1>9, <2>1, <2>2, <2>3 DEF Ahead, Supplied, Passed, KeepsSince
  <2>4. CASE feed = "changes" /\ p = Local
    <3>1. CASE cursor'[p] = cursor[p]
      BY <1>1, <1>9, <2>4, <3>1 DEF Ahead
    <3>2. CASE cursor'[p] = call[p].next /\ call[p].next # Start
      <4>1. ~(log[p][i].time > call[p].next[1])
        BY <1>1, <1>9, <2>4, <3>2 DEF Ahead
      <4>2. log[p][i].time \in Nat /\ call[p].next[1] \in Nat
        BY FeedAssumption DEF FeedKept, FeedTypeOK
      <4>3. QED
        BY <2>2, <2>4, <3>2, <4>1, <4>2 DEF Passed
    <3>3. QED
      BY <2>1, <3>1, <3>2
  <2>5. CASE feed = "changes" /\ p # Local /\ cursor'[p] # Start
    BY <1>1, <1>2, <1>9, <2>1, <2>2, <2>5 DEF Ahead, Supplied, Passed
  <2>6. CASE feed = "changes" /\ p # Local /\ cursor'[p] = Start
    <3>1. cursor[p] = Start /\ call[p].next = Start
      BY <2>1, <2>6
    <3>2. ~(log[p][i].time >= cursor'[Local][1])
      BY <1>1, <1>9, <2>6 DEF Ahead, Supplied
    <3>3. CASE cursor'[Local] = cursor[Local]
      BY <2>6, <3>1, <3>2, <3>3 DEF Ahead, Supplied
    <3>4. CASE cursor'[Local] = call[Local].next /\ call[Local].next # Start /\ ~KeepsSince
      <4>1. call[p].at = "answered"
        BY <2>2, <2>6, <3>1, <3>4 DEF KeepsSince, Origins
      <4>2. log[p][i].time \in Nat /\ call[Local].next[1] \in Nat
        BY FeedAssumption DEF FeedKept, FeedTypeOK, Origins
      <4>3. QED
        BY <2>6, <3>1, <3>2, <3>4, <4>1, <4>2 DEF Passed
    <3>5. QED
      BY <1>1, <3>3, <3>4 DEF Origins
  <2>7. QED
    BY <2>3, <2>4, <2>5, <2>6
<1>10. NothingSkipped'
  <2>1. SUFFICES ASSUME NEW p \in Origins, NEW i \in DOMAIN log[p], Owed(p, i), ~Ahead(p, i)'
                 PROVE  <<p, i>> \in handled'
    BY <1>1, <1>2 DEF NothingSkipped
  <2>2. <<p, i>> \in handled \/ i \in call[p].rows
    BY <1>9, <2>1 DEF FeedKept, NothingSkipped, PagesCover
  <2>3. QED
    BY <1>1, <1>2, <2>2
<1>11. QED
  BY <1>5, <1>6, <1>7, <1>8, <1>10 DEF FeedKept

-----------------------------------------------------------------------------
(* Rows are added.                                                         *)

LEMMA RoomIsCounted ==
  ASSUME LogsKept, NEW e \in Origins
  PROVE  /\ IsFiniteSet(LogRows) /\ Cardinality(LogRows) \in Nat
         /\ IsFiniteSet(Writers) /\ Cardinality(Writers) \in Nat
         /\ Len(log[e]) <= Cardinality(LogRows)
<1> DEFINE mine == {<<e, i>> : i \in 1..Len(log[e])}
           f    == [i \in 1..Len(log[e]) |-> <<e, i>>]
<1>1. Len(log[e]) \in Nat /\ Len(log[e]) <= MaxRows /\ DOMAIN log[e] = 1..Len(log[e])
  BY LogIs
<1>2. IsFiniteSet(Origins) /\ IsFiniteSet(1..MaxRows)
  <2>1. IsFiniteSet(Remotes \cup {Local}) /\ Origins = Remotes \cup {Local}
    BY FeedAssumption, FS_AddElement DEF Origins
  <2>2. IsFiniteSet(1..MaxRows)
    BY FeedAssumption, FS_Interval
  <2>3. QED
    BY <2>1, <2>2
<1>3. IsFiniteSet(Origins \X (1..MaxRows))
  BY <1>2, FS_Product
<1>4. LogRows \subseteq Origins \X (1..MaxRows)
  BY DEF LogRows
<1>5. IsFiniteSet(LogRows) /\ Cardinality(LogRows) \in Nat
  BY <1>3, <1>4, FS_Subset, FS_CardinalityType
<1>6. IsFiniteSet(Writers) /\ Cardinality(Writers) \in Nat
  BY FeedAssumption, FS_Subset, FS_CardinalityType DEF Writers
<1>7. mine \subseteq LogRows
  BY <1>1, FeedAssumption DEF LogRows
<1>8. IsFiniteSet(mine) /\ Cardinality(mine) = Len(log[e])
  <2>1. f \in Bijection(1..Len(log[e]), mine)
    <3>1. f \in [1..Len(log[e]) -> mine] /\ \A i \in 1..Len(log[e]) : f[i] = <<e, i>>
      OBVIOUS
    <3>2. \A i, j \in 1..Len(log[e]) : f[i] = f[j] => i = j
      BY <3>1
    <3>3. \A x \in mine : \E i \in 1..Len(log[e]) : f[i] = x
      BY <3>1
    <3> HIDE DEF f
    <3>4. QED
      BY <3>1, <3>2, <3>3 DEF Bijection, Injection, Surjection, IsInjective
  <2>2. ExistsBijection(1..Len(log[e]), mine)
    BY <2>1 DEF ExistsBijection
  <2>3. IsFiniteSet(1..Len(log[e])) /\ Cardinality(1..Len(log[e])) = Len(log[e])
    BY <1>1, FS_Interval
  <2>4. QED
    BY <2>2, <2>3, FS_Bijection
<1>9. QED
  BY <1>5, <1>6, <1>7, <1>8, FS_Subset

\* Where a row was appended.
LEMMA LogGrows ==
  ASSUME LogsKept, NEW e \in Origins, NEW row \in FeedRow, Len(log[e]) < MaxRows,
         log' = [log EXCEPT ![e] = Append(@, row)]
  PROVE  /\ log' \in [Origins -> Seq(FeedRow)] /\ \A p \in Origins : Len(log'[p]) <= MaxRows
         /\ \A p \in Origins : DOMAIN log'[p] = IF p = e THEN DOMAIN log[p] \cup {Len(log[e]) + 1}
                                                         ELSE DOMAIN log[p]
         /\ \A p \in Origins : \A i \in DOMAIN log[p] : log'[p][i] = log[p][i]
         /\ log'[e][Len(log[e]) + 1] = row
         /\ \A p \in Origins : \A i \in DOMAIN log[p] : i \in 1..Len(log[p])
         /\ Len(log[e]) + 1 \in 1..MaxRows
         /\ Cardinality(LogRows') = Cardinality(LogRows) + 1
<1> DEFINE n == Len(log[e]) + 1
<1>1. /\ Len(log[e]) \in Nat /\ n \in 1..MaxRows
      /\ \A p \in Origins : /\ log[p] \in Seq(FeedRow) /\ Len(log[p]) <= MaxRows
                            /\ DOMAIN log[p] = 1..Len(log[p])
  BY LogIs, FeedAssumption
<1>2. /\ Append(log[e], row) \in Seq(FeedRow) /\ Len(Append(log[e], row)) = n
      /\ DOMAIN Append(log[e], row) = DOMAIN log[e] \cup {n}
      /\ \A i \in DOMAIN log[e] : Append(log[e], row)[i] = log[e][i]
      /\ Append(log[e], row)[n] = row
  BY <1>1
<1>3. \A p \in Origins : log'[p] = IF p = e THEN Append(log[e], row) ELSE log[p]
  BY DEF LogsKept
<1>4. log' \in [Origins -> Seq(FeedRow)] /\ \A p \in Origins : Len(log'[p]) <= MaxRows
  BY <1>1, <1>2, <1>3 DEF LogsKept
<1>5. LogRows' = LogRows \cup {<<e, n>>} /\ <<e, n>> \notin LogRows
  <2>1. \A p \in Origins, i \in 1..MaxRows :
          i \in DOMAIN log'[p] <=> (i \in DOMAIN log[p] \/ (p = e /\ i = n))
    <3>1. DOMAIN log'[e] = DOMAIN log[e] \cup {n}
      BY <1>2, <1>3
    <3>2. \A p \in Origins : p # e => log'[p] = log[p]
      BY <1>3
    <3> HIDE DEF n
    <3>3. QED
      BY <3>1, <3>2
  <2>2. n \notin DOMAIN log[e]
    BY <1>1
  <2> HIDE DEF n
  <2>3. LogRows' = LogRows \cup {<<e, n>>}
    BY <1>1, <2>1 DEF LogRows
  <2>4. QED
    BY <2>2, <2>3 DEF LogRows
<1>6. Cardinality(LogRows') = Cardinality(LogRows) + 1
  BY <1>5, RoomIsCounted, FS_AddElement
<1> HIDE DEF n
<1>7. QED
  BY <1>1, <1>2, <1>3, <1>4, <1>6 DEF n

\* A row that does not precede what is there is owed only ahead of every cursor.
LEMMA RowIsAhead ==
  ASSUME FeedKept, NEW e \in Origins, NEW row \in FeedRow, Len(log[e]) < MaxRows,
         log' = [log EXCEPT ![e] = Append(@, row)], LogsKept',
         UNCHANGED <<feed, now, cursor, call, handled>>,
         writing' \in [Loggers -> [palace : Origins, time : 0..FeedClock, hidden : BOOLEAN]],
         feed = "changes" =>
           /\ row.time # 0
           /\ ~row.late => \A p \in Origins : \A i \in DOMAIN log[p] : log[p][i].time <= row.time,
         feed # "changes" => \A i \in DOMAIN log[e] : log[e][i].note # row.note
  PROVE  FeedKept'
<1> PICK n : n = Len(log[e]) + 1
  OBVIOUS
<1>1. /\ \A p \in Origins : DOMAIN log'[p] = IF p = e THEN DOMAIN log[p] \cup {n} ELSE DOMAIN log[p]
      /\ \A p \in Origins : \A i \in DOMAIN log[p] : log'[p][i] = log[p][i]
      /\ log'[e][n] = row
      /\ \A p \in Origins : \A i \in DOMAIN log[p] : i \in 1..Len(log[p])
      /\ n \in 1..MaxRows /\ n \in DOMAIN log'[e] /\ Len(log[e]) \in Nat
  <2>1. LogsKept /\ Len(log[e]) \in Nat
    BY LogIs DEF FeedKept
  <2>2. /\ \A p \in Origins : DOMAIN log'[p] = IF p = e THEN DOMAIN log[p] \cup {n} ELSE DOMAIN log[p]
        /\ \A p \in Origins : \A i \in DOMAIN log[p] : log'[p][i] = log[p][i]
        /\ log'[e][n] = row /\ n \in 1..MaxRows
        /\ \A p \in Origins : \A i \in DOMAIN log[p] : i \in 1..Len(log[p])
    BY <2>1, LogGrows
  <2>3. n \in DOMAIN log'[e]
    BY <2>2
  <2>4. QED
    BY <2>1, <2>2, <2>3
<1>2. \A p \in Origins : \A i \in DOMAIN log[p] :
        /\ (Key(p, i)' = Key(p, i)) /\ (Owed(p, i)' => Owed(p, i))
        /\ (Ahead(p, i)' <=> Ahead(p, i)) /\ (Passed(p, i)' <=> Passed(p, i))
  <2>1. SUFFICES ASSUME NEW p \in Origins, NEW i \in DOMAIN log[p]
                 PROVE  /\ (Key(p, i)' = Key(p, i)) /\ (Owed(p, i)' => Owed(p, i))
                        /\ (Ahead(p, i)' <=> Ahead(p, i)) /\ (Passed(p, i)' <=> Passed(p, i))
    OBVIOUS
  <2>2. Key(p, i)' = Key(p, i) /\ log'[p][i] = log[p][i]
    BY <1>1 DEF Key
  <2>3. Owed(p, i)' => Owed(p, i)
    BY <1>1, <2>2 DEF Owed, Visible
  <2>4. (Ahead(p, i)' <=> Ahead(p, i)) /\ (Passed(p, i)' <=> Passed(p, i))
    BY <2>2 DEF Ahead, Supplied, Passed
  <2>5. QED
    BY <2>2, <2>3, <2>4
<1>3. Key(e, n)' = <<IF feed = "changes" THEN row.time ELSE 0, n>> /\ row.time \in Nat /\ n \in Nat
  BY <1>1, FeedAssumption DEF Key, FeedRow
<1>4. ASSUME NEW place, PlaceIn(e, place), feed = "changes" => ~row.late
      PROVE  Less(place, Key(e, n)')
  <2>1. CASE place = Start
    BY <1>1, <1>3, <2>1 DEF Less, Start
  <2>2. CASE \E m \in DOMAIN log[e] : place = Key(e, m)
    <3>1. PICK m \in DOMAIN log[e] : place = Key(e, m)
      BY <2>2
    <3>2. /\ place = <<TimeOf(e, m), m>> /\ TimeOf(e, m) \in Nat /\ m \in Nat /\ m < n
          /\ feed = "changes" => TimeOf(e, m) <= row.time
          /\ feed # "changes" => TimeOf(e, m) = 0
      BY <1>1, <1>4, <3>1, LogIs, FeedAssumption DEF FeedKept, TimeOf
    <3>3. QED
      BY <1>3, <3>2 DEF Less
  <2>3. QED
    BY <1>4, <2>1, <2>2 DEF PlaceIn
<1>5. ASSUME NEW p \in Origins, NEW place, PlaceIn(p, place), feed = "changes", ~row.late
      PROVE  place[1] \in Nat /\ place[1] <= row.time
  <2>1. CASE place = Start
    BY <1>3, <2>1 DEF Start
  <2>2. CASE \E m \in DOMAIN log[p] : place = Key(p, m)
    <3>1. PICK m \in DOMAIN log[p] : place = Key(p, m)
      BY <2>2
    <3>2. place = <<TimeOf(p, m), m>> /\ TimeOf(p, m) \in Nat /\ TimeOf(p, m) <= row.time
      BY <1>5, <3>1, LogIs, FeedAssumption DEF FeedKept, TimeOf
    <3>3. QED
      BY <3>2
  <2>3. QED
    BY <1>5, <2>1, <2>2 DEF PlaceIn
<1>6. ASSUME Owed(e, n)', e = Local, feed = "changes", NEW place, PlaceIn(e, place)
      PROVE  place[1] \in Nat /\ place[1] < row.time
  <2>1. ~row.late /\ \A j \in DOMAIN log[e] : log[e][j].time # row.time
    BY <1>1, <1>6 DEF Owed
  <2>2. place[1] \in Nat /\ place[1] <= row.time
    BY <1>5, <1>6, <2>1
  <2>3. CASE place = Start
    BY <1>3, <1>6, <2>3 DEF Start
  <2>4. CASE \E m \in DOMAIN log[e] : place = Key(e, m)
    <3>1. PICK m \in DOMAIN log[e] : place = Key(e, m)
      BY <2>4
    <3>2. place[1] = log[e][m].time
      BY <1>6, <3>1 DEF Key
    <3>3. QED
      BY <1>3, <2>1, <2>2, <3>2
  <2>5. QED
    BY <1>6, <2>3, <2>4 DEF PlaceIn
<1>7. \A p \in Origins : PlaceIn(p, cursor[p]) /\ PlaceIn(p, call[p].next)
  BY DEF FeedKept, CursorsKept
<1>8. /\ \A p \in Origins : cursor[p] \in (0..FeedClock) \X (0..MaxRows)
      /\ \A p \in Origins : call[p].next \in (0..FeedClock) \X (0..MaxRows)
      /\ Local \in Origins
  BY DEF FeedKept, FeedTypeOK, Origins
<1>9. ASSUME Owed(e, n)'
      PROVE  Ahead(e, n)' /\ ~Passed(e, n)'
  <2>1. feed = "changes" => ~row.late
    BY <1>1, <1>9 DEF Owed
  <2>2. Less(cursor[e], Key(e, n)') /\ Less(call[e].next, Key(e, n)')
    BY <1>4, <1>7, <2>1
  <2>3. CASE feed # "changes"
    BY <2>2, <2>3 DEF Ahead, Supplied, Passed
  <2>4. CASE feed = "changes" /\ e = Local
    <3>1. cursor[e][1] < row.time /\ call[e].next[1] < row.time
          /\ cursor[e][1] \in Nat /\ call[e].next[1] \in Nat
      BY <1>6, <1>7, <1>9, <2>4
    <3>2. Ahead(e, n)'
      BY <1>1, <1>3, <2>4, <3>1 DEF Ahead
    <3>3. ~Passed(e, n)'
      BY <1>1, <1>3, <2>4, <3>1 DEF Passed
    <3>4. QED
      BY <3>2, <3>3
  <2>5. CASE feed = "changes" /\ e # Local
    <3>1. /\ cursor[Local][1] <= row.time /\ call[Local].next[1] <= row.time
          /\ cursor[Local][1] \in Nat /\ call[Local].next[1] \in Nat
      BY <1>5, <1>7, <1>8, <2>1, <2>5
    <3>2. Ahead(e, n)'
      BY <1>1, <1>3, <2>2, <2>5, <3>1 DEF Ahead, Supplied
    <3>3. ~Passed(e, n)'
      BY <1>1, <1>3, <2>2, <2>5, <3>1 DEF Passed
    <3>4. QED
      BY <3>2, <3>3
  <2>6. QED
    BY <2>3, <2>4, <2>5
<1>10. FeedTypeOK'
  <2>1. \A p \in Origins : \A i \in DOMAIN log'[p] : log'[p][i] \in FeedRow
    BY <1>1, LogIs DEF FeedKept
  <2>2. QED
    BY <2>1 DEF FeedKept, FeedTypeOK, FeedRow
<1>11. CursorsKept'
  <2>1. \A p \in Origins : \A place : PlaceIn(p, place) => PlaceIn(p, place)'
    BY <1>1, <1>2 DEF PlaceIn
  <2>2. QED
    BY <2>1 DEF FeedKept, CursorsKept
<1>12. NothingSkipped'
  BY <1>1, <1>2, <1>9 DEF FeedKept, NothingSkipped
<1>13. PagesCover'
  BY <1>1, <1>2, <1>9 DEF FeedKept, PagesCover
<1>14. PostedOnce'
  BY <1>1 DEF FeedKept, PostedOnce
<1>15. QED
  BY <1>10, <1>11, <1>12, <1>13, <1>14 DEF FeedKept

LEMMA RowIsPosted ==
  ASSUME FeedKept, NEW e \in Origins, NEW n \in 1..(Len(log[e]) + 1), NEW hidden \in BOOLEAN,
         Post(e, n, hidden)
  PROVE  FeedKept'
<1> DEFINE row == Row(n, 0, hidden, FALSE)
<1>1. /\ feed # "changes" /\ RoomLeft /\ ~Found(e, n)
      /\ log' = [log EXCEPT ![e] = Append(@, row)]
      /\ UNCHANGED <<feed, writing, now, cursor, call, handled>>
  BY DEF Post
<1>2. Cardinality(LogRows) + Cardinality(Writers) < MaxRows
  BY <1>1 DEF RoomLeft, LogRows, Writers
<1>3. /\ Cardinality(LogRows) \in Nat /\ Cardinality(Writers) \in Nat
      /\ Len(log[e]) <= Cardinality(LogRows) /\ Len(log[e]) \in Nat
  BY RoomIsCounted, LogIs DEF FeedKept
<1>4. Len(log[e]) < MaxRows /\ n \in 1..MaxRows
  BY <1>2, <1>3, FeedAssumption
<1>5. row \in FeedRow /\ row.note = n
  BY <1>4, FeedAssumption DEF Row, FeedRow
<1> HIDE DEF row
<1>6. LogsKept'
  <2>1. Writers' = Writers
    BY <1>1 DEF Writers
  <2>2. /\ log' \in [Origins -> Seq(FeedRow)] /\ \A p \in Origins : Len(log'[p]) <= MaxRows
        /\ Cardinality(LogRows') = Cardinality(LogRows) + 1
    BY <1>1, <1>4, <1>5, LogGrows DEF FeedKept
  <2>3. Cardinality(LogRows') + Cardinality(Writers') <= MaxRows
    BY <1>2, <1>3, <2>1, <2>2, FeedAssumption
  <2>4. QED
    BY <1>1, <2>1, <2>2, <2>3 DEF FeedKept, LogsKept
<1>7. \A i \in DOMAIN log[e] : log[e][i].note # row.note
  BY <1>1, <1>5 DEF Found
<1>8. writing' \in [Loggers -> [palace : Origins, time : 0..FeedClock, hidden : BOOLEAN]]
  BY <1>1 DEF FeedKept, FeedTypeOK
<1>9. QED
  BY <1>1, <1>4, <1>5, <1>6, <1>7, <1>8, RowIsAhead

LEMMA EventIsAppended ==
  ASSUME FeedKept, NEW w \in Loggers, AppendEvent(w)
  PROVE  FeedKept'
<1> PICK e : e = writing[w]
  OBVIOUS
<1> PICK late \in BOOLEAN :
      late = \E q \in Origins : \E i \in DOMAIN log[q] : log[q][i].time > e.time
  OBVIOUS
<1> DEFINE row == Row(Len(log[e.palace]) + 1, e.time, e.hidden, late)
<1>1. /\ e # NotWriting
      /\ log' = [log EXCEPT ![e.palace] = Append(@, Row(Len(@) + 1, e.time, e.hidden, late))]
      /\ writing' = [writing EXCEPT ![w] = NotWriting]
      /\ UNCHANGED <<feed, now, cursor, call, handled>>
  BY DEF AppendEvent
<1>2. /\ writing \in [Loggers -> [palace : Origins, time : 0..FeedClock, hidden : BOOLEAN]]
      /\ e.palace \in Origins /\ e.time \in 0..FeedClock /\ e.hidden \in BOOLEAN
      /\ w \in Writers /\ feed = "changes" /\ e.time \in 1..now
  BY <1>1 DEF FeedKept, FeedTypeOK, Writers, LogsKept
<1>3. log' = [log EXCEPT ![e.palace] = Append(@, row)]
  BY <1>1, <1>2 DEF FeedKept, LogsKept
<1>4. /\ Cardinality(LogRows) \in Nat /\ Cardinality(Writers) \in Nat
      /\ Len(log[e.palace]) <= Cardinality(LogRows) /\ Len(log[e.palace]) \in Nat
      /\ Cardinality(LogRows) + Cardinality(Writers) <= MaxRows /\ IsFiniteSet(Writers)
  BY <1>2, RoomIsCounted, LogIs DEF FeedKept, LogsKept
<1>5. Writers' = Writers \ {w}
  BY <1>1, <1>2 DEF Writers
<1>6. Cardinality(Writers') = Cardinality(Writers) - 1 /\ Cardinality(Writers) # 0
  BY <1>2, <1>4, <1>5, FS_RemoveElement, FS_EmptySet
<1>7. Len(log[e.palace]) < MaxRows
  BY <1>4, <1>6, FeedAssumption
<1>8. row \in FeedRow /\ row.time = e.time /\ row.late = late
  BY <1>2, <1>4, <1>7, FeedAssumption DEF Row, FeedRow
<1> HIDE DEF row
<1>9. LogsKept'
  <2>1. /\ log' \in [Origins -> Seq(FeedRow)] /\ \A p \in Origins : Len(log'[p]) <= MaxRows
        /\ Cardinality(LogRows') = Cardinality(LogRows) + 1
        /\ \A p \in Origins : DOMAIN log'[p] = IF p = e.palace
                                                 THEN DOMAIN log[p] \cup {Len(log[e.palace]) + 1}
                                                 ELSE DOMAIN log[p]
        /\ \A p \in Origins : \A i \in DOMAIN log[p] : log'[p][i] = log[p][i]
        /\ log'[e.palace][Len(log[e.palace]) + 1] = row
    BY <1>2, <1>3, <1>7, <1>8, LogGrows DEF FeedKept
  <2>2. Cardinality(LogRows') + Cardinality(Writers') <= MaxRows
    BY <1>4, <1>6, <2>1, FeedAssumption
  <2>3. \A p \in Origins : \A i \in DOMAIN log'[p] : log'[p][i].time \in 1..now
    <3>1. SUFFICES ASSUME NEW p \in Origins, NEW i \in DOMAIN log'[p]
                   PROVE  log'[p][i].time \in 1..now
      OBVIOUS
    <3>2. CASE i \in DOMAIN log[p]
      <4>1. log[p][i].time \in 1..now
        BY <1>2, <3>2 DEF FeedKept, LogsKept
      <4>2. log'[p][i] = log[p][i]
        BY <2>1, <3>2
      <4>3. QED
        BY <4>1, <4>2
    <3>3. CASE i \notin DOMAIN log[p]
      <4>1. p = e.palace /\ i = Len(log[e.palace]) + 1
        BY <1>2, <2>1, <3>1, <3>3
      <4>2. log'[p][i] = row
        BY <2>1, <4>1
      <4>3. QED
        BY <1>2, <1>8, <4>2
    <3>4. QED
      BY <3>2, <3>3
  <2>4. \A v \in Writers' : writing'[v].time \in 1..now
    BY <1>1, <1>2, <1>5 DEF FeedKept, LogsKept, Writers
  <2>5. QED
    BY <1>1, <1>2, <2>1, <2>2, <2>3, <2>4 DEF LogsKept
<1>10. writing' \in [Loggers -> [palace : Origins, time : 0..FeedClock, hidden : BOOLEAN]]
  BY <1>1, <1>2, FeedAssumption DEF NotWriting, Origins
<1>11. /\ row.time # 0
       /\ ~row.late => \A p \in Origins : \A i \in DOMAIN log[p] : log[p][i].time <= row.time
  <2>1. \A p \in Origins : \A i \in DOMAIN log[p] : log[p][i].time \in Nat
    BY FeedAssumption DEF FeedKept, FeedTypeOK
  <2>2. QED
    BY <1>2, <1>8, <2>1
<1>12. QED
  BY <1>1, <1>2, <1>3, <1>7, <1>8, <1>9, <1>10, <1>11, RowIsAhead

LEMMA EventIsStamped ==
  ASSUME FeedKept, NEW w \in Loggers, NEW p \in Origins, NEW hidden \in BOOLEAN,
         StampEvent(w, p, hidden)
  PROVE  FeedKept'
<1> DEFINE e == [palace |-> p, time |-> now, hidden |-> hidden]
<1>1. /\ feed = "changes" /\ RoomLeft /\ writing[w] = NotWriting
      /\ writing' = [writing EXCEPT ![w] = e]
      /\ UNCHANGED <<feed, log, now, cursor, call, handled>>
  BY DEF StampEvent
<1>2. /\ now \in 1..FeedClock /\ writing \in [Loggers -> [palace : Origins, time : 0..FeedClock,
                                                          hidden : BOOLEAN]]
  BY DEF FeedKept, FeedTypeOK
<1>3. /\ e \in [palace : Origins, time : 0..FeedClock, hidden : BOOLEAN] /\ e # NotWriting
      /\ e.time \in 1..now
  BY <1>2, FeedAssumption DEF NotWriting
<1> HIDE DEF e
<1>4. Writers' = Writers \cup {w} /\ w \notin Writers
  BY <1>1, <1>2, <1>3 DEF Writers
<1>5. LogsKept'
  <2>1. LogRows' = LogRows /\ Cardinality(LogRows) + Cardinality(Writers) < MaxRows
    BY <1>1 DEF RoomLeft, LogRows, Writers
  <2>2. Cardinality(Writers') = Cardinality(Writers) + 1
    BY <1>4, RoomIsCounted, FS_AddElement DEF FeedKept
  <2>3. Cardinality(LogRows) \in Nat /\ Cardinality(Writers) \in Nat
    BY RoomIsCounted DEF FeedKept
  <2>4. Cardinality(LogRows') + Cardinality(Writers') <= MaxRows
    BY <2>1, <2>2, <2>3, FeedAssumption
  <2>5. \A v \in Writers' : writing'[v].time \in 1..now
    BY <1>1, <1>2, <1>3, <1>4 DEF FeedKept, LogsKept, Writers
  <2>6. QED
    BY <1>1, <2>4, <2>5 DEF FeedKept, LogsKept
<1>6. FeedTypeOK'
  BY <1>1, <1>2, <1>3 DEF FeedKept, FeedTypeOK
<1>7. CursorsKept' /\ PagesCover' /\ NothingSkipped' /\ PostedOnce'
  BY <1>1
  DEF FeedKept, CursorsKept, PlaceIn, PagesCover, NothingSkipped, PostedOnce, Owed, Visible,
              Ahead, Supplied, Passed, Key
<1>8. QED
  BY <1>5, <1>6, <1>7 DEF FeedKept

LEMMA MessageIsAcknowledged ==
  ASSUME FeedKept, NEW e \in Origins, NEW n \in DOMAIN log[e], Acknowledge(e, n)
  PROVE  FeedKept'
<1> DEFINE row == [log[e][n] EXCEPT !.acked = TRUE]
<1>1. /\ feed = "inbox"
      /\ log' = [log EXCEPT ![e] = [@ EXCEPT ![n] = row]]
      /\ UNCHANGED <<feed, writing, now, cursor, call, handled>>
  BY DEF Acknowledge, FeedKept, LogsKept
<1>2. log[e] \in Seq(FeedRow) /\ log[e][n] \in FeedRow
  BY LogIs DEF FeedKept
<1>3. /\ row \in FeedRow /\ row.note = log[e][n].note /\ row.hidden = log[e][n].hidden
      /\ row.time = log[e][n].time /\ row.late = log[e][n].late /\ row.acked
  BY <1>2 DEF FeedRow
<1> HIDE DEF row
<1>4. /\ [log[e] EXCEPT ![n] = row] \in Seq(FeedRow)
      /\ Len([log[e] EXCEPT ![n] = row]) = Len(log[e])
      /\ DOMAIN [log[e] EXCEPT ![n] = row] = DOMAIN log[e]
  BY <1>2, <1>3
<1>5. /\ log' \in [Origins -> Seq(FeedRow)]
      /\ \A p \in Origins : DOMAIN log'[p] = DOMAIN log[p] /\ Len(log'[p]) = Len(log[p])
      /\ \A p \in Origins : \A i \in DOMAIN log[p] :
           log'[p][i] = IF p = e /\ i = n THEN row ELSE log[p][i]
  BY <1>1, <1>4 DEF FeedKept, LogsKept
<1>6. LogsKept'
  <2>1. LogRows' = LogRows /\ Writers' = Writers
    BY <1>1, <1>5 DEF LogRows, Writers
  <2>2. QED
    BY <1>1, <1>5, <2>1 DEF FeedKept, LogsKept
<1>7. FeedTypeOK'
  <2>1. \A p \in Origins : \A i \in DOMAIN log'[p] : log'[p][i] \in FeedRow
    BY <1>3, <1>5, LogIs DEF FeedKept
  <2>2. QED
    BY <1>1, <2>1 DEF FeedKept, FeedTypeOK, FeedRow
<1>8. \A p \in Origins : \A i \in DOMAIN log[p] :
        /\ (Key(p, i)' = Key(p, i)) /\ (Owed(p, i)' => Owed(p, i))
        /\ (Ahead(p, i)' <=> Ahead(p, i)) /\ (Passed(p, i)' <=> Passed(p, i))
        /\ log'[p][i].note = log[p][i].note
  <2>1. SUFFICES ASSUME NEW p \in Origins, NEW i \in DOMAIN log[p]
                 PROVE  /\ (Key(p, i)' = Key(p, i)) /\ (Owed(p, i)' => Owed(p, i))
                        /\ (Ahead(p, i)' <=> Ahead(p, i)) /\ (Passed(p, i)' <=> Passed(p, i))
                        /\ log'[p][i].note = log[p][i].note
    OBVIOUS
  <2>2. Key(p, i)' = Key(p, i) /\ log'[p][i].note = log[p][i].note
    BY <1>1, <1>3, <1>5 DEF Key
  <2>3. Owed(p, i)' => Owed(p, i)
    BY <1>1, <1>3, <1>5 DEF Owed, Visible
  <2>4. (Ahead(p, i)' <=> Ahead(p, i)) /\ (Passed(p, i)' <=> Passed(p, i))
    BY <1>1, <2>2 DEF Ahead, Supplied, Passed
  <2>5. QED
    BY <2>2, <2>3, <2>4
<1>9. CursorsKept'
  BY <1>1, <1>5, <1>8 DEF FeedKept, CursorsKept, PlaceIn
<1>10. NothingSkipped' /\ PagesCover'
  BY <1>1, <1>5, <1>8 DEF FeedKept, NothingSkipped, PagesCover
<1>11. PostedOnce'
  BY <1>1, <1>5, <1>8 DEF FeedKept, PostedOnce
<1>12. QED
  BY <1>6, <1>7, <1>9, <1>10, <1>11 DEF FeedKept

LEMMA ClockTicks ==
  ASSUME FeedKept, FeedTick
  PROVE  FeedKept'
<1>1. /\ now \in 1..FeedClock /\ now' = now + 1 /\ now' \in 1..FeedClock
      /\ UNCHANGED <<feed, log, writing, cursor, call, handled>>
  BY FeedAssumption DEF FeedTick, FeedKept, FeedTypeOK
<1>2. FeedTypeOK'
  BY <1>1 DEF FeedKept, FeedTypeOK
<1>3. LogsKept'
  <2>1. LogRows' = LogRows /\ Writers' = Writers
    BY <1>1 DEF LogRows, Writers
  <2>2. QED
    BY <1>1, <2>1 DEF FeedKept, LogsKept
<1>4. CursorsKept' /\ PagesCover' /\ NothingSkipped' /\ PostedOnce'
  BY <1>1
  DEF FeedKept, CursorsKept, PlaceIn, PagesCover, NothingSkipped, PostedOnce, Owed, Visible,
              Ahead, Supplied, Passed, Key
<1>5. QED
  BY <1>2, <1>3, <1>4 DEF FeedKept

LEMMA FeedInitKept == FeedInit => FeedKept
<1>1. ASSUME FeedInit
      PROVE  FeedKept
  <2>1. /\ feed \in Feeds /\ log = [p \in Origins |-> <<>>] /\ now = 1 /\ handled = {}
        /\ writing = [w \in Loggers |-> NotWriting] /\ cursor = [p \in Origins |-> Start]
        /\ call = [p \in Origins |-> NotCalled]
    BY <1>1 DEF FeedInit
  <2>2. \A p \in Origins : log[p] = <<>> /\ log[p] \in Seq(FeedRow) /\ DOMAIN log[p] = {} /\ Len(log[p]) = 0
    BY <2>1
  <2>3. LogRows = {} /\ Writers = {}
    BY <2>1, <2>2 DEF LogRows, Writers
  <2>4. LogsKept
    BY <2>1, <2>2, <2>3, FS_EmptySet, FeedAssumption DEF LogsKept
  <2>5. FeedTypeOK
    <3>1. NotCalled \in [at : {"idle", "asked", "answered", "failed"}, rows : SUBSET (1..MaxRows),
                         next : (0..FeedClock) \X (0..MaxRows)]
      BY FeedAssumption DEF NotCalled, Start
    <3>2. NotWriting \in [palace : Origins, time : 0..FeedClock, hidden : BOOLEAN]
      BY FeedAssumption DEF NotWriting, Origins
    <3>3. Start \in (0..FeedClock) \X (0..MaxRows) /\ now \in 1..FeedClock
      BY <2>1, FeedAssumption DEF Start
    <3>4. QED
      BY <2>1, <2>2, <3>1, <3>2, <3>3 DEF FeedTypeOK
  <2>6. CursorsKept /\ PagesCover
    BY <2>1 DEF CursorsKept, PagesCover, PlaceIn, NotCalled
  <2>7. NothingSkipped /\ PostedOnce
    BY <2>2 DEF NothingSkipped, PostedOnce
  <2>8. QED
    BY <2>4, <2>5, <2>6, <2>7 DEF FeedKept
<1>2. QED
  BY <1>1

LEMMA FeedStepKeeps == FeedKept /\ [FeedNext]_feedVars => FeedKept'
<1>1. ASSUME FeedKept, FeedNext
      PROVE  FeedKept'
  <2>1. CASE FeedTick
    BY <1>1, <2>1, ClockTicks
  <2>2. CASE BeginCall \/ LoseCall
    BY <1>1, <2>2, CallIsDropped DEF BeginCall, LoseCall
  <2>3. CASE EndCall
    BY <1>1, <2>3, CallEnds
  <2>4. CASE \E p \in Origins :
               ReadPage(p) \/ FailPage(p) \/ \E i \in DOMAIN log[p] : Acknowledge(p, i)
    BY <1>1, <2>4, PageIsRead, PageIsNotRead, MessageIsAcknowledged
  <2>5. CASE \E p \in Origins, hidden \in BOOLEAN :
               \/ \E n \in 1..(Len(log[p]) + 1) : Post(p, n, hidden)
               \/ \E w \in Loggers : StampEvent(w, p, hidden)
    BY <1>1, <2>5, RowIsPosted, EventIsStamped
  <2>6. CASE \E w \in Loggers : AppendEvent(w)
    BY <1>1, <2>6, EventIsAppended
  <2>7. QED
    BY <1>1, <2>1, <2>2, <2>3, <2>4, <2>5, <2>6 DEF FeedNext
<1>2. ASSUME FeedKept, UNCHANGED feedVars
      PROVE  FeedKept'
  <2>1. UNCHANGED <<feed, log, writing, now, cursor, call, handled>>
    BY <1>2 DEF feedVars
  <2>2. FeedTypeOK' /\ LogsKept'
    BY <1>2, <2>1 DEF FeedKept, FeedTypeOK, LogsKept, LogRows, Writers
  <2>3. CursorsKept' /\ PagesCover' /\ NothingSkipped' /\ PostedOnce'
    BY <1>2, <2>1
    DEF FeedKept, CursorsKept, PlaceIn, PagesCover, NothingSkipped, PostedOnce, Owed,
                      Visible, Ahead, Supplied, Passed, Key
  <2>4. QED
    BY <2>2, <2>3 DEF FeedKept
<1>3. QED
  BY <1>1, <1>2

\* Pages in hand and stored cursors fit together between any two steps of the writers, the call and
\* the worker (agentpalace-mcp/src/lib.rs and federation.rs, the feeds and their fan-outs).
THEOREM FeedKeptHolds == FeedSpec => []FeedKept
<1>1. QED
  BY FeedInitKept, FeedStepKeeps, PTL DEF FeedSpec

\* A worker that continues from its stored cursors skips no row it is owed, whatever is posted,
\* acknowledged, filtered out, unreachable or lost, and a repeat under the same key posts nothing
\* twice: for any number of remotes, writers and rows and any page size.
THEOREM NothingIsSkipped == FeedSpec => []FeedInv
<1>1. FeedKept => FeedInv
  BY DEF FeedKept, FeedInv
<1>2. QED
  BY <1>1, FeedKeptHolds, PTL
=============================================================================
