---------------------------- MODULE RequestQueues ----------------------------
(***************************************************************************)
(* How the MCP server runs tool calls (crates/agentpalace-mcp/src/lib.rs:  *)
(* serve_lines, dispatch_tool, MemoryExecutor).                            *)
(*                                                                         *)
(* A call needs a permit of its lane: memory calls of one semaphore, lease *)
(* calls (task get, claim, renew) of another.  A memory call then waits    *)
(* for the runtime mutex, which is fair, moves the mutex guard and its     *)
(* permit into a job, and hands the job over a channel of capacity one to  *)
(* the one memory thread.  Over stdio one loop reads requests and writes   *)
(* responses; over HTTP every request is a task of its own and may be      *)
(* dropped by its caller at any time.                                      *)
(*                                                                         *)
(* What a tool does is abstracted to a job that ends, by returning or by a *)
(* panic, or never ends: an embedding may block for as long as it likes.   *)
(***************************************************************************)
EXTENDS Naturals, Sequences, FiniteSets, SequencesExt

CONSTANTS
  MemoryCalls,   \* requests for tools that need the runtime
  LeaseCalls,    \* requests for the lease tools
  QueueLimit,    \* effective_queue_limit: permits of each lane
  NoCall         \* neither a memory call nor a lease call

ASSUME QueueAssumption ==
  /\ MemoryCalls \cap LeaseCalls = {} /\ NoCall \notin MemoryCalls \cup LeaseCalls
  /\ QueueLimit \in Nat

VARIABLES
  transport,   \* stdio or http, for the life of the server
  lines,       \* stdio: requests written by the client and not yet read
  pc,          \* where each request is
  answer,      \* what its caller is told
  permits,     \* requests whose permit is taken
  waiters,     \* the queue of the runtime mutex
  owner,       \* whose guard holds the runtime mutex
  channel,     \* jobs sent to the memory thread
  worker,      \* the job the memory thread executes
  callers      \* requests whose caller still waits

queueVars == <<transport, lines, pc, answer, permits, waiters, owner, channel, worker, callers>>

Calls == MemoryCalls \cup LeaseCalls

Places == {"unsent", "line", "admission", "lease", "lock", "job", "released", "ready", "written", "dropped"}
Answers == {"none", "value", "panicked", "busy", "full"}

(* Permits a lane has left: one semaphore each. *)
Lane(r) == IF r \in LeaseCalls THEN LeaseCalls ELSE MemoryCalls
PermitFree(r) == Cardinality(permits \cap Lane(r)) < QueueLimit

(***************************************************************************)
(* serve_lines.  pending is its JoinSet: the requests it has spawned and   *)
(* not yet written the response of.  The select is biased: a finished      *)
(* request is written before another line is read.                         *)
(***************************************************************************)
PendingCalls == {r \in Calls : pc[r] \notin {"unsent", "line", "written", "dropped"}}

(* Mutant: the limit of the loop forgets the lease lane and the extra slot. *)
ReadLimitOneLane == QueueLimit

ReadLimit == QueueLimit + QueueLimit + 1

SendRequest(r) ==
  /\ pc[r] = "unsent"
  /\ IF transport = "stdio"
     THEN lines' = Append(lines, r) /\ pc' = [pc EXCEPT ![r] = "line"]
     ELSE pc' = [pc EXCEPT ![r] = "admission"] /\ UNCHANGED lines
  /\ callers' = callers \cup {r}
  /\ UNCHANGED <<transport, answer, permits, waiters, owner, channel, worker>>

ReadLine ==
  /\ lines # <<>>
  /\ \A r \in Calls : pc[r] # "ready"
  /\ Cardinality(PendingCalls) < ReadLimit
  /\ lines' = Tail(lines)
  /\ pc' = [pc EXCEPT ![Head(lines)] = "admission"]
  /\ UNCHANGED <<transport, answer, permits, waiters, owner, channel, worker, callers>>

WriteResponse(r) ==
  /\ pc[r] = "ready"
  /\ pc' = [pc EXCEPT ![r] = "written"]
  /\ callers' = callers \ {r}
  /\ UNCHANGED <<transport, lines, answer, permits, waiters, owner, channel, worker>>

(***************************************************************************)
(* dispatch_tool                                                           *)
(***************************************************************************)
Answered(r, a) ==
  /\ pc' = [pc EXCEPT ![r] = "ready"]
  /\ answer' = [answer EXCEPT ![r] = a]

AdmitCall(r) ==
  /\ pc[r] = "admission"
  /\ IF PermitFree(r)
     THEN /\ permits' = permits \cup {r}
          /\ pc' = [pc EXCEPT ![r] = IF r \in LeaseCalls THEN "lease" ELSE "lock"]
          /\ waiters' = IF r \in LeaseCalls THEN waiters ELSE Append(waiters, r)
          /\ UNCHANGED answer
     ELSE Answered(r, "busy") /\ UNCHANGED <<permits, waiters>>
  /\ UNCHANGED <<transport, lines, owner, channel, worker, callers>>

FinishLease(r) ==
  /\ pc[r] = "lease"
  /\ Answered(r, "value")
  /\ permits' = permits \ {r}
  /\ UNCHANGED <<transport, lines, waiters, owner, channel, worker, callers>>

(* The first waiter gets the mutex and tries to send its job in the same   *)
(* poll; a job that cannot be sent is dropped with its guard and permit.   *)
LockRuntime ==
  /\ owner = NoCall /\ waiters # <<>>
  /\ LET r == Head(waiters)
     IN  IF channel = <<>>
         THEN /\ owner' = r
              /\ channel' = <<r>>
              /\ pc' = [pc EXCEPT ![r] = "job"]
              /\ UNCHANGED <<answer, permits>>
         ELSE /\ Answered(r, "full")
              /\ permits' = permits \ {r}
              /\ UNCHANGED <<owner, channel>>
  /\ waiters' = Tail(waiters)
  /\ UNCHANGED <<transport, lines, worker, callers>>

(***************************************************************************)
(* The memory thread.  A job whose caller is gone is dropped unrun.        *)
(***************************************************************************)
TakeJob ==
  /\ worker = NoCall /\ channel # <<>>
  /\ LET r == Head(channel)
     IN  IF r \in callers
         THEN worker' = r /\ UNCHANGED <<owner, permits>>
         ELSE owner' = NoCall /\ permits' = permits \ {r} /\ UNCHANGED worker
  /\ channel' = Tail(channel)
  /\ UNCHANGED <<transport, lines, pc, answer, waiters, callers>>

(* The job returns or unwinds: guard and permit are dropped inside it,     *)
(* before the thread replies and takes the next job.                       *)
EndJob(r, a) ==
  /\ worker = r /\ owner = r
  /\ owner' = NoCall
  /\ permits' = permits \ {r}
  /\ answer' = IF r \in callers THEN [answer EXCEPT ![r] = a] ELSE answer
  /\ pc' = IF r \in callers THEN [pc EXCEPT ![r] = "released"] ELSE pc
  /\ UNCHANGED <<transport, lines, waiters, channel, worker, callers>>

(* Mutant: a panic ends the memory thread. *)
WorkerAfterPanicDies(r) == IF answer[r] = "panicked" THEN r ELSE NoCall

WorkerAfter(r) == NoCall

Reply(r) ==
  /\ worker = r /\ owner # r
  /\ worker' = WorkerAfter(r)
  /\ pc' = IF pc[r] = "released" THEN [pc EXCEPT ![r] = "ready"] ELSE pc
  /\ UNCHANGED <<transport, lines, answer, permits, waiters, owner, channel, callers>>

(***************************************************************************)
(* An HTTP caller disconnects and its future is dropped.  Until the job is *)
(* sent the future owns permit and place in the queue; from then on the    *)
(* job owns permit and guard.                                              *)
(***************************************************************************)

(* Mutant: permit and guard stay with the caller while its job runs. *)
OwnsByCaller(r) == pc[r] \in {"lease", "lock", "job", "released"}

Owns(r) == pc[r] \in {"lease", "lock"}

(* Mutant: a dropped future keeps its place in the queue. *)
WaitersKept(r) == waiters

WaitersWithout(r) ==
  IF r \notin ToSet(waiters) THEN waiters
  ELSE RemoveAt(waiters, CHOOSE i \in DOMAIN waiters : waiters[i] = r)

DropCaller(r) ==
  /\ transport = "http" /\ r \in callers
  /\ callers' = callers \ {r}
  /\ pc' = [pc EXCEPT ![r] = "dropped"]
  /\ answer' = [answer EXCEPT ![r] = "none"]
  /\ permits' = IF Owns(r) THEN permits \ {r} ELSE permits
  /\ owner' = IF Owns(r) /\ owner = r THEN NoCall ELSE owner
  /\ waiters' = WaitersWithout(r)
  /\ UNCHANGED <<transport, lines, channel, worker>>

(***************************************************************************)
QueueInit ==
  /\ transport \in {"stdio", "http"}
  /\ lines = <<>> /\ waiters = <<>> /\ channel = <<>>
  /\ pc = [r \in Calls |-> "unsent"]
  /\ answer = [r \in Calls |-> "none"]
  /\ permits = {} /\ callers = {}
  /\ owner = NoCall /\ worker = NoCall

QueueNext ==
  \/ ReadLine
  \/ LockRuntime
  \/ TakeJob
  \/ \E r \in Calls :
       \/ SendRequest(r)
       \/ WriteResponse(r)
       \/ AdmitCall(r)
       \/ FinishLease(r)
       \/ \E a \in {"value", "panicked"} : EndJob(r, a)
       \/ Reply(r)
       \/ DropCaller(r)

(* The transport loop, the executor and the lease operations go on; no     *)
(* memory job need ever end.                                               *)
QueueFairness ==
  /\ WF_queueVars(ReadLine)
  /\ WF_queueVars(LockRuntime)
  /\ WF_queueVars(TakeJob)
  /\ \A r \in Calls :
       /\ WF_queueVars(WriteResponse(r))
       /\ WF_queueVars(AdmitCall(r))
       /\ WF_queueVars(FinishLease(r))
       /\ WF_queueVars(Reply(r))

QueueSpec == QueueInit /\ [][QueueNext]_queueVars /\ QueueFairness

(***************************************************************************)
(* Properties                                                              *)
(***************************************************************************)

(* The places, queues and holders of the server have their types. *)
QueueTypeOK ==
  /\ pc \in [Calls -> Places] /\ answer \in [Calls -> Answers]
  /\ permits \subseteq Calls /\ callers \subseteq Calls
  /\ owner \in MemoryCalls \cup {NoCall} /\ worker \in MemoryCalls \cup {NoCall}
  /\ Len(channel) <= 1
  /\ ToSet(waiters) = {r \in Calls : pc[r] = "lock"} /\ IsInjective(waiters)

(* Work under way never exceeds the limit, abandoned work included: a job  *)
(* that waits or runs holds its permit even when its caller has left       *)
(* (the permit moves into the job in dispatch_tool).                       *)
WorkIsBounded ==
  LET busy == ToSet(waiters) \cup ToSet(channel) \cup {r \in {worker} \ {NoCall} : owner = r}
  IN  busy \subseteq permits /\ Cardinality(busy) <= QueueLimit

(* try_send never meets a full channel: whoever holds the mutex is the     *)
(* only one who can have a job waiting, although the mutex is free again   *)
(* before the thread comes back for its next job.                          *)
ChannelNeverFull == \A r \in Calls : answer[r] # "full"

(* Both together, with the types: what dispatch_tool admits, it can hold.  *)
AdmissionHolds == QueueTypeOK /\ WorkIsBounded /\ ChannelNeverFull

(* A lease call over a busy server is answered, even while every memory    *)
(* permit is taken by work that never ends: the read limit of serve_lines  *)
(* leaves room for it behind any number of refused memory calls.           *)
LeaseAnswered == \A r \in LeaseCalls : pc[r] = "line" ~> pc[r] = "written"

(* While jobs end, every request whose caller stays gets its answer: a     *)
(* panic or an abandoned job takes neither the thread nor the mutex nor a  *)
(* permit with it.                                                         *)
EveryCallAnswered ==
  (\A r \in MemoryCalls : WF_queueVars(\E a \in {"value", "panicked"} : EndJob(r, a))) =>
    \A r \in Calls : r \in callers ~> r \notin callers
=============================================================================
