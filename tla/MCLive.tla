------------------------------- MODULE MCLive -------------------------------
(***************************************************************************)
(* Liveness of the MCP server: one run over the two components of it that  *)
(* must make progress.  focus, fixed in the initial state, says which of   *)
(* them a behaviour is about; the other one stays where it starts.         *)
(***************************************************************************)
EXTENDS LocalFirstWrites, RequestQueues, TLC

VARIABLE focus

liveVars == <<vars, setup, queueVars, focus>>

\* One process; the invalidation has a key and is called again.
Interrupted ==
  {[procs |-> Procs, ops |-> Ops, keyed |-> Invalidates, endsToday |-> {FALSE},
    maxFaults |-> 2, maxRevision |-> 3]}

LiveInit == Init /\ QueueInit /\ focus \in {"writes", "requests"}

LiveNext ==
  /\ \/ focus = "writes" /\ Next /\ UNCHANGED queueVars
     \/ focus = "requests" /\ QueueNext /\ UNCHANGED writeVars
  /\ UNCHANGED focus

Writing == focus = "writes"
Queueing == focus = "requests"

\* WritersAreFair and QueueFairness, each for the behaviours about its component.
LiveSpec ==
  /\ LiveInit /\ [][LiveNext]_liveVars
  /\ \A p \in Procs :
       /\ WF_vars(Writing /\ Start(p)) /\ WF_vars(Writing /\ Reconcile(p))
       /\ WF_vars(Writing /\ Serve(p)) /\ SF_vars(Writing /\ BeginPeriodic(p))
  /\ \A o \in Ops : SF_vars(Writing /\ Deliver(o)) /\ WF_vars(Writing /\ GracePasses(o))
  /\ WF_queueVars(Queueing /\ ReadLine) /\ WF_queueVars(Queueing /\ LockRuntime)
  /\ WF_queueVars(Queueing /\ TakeJob)
  /\ \A r \in Calls :
       /\ WF_queueVars(Queueing /\ AdmitCall(r)) /\ WF_queueVars(Queueing /\ FinishLease(r))
       /\ WF_queueVars(Queueing /\ Reply(r)) /\ WF_queueVars(Queueing /\ WriteResponse(r))
=============================================================================
