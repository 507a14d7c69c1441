------------------------- MODULE MCLocalFirstWrites -------------------------
(***************************************************************************)
(* LocalFirstWrites for TLC: the settings that its runs explore.           *)
(***************************************************************************)
EXTENDS LocalFirstWrites, TLC

\* One process, crashes and failed cancellations, calls without keys.
Faulty ==
  {[procs |-> {p}, ops |-> Ops, keyed |-> {}, endsToday |-> {FALSE},
    maxFaults |-> 2, maxRevision |-> 3] : p \in Procs}

\* One process and one addition, keyed invalidations, today and tomorrow, a fault.
Repeating ==
  {[procs |-> {p}, ops |-> Invalidates \cup {a}, keyed |-> Invalidates, endsToday |-> BOOLEAN,
    maxFaults |-> 1, maxRevision |-> 3] : p \in Procs, a \in Adds}

\* One process, a keyed addition and a keyed invalidation, today and tomorrow, two faults.
Alternating ==
  {[procs |-> {p}, ops |-> {a, i}, keyed |-> {a, i}, endsToday |-> BOOLEAN,
    maxFaults |-> 2, maxRevision |-> 5] : p \in Procs, a \in Adds, i \in Invalidates}

\* All processes on one palace, an addition and a keyed invalidation, a fault.
Shared ==
  {[procs |-> Procs, ops |-> {a, i}, keyed |-> {i}, endsToday |-> {FALSE},
    maxFaults |-> 1, maxRevision |-> 3] : a \in Adds, i \in Invalidates}

AllSetups == Faulty \cup Repeating \cup Alternating \cup Shared

\* One process, a keyed addition called again.
Replayed ==
  {[procs |-> Procs, ops |-> Ops, keyed |-> Adds, endsToday |-> {FALSE},
    maxFaults |-> 0, maxRevision |-> 3]}

MCSymmetry == Permutations(Procs) \cup Permutations(Adds) \cup Permutations(Invalidates)
=============================================================================
