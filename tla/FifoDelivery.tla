---------------------------- MODULE FifoDelivery ----------------------------
(***************************************************************************)
(* What the replication outbox promises its callers, without leases,       *)
(* revisions, clocks or retries (agentpalace-storage/src/outbox.rs, module *)
(* documentation).  An item is staged before the caller knows whether its  *)
(* local write commits, is decided once the caller knows, and is settled   *)
(* by the remote's verdict.  Items of one group are settled strictly in    *)
(* the order of their places; an item given up and staged again goes to    *)
(* the back.                                                               *)
(***************************************************************************)
EXTENDS Integers

CONSTANTS Items, Groups, NoGroup

VARIABLES status, place, group, last

vars == <<status, place, group, last>>

Waiting == {"staged", "queued"}

Init ==
  /\ status = [i \in Items |-> "absent"]
  /\ place = [i \in Items |-> 0]
  /\ group = [i \in Items |-> NoGroup]
  /\ last = 0

\* Nothing that still waits stands before i in its group.
AtHead(i) ==
  \A j \in Items : group[j] = group[i] /\ place[j] < place[i] => status[j] \notin Waiting

Stage(i, g) ==
  /\ status[i] = "absent" \/ (status[i] = "cancelled" /\ group[i] = g)
  /\ status' = [status EXCEPT ![i] = "staged"]
  /\ place' = [place EXCEPT ![i] = last + 1]
  /\ group' = [group EXCEPT ![i] = g]
  /\ last' = last + 1

Decide(i, verdict) ==
  /\ status[i] = "staged"
  /\ status' = [status EXCEPT ![i] = verdict]
  /\ UNCHANGED <<place, group, last>>

Settle(i, verdict) ==
  /\ status[i] = "queued"
  /\ AtHead(i)
  /\ status' = [status EXCEPT ![i] = verdict]
  /\ UNCHANGED <<place, group, last>>

Next ==
  \E i \in Items :
    \/ \E g \in Groups : Stage(i, g)
    \/ \E v \in {"queued", "cancelled"} : Decide(i, v)
    \/ \E v \in {"delivered", "refused"} : Settle(i, v)

Spec == Init /\ [][Next]_vars
=============================================================================
