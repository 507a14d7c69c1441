---------------------------- MODULE DrawerWrites ----------------------------
(***************************************************************************)
(* The drawer tools of the MCP server under write:both (agentpalace-mcp/   *)
(* src/lib.rs): tool_add_drawer and tool_delete_drawer stage a durable     *)
(* intent, write LanceDB and the ingest run, and activate the intent;      *)
(* staged intents are reconciled against the rows, activated ones are      *)
(* delivered in the order of their drawer.  Drawer ids are minted from the *)
(* time, so a call that is repeated has to find the id of the first.       *)
(*                                                                         *)
(* One process serves the palace and one remote follows it, which nobody   *)
(* else writes.  Every added drawer has the same content and metadata, the *)
(* case in which a later addition is a duplicate; similar contents, wings, *)
(* events and diary summaries are left out.  Claims and back-off are those *)
(* of Outbox; the remote's routes are those of DrawerRoutes, whose answer  *)
(* to an operation that took effect before is taken to repeat the first.   *)
(***************************************************************************)
EXTENDS Integers, Sequences, SequencesExt

CONSTANTS
  AddKeys,          \* operation ids of keyed additions
  RemoveKeys,       \* operation ids of keyed deletions
  MaxDrawerIds,     \* bound on the ids that are minted
  MaxIntents,       \* bound on the intents
  MaxDrawerFaults   \* bound on crashes, failed writes, lost answers and refusals

DrawerIds == 1..MaxDrawerIds

\* An unkeyed addition's key is a digest of its drawer id, an unkeyed deletion's is always new.
NewKey == 0
OutboxKeys == AddKeys \cup RemoveKeys \cup DrawerIds \cup {NewKey}

ASSUME DrawerWritesAssumption ==
  /\ MaxDrawerIds \in Nat /\ MaxIntents \in Nat /\ MaxDrawerFaults \in Nat
  /\ AddKeys \cap RemoveKeys = {} /\ (AddKeys \cup RemoveKeys) \cap Nat = {}

VARIABLES
  intents,      \* replication_outbox rows about drawers, in the order of their sequence
  held,         \* LanceDB rows of the palace
  pending,      \* drawers with a pending ingest run
  vouched,      \* drawers with a committed ingest run
  stored,       \* drawers at the remote
  minted,       \* how many ids were minted
  tool,         \* the process: what it does and for which intent
  drawerFaults, \* faults so far
  pruned,       \* history: drawers removed as rows of a run that never committed
  overtaken,    \* history: drawers with an intent taken up again behind which others were staged
  spoiled       \* history: drawers whose row stayed when their commit reported a failure

drawerVars ==
  <<intents, held, pending, vouched, stored, minted, tool, drawerFaults, pruned, overtaken, spoiled>>

\* queued stands for pending, leased and retryable; young: staged within the grace period; landed:
\* the remote applied it and the answer was lost.
Intent == [kind   : {"add", "delete"},
           key    : OutboxKeys,
           drawer : DrawerIds,
           state  : {"staged", "queued", "delivered", "failed", "cancelled"},
           young  : BOOLEAN,
           landed : BOOLEAN]

\* starting and polling: the reconciliation passes at startup and every 30 seconds.
Tool == [pc  : {"down", "starting", "polling", "ready", "adding", "stored", "removing", "committed"},
         row : 0..MaxIntents]

Idle(pc) == [pc |-> pc, row |-> 0]

DrawersTypeOK ==
  /\ intents \in Seq(Intent) /\ Len(intents) <= MaxIntents
  /\ held \subseteq 1..minted /\ vouched \subseteq 1..minted /\ pending \subseteq 1..minted
  /\ stored \subseteq 1..minted
  /\ minted \in 0..MaxDrawerIds
  /\ tool \in Tool /\ tool.row <= Len(intents)
  /\ drawerFaults \in 0..MaxDrawerFaults
  /\ pruned \cup overtaken \cup spoiled \subseteq 1..minted

DrawersInit ==
  /\ intents = <<>>
  /\ held = {} /\ pending = {} /\ vouched = {} /\ stored = {}
  /\ minted = 0
  /\ tool = Idle("down")
  /\ drawerFaults = 0
  /\ pruned = {} /\ overtaken = {} /\ spoiled = {}

-----------------------------------------------------------------------------
(* The outbox.                                                             *)

Rows == DOMAIN intents

Doing(pc) == tool.pc = pc

\* The intent and the drawer of the call in progress.
Mine   == tool.row
Target == intents[Mine].drawer

SetState(i, state) == intents' = [intents EXCEPT ![i].state = state]

\* find_by_key: the rows with a key, at most one.
RowsOf(key) == {i \in Rows : key # NewKey /\ intents[i].key = key}

\* The key finds no row, or one with this drawer; any other mutation is refused.
Accepts(key, d) == \A i \in RowsOf(key) : intents[i].drawer = d

\* enqueue: a new row, a cancelled one staged again behind the others, or the one there is.
Enqueue(kind, key, d, pc) ==
  LET row == [kind |-> kind, key |-> key, drawer |-> d, state |-> "staged", young |-> TRUE,
              landed |-> FALSE]
  IN  /\ Accepts(key, d)
      /\ \/ /\ RowsOf(key) = {}
            /\ Len(intents) < MaxIntents
            /\ intents' = Append(intents, row)
            /\ tool' = [pc |-> pc, row |-> Len(intents) + 1]
         \/ \E i \in RowsOf(key) :
              IF intents[i].state = "cancelled"
                THEN /\ intents' = Append(RemoveAt(intents, i), row)
                     /\ tool' = [pc |-> pc, row |-> Len(intents)]
                ELSE intents' = intents /\ tool' = [pc |-> pc, row |-> i]

\* History: the drawer of a staged intent that is taken up again with others of its drawer staged
\* behind it meanwhile.
Overtaken(key) ==
  {intents[i].drawer : i \in {j \in RowsOf(key) :
     /\ intents[j].state = "staged"
     /\ \E l \in Rows : l > j /\ intents[l].drawer = intents[j].drawer}}

Faults(n) == drawerFaults + n <= MaxDrawerFaults /\ drawerFaults' = drawerFaults + n

-----------------------------------------------------------------------------
(* tool_add_drawer.                                                        *)

\* recover_keyed_add_replay: the call was completed before and its drawer is gone.
AddReplayed(key) ==
  \E i \in RowsOf(key) :
    intents[i].state \notin {"staged", "cancelled"} /\ intents[i].drawer \notin held

\* The content is there already: the addition is staged for the drawer that has it.
AddDuplicate(key) ==
  /\ Doing("ready")
  /\ ~AddReplayed(key)
  /\ \E d \in held : Enqueue("add", IF key = NewKey THEN d ELSE key, d, "committed")
  /\ overtaken' = overtaken \cup Overtaken(key)
  /\ UNCHANGED <<held, pending, vouched, stored, minted, drawerFaults, pruned, spoiled>>

\* recover_keyed_add_target: an intent that never committed pins its drawer id.
Pinned(key) == {intents[i].drawer : i \in {j \in RowsOf(key) :
                                             intents[j].state \in {"staged", "cancelled"}}}

AddDrawer(key) ==
  /\ Doing("ready")
  /\ ~AddReplayed(key)
  /\ held = {}
  /\ IF Pinned(key) # {}
       THEN \E d \in Pinned(key) : Enqueue("add", key, d, "adding") /\ UNCHANGED minted
       ELSE /\ minted < MaxDrawerIds
            /\ minted' = minted + 1
            /\ Enqueue("add", IF key = NewKey THEN minted + 1 ELSE key, minted + 1, "adding")
  /\ overtaken' = overtaken \cup Overtaken(key)
  /\ UNCHANGED <<held, pending, vouched, stored, drawerFaults, pruned, spoiled>>

\* commit_ingest: a pending run, then the row.
StoreDrawer ==
  /\ Doing("adding")
  /\ held' = held \cup {Target}
  /\ pending' = pending \cup {Target}
  /\ tool' = [tool EXCEPT !.pc = "stored"]
  /\ UNCHANGED <<intents, vouched, stored, minted, drawerFaults, pruned, overtaken, spoiled>>

CommitDrawer ==
  /\ Doing("stored")
  /\ pending' = pending \ {Target}
  /\ vouched' = vouched \cup {Target}
  /\ tool' = [tool EXCEPT !.pc = "committed"]
  /\ UNCHANGED <<intents, held, stored, minted, drawerFaults, pruned, overtaken, spoiled>>

\* cancel_staged_replication after a failure: best effort, failing to cancel is only logged.
CancelMine ==
  /\ \/ Faults(1) /\ intents[Mine].state = "staged" /\ SetState(Mine, "cancelled")
     \/ Faults(2) /\ UNCHANGED intents
  /\ tool' = Idle("ready")

\* The commit fails although the row is there: building the indices failed and the run is marked
\* failed, or the run could not be marked committed.
FailCommit ==
  /\ Doing("stored")
  /\ \E failed \in SUBSET {Target} : pending' = pending \ failed
  /\ spoiled' = spoiled \cup {Target}
  /\ CancelMine
  /\ UNCHANGED <<held, vouched, stored, minted, pruned, overtaken>>

\* Embedding, writing or removing the row fails.
FailWrite ==
  /\ Doing("adding") \/ Doing("removing")
  /\ CancelMine
  /\ UNCHANGED <<held, pending, vouched, stored, minted, pruned, overtaken, spoiled>>

-----------------------------------------------------------------------------
(* tool_delete_drawer.                                                     *)

\* recover_keyed_delete_replication: the caller's operation is past staging.
DeleteReplayed(key) ==
  \E i \in RowsOf(key) : intents[i].state \notin {"staged", "cancelled"}

DeleteDrawer(key, d) ==
  /\ Doing("ready")
  /\ d \in held
  /\ ~DeleteReplayed(key)
  /\ Enqueue("delete", key, d, "removing")
  /\ overtaken' = overtaken \cup Overtaken(key)
  /\ UNCHANGED <<held, pending, vouched, stored, minted, drawerFaults, pruned, spoiled>>

RemoveDrawer ==
  /\ Doing("removing")
  /\ held' = held \ {Target}
  /\ tool' = [tool EXCEPT !.pc = "committed"]
  /\ UNCHANGED <<intents, pending, vouched, stored, minted, drawerFaults, pruned, overtaken, spoiled>>

\* Another call removed the drawer of a staged deletion: it is activated.
RecoverDelete(key) ==
  /\ Doing("ready")
  /\ \E i \in RowsOf(key) :
       /\ intents[i].state = "staged" /\ intents[i].drawer \notin held
       /\ tool' = [pc |-> "committed", row |-> i]
  /\ overtaken' = overtaken \cup Overtaken(key)
  /\ UNCHANGED <<intents, held, pending, vouched, stored, minted, drawerFaults, pruned, spoiled>>

\* A drawer the palace does not have is deleted at the remote at once, past the outbox.
ForwardDelete(key, d) ==
  /\ Doing("ready")
  /\ d \notin held
  /\ \A i \in RowsOf(key) : intents[i].drawer = d => intents[i].state = "cancelled"
  /\ stored' = stored \ {d}
  /\ UNCHANGED <<intents, held, pending, vouched, minted, tool, drawerFaults, pruned, overtaken, spoiled>>

\* The end of both tools: a staged intent is activated, any other one reported as it is.
ActivateIntent ==
  /\ Doing("committed")
  /\ IF intents[Mine].state = "staged" THEN SetState(Mine, "queued") ELSE UNCHANGED intents
  /\ tool' = Idle("ready")
  /\ UNCHANGED <<held, pending, vouched, stored, minted, drawerFaults, pruned, overtaken, spoiled>>

-----------------------------------------------------------------------------
(* Startup, reconciliation and time.                                       *)

\* Opening the storage prunes the rows of pending runs older than an hour, unless another run of
\* theirs committed.
OpenPalace(late) ==
  LET orphans == IF late THEN held \cap (pending \ vouched) ELSE {} IN
    /\ Doing("down")
    /\ held' = held \ orphans
    /\ pruned' = pruned \cup orphans
    /\ pending' = IF late THEN {} ELSE pending
    /\ intents' = [i \in Rows |-> [intents[i] EXCEPT !.young = @ /\ ~late]]
    /\ tool' = Idle("starting")
    /\ UNCHANGED <<vouched, stored, minted, drawerFaults, overtaken, spoiled>>

PollStaged ==
  /\ Doing("ready")
  /\ tool' = Idle("polling")
  /\ UNCHANGED <<intents, held, pending, vouched, stored, minted, drawerFaults, pruned, overtaken, spoiled>>

\* replication_intent_committed: the rows are as the mutation would have left them.
LooksDoneAnyKind(i) == intents[i].drawer \in held

LooksDone(i) == (intents[i].kind = "add") = (intents[i].drawer \in held)

\* Staged, and committed or too old to be left to its writer.
Decidable(i) == intents[i].state = "staged" /\ (LooksDone(i) \/ ~intents[i].young)

SettleIntent(i) ==
  /\ Doing("starting") \/ Doing("polling")
  /\ Decidable(i)
  /\ \A j \in Rows : j < i => ~Decidable(j)
  /\ SetState(i, IF LooksDone(i) THEN "queued" ELSE "cancelled")
  /\ UNCHANGED <<held, pending, vouched, stored, minted, tool, drawerFaults, pruned, overtaken, spoiled>>

EndReconcile ==
  /\ Doing("starting") \/ Doing("polling")
  /\ \A i \in Rows : ~Decidable(i)
  /\ tool' = Idle("ready")
  /\ UNCHANGED <<intents, held, pending, vouched, stored, minted, drawerFaults, pruned, overtaken, spoiled>>

IntentsAge ==
  /\ \E i \in Rows : intents[i].young
  /\ intents' = [i \in Rows |-> [intents[i] EXCEPT !.young = FALSE]]
  /\ UNCHANGED <<held, pending, vouched, stored, minted, tool, drawerFaults, pruned, overtaken, spoiled>>

CrashTool ==
  /\ ~Doing("down")
  /\ Faults(1)
  /\ tool' = Idle("down")
  /\ UNCHANGED <<intents, held, pending, vouched, stored, minted, pruned, overtaken, spoiled>>

-----------------------------------------------------------------------------
(* The replication worker and the remote.                                  *)

DueAnyOrder(i) == tool.pc \notin {"down", "starting"} /\ intents[i].state = "queued"

\* The head of its drawer's group; the worker starts when startup reconciliation is over.
Due(i) ==
  /\ tool.pc \notin {"down", "starting"}
  /\ intents[i].state = "queued"
  /\ \A j \in Rows : j < i /\ intents[j].drawer = intents[i].drawer
                       => intents[j].state \notin {"staged", "queued"}

\* An addition is refused (409) where the content is stored, a deletion (404) where the drawer is
\* not; an operation that took effect before is answered from its receipt.
Welcome(i) == IF intents[i].kind = "add" THEN stored = {} ELSE intents[i].drawer \in stored

Effect(i) ==
  IF intents[i].landed \/ ~Welcome(i) THEN stored
  ELSE IF intents[i].kind = "add" THEN stored \cup {intents[i].drawer}
  ELSE stored \ {intents[i].drawer}

DeliverIntent(i) ==
  /\ Due(i)
  /\ stored' = Effect(i)
  /\ SetState(i, IF intents[i].landed \/ Welcome(i) THEN "delivered" ELSE "failed")
  /\ UNCHANGED <<held, pending, vouched, minted, tool, drawerFaults, pruned, overtaken, spoiled>>

\* The answer is lost, or its acknowledgement is: the attempt is repeated.
LoseAnswer(i) ==
  /\ Due(i) /\ Welcome(i) /\ ~intents[i].landed
  /\ Faults(1)
  /\ stored' = Effect(i)
  /\ intents' = [intents EXCEPT ![i].landed = TRUE]
  /\ UNCHANGED <<held, pending, vouched, minted, tool, pruned, overtaken, spoiled>>

\* The remote turns the attempt down for another reason, perhaps after one that took effect (a missing
\* capability, a revoked token): anything but an unreachable remote or a transient status is final.
RejectIntent(i) ==
  /\ Due(i)
  /\ Faults(1)
  /\ SetState(i, "failed")
  /\ UNCHANGED <<held, pending, vouched, stored, minted, tool, pruned, overtaken, spoiled>>

DrawersNext ==
  \/ \E key \in AddKeys \cup {NewKey} : AddDuplicate(key) \/ AddDrawer(key)
  \/ \E key \in RemoveKeys \cup {NewKey} :
       RecoverDelete(key) \/ \E d \in 1..minted : DeleteDrawer(key, d) \/ ForwardDelete(key, d)
  \/ StoreDrawer \/ CommitDrawer \/ FailCommit \/ FailWrite \/ RemoveDrawer \/ ActivateIntent
  \/ \E late \in BOOLEAN : OpenPalace(late)
  \/ PollStaged \/ EndReconcile \/ IntentsAge \/ CrashTool
  \/ \E i \in Rows : SettleIntent(i) \/ DeliverIntent(i) \/ LoseAnswer(i) \/ RejectIntent(i)

DrawersSpec == DrawersInit /\ [][DrawersNext]_drawerVars

-----------------------------------------------------------------------------
(* Correctness.                                                            *)

\* No call is between its steps and every intent is settled.
AtRest ==
  /\ tool.pc \in {"down", "ready"}
  /\ \A i \in Rows : intents[i].state \notin {"staged", "queued"}

\* Drawers one of whose operations failed for good, which the outbox reports (docs/Federation.md,
\* item 7 of write:both: a terminal failure is recorded, not taken for convergence).
Refused == {intents[i].drawer : i \in {j \in Rows : intents[j].state = "failed"}}

AgreeOn(drawers) == \A d \in drawers : d \in held <=> d \in stored

\* Whenever every intent is settled the palace and the remote agree on each drawer none of whose
\* operations failed, under the same id, through crashes between the outbox, LanceDB and the ingest
\* run, repeated calls and lost answers.  Excepted are drawers whose ingest run did not commit (the
\* row can be pruned after the intent was delivered, or stay when it is cancelled) and drawers with
\* an intent that was taken up again in its old place.
DrawersConverge ==
  /\ DrawersTypeOK
  /\ AtRest => AgreeOn(1..minted \ (Refused \cup pruned \cup spoiled \cup overtaken))

\* The same without the last exception: a crash between the intent and the local commit leaves the
\* palace and the remote agreeing (docs/Federation.md, item 6 of write:both: "This closes the crash
\* window between intent persistence and local commit").
CrashWindowClosed ==
  AtRest => AgreeOn(1..minted \ (Refused \cup pruned \cup spoiled))
=============================================================================
