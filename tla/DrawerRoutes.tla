---------------------------- MODULE DrawerRoutes ----------------------------
(***************************************************************************)
(* The server routes that add and delete one drawer (POST /v1/drawers with *)
(* a caller's drawer_id, DELETE /v1/drawers/{id}, agentpalace-server/src/  *)
(* lib.rs) over three stores that share no transaction: the receipts and   *)
(* the ingest runs in SQLite and the drawer rows in LanceDB.  Every step   *)
(* of a request is one call of one store; it may fail, the server may stop *)
(* after it, and opening the storage again reconciles stale ingest runs.   *)
(*                                                                         *)
(* The client is the replication worker delivering one ordering group.  It *)
(* sends an operation again when no answer arrived, even while the server  *)
(* still works on an earlier copy if the operation is in DrawerOverlapping.*)
(* Another client adds and deletes the same drawer without operation ids;  *)
(* its requests are atomic.  All contents are the same, so a recovered add *)
(* never mismatches; wings and rooms are left out.                         *)
(***************************************************************************)
EXTENDS Integers, FiniteSets

CONSTANTS
  DrawerLast,         \* the keyed operations are 1..DrawerLast, in delivery order
  DrawerAdds,         \* those that add the drawer; the others delete it
  DrawerSlots,        \* server request slots
  DrawerOverlapping,  \* operations sent again while an earlier copy still runs
  MaxOthers,          \* bound on the requests of the other client
  MaxDrawerFaults     \* bound on crashes, failed calls and lost answers

DrawerOps == 1..DrawerLast

\* A run of commit_ingest numbers the row it stores: its filed_at tells the row from any other.
MaxRuns == 2 * DrawerLast + MaxDrawerFaults + MaxOthers

NoRun == 0

VARIABLES
  sent,        \* the operation the client is delivering
  acked,       \* the operations it received a success for
  outcome,     \* mutation_receipts: status, and the run of the incarnation in details
  rows,        \* LanceDB rows with the drawer's id, as the runs that stored them
  ingest,      \* ingest_runs of the drawer's id
  logged,      \* operations with an event in change_log
  request,     \* requests in the server
  up,          \* whether the server runs
  others,      \* requests of the other client so far
  drawerFaults,\* faults so far
  witnessed,   \* history: operations one of whose requests found or stored the drawer
  removed,     \* history: how often each operation removed the drawer
  overlapped   \* history: an operation was sent while an earlier copy still ran

drawerVars == <<sent, acked, outcome, rows, ingest, logged, request, up, others, drawerFaults,
                witnessed, removed, overlapped>>

Runs == 1..MaxRuns

ASSUME DrawerAssumption == DrawerLast \in Nat /\ MaxOthers \in Nat /\ MaxDrawerFaults \in Nat

DrawerRequest ==
  [pc    : {"idle", "beginning", "recovering", "checking", "creating", "existing", "adding",
            "committing", "looking", "rereading", "capturing", "deleting", "logging",
            "completing", "answering"},
   op    : DrawerOps \cup {0},
   known : Runs \cup {NoRun},   \* recovered_details: the incarnation an attempt captured
   found : Runs \cup {NoRun},   \* the row the lookup returned
   run   : Runs \cup {NoRun},   \* the run of this attempt
   ok    : BOOLEAN]

NoRequest == [pc |-> "idle", op |-> 0, known |-> NoRun, found |-> NoRun, run |-> NoRun,
              ok |-> FALSE]

DrawerTypeOK ==
  /\ sent \in 1..(DrawerLast + 1) /\ acked \subseteq DrawerOps
  /\ outcome \in [DrawerOps -> [status  : {"none", "pending", "completed"},
                                details : Runs \cup {NoRun}]]
  /\ rows \subseteq Runs
  /\ ingest \in [Runs -> {"none", "pending", "stale", "committed", "failed"}]
  /\ logged \subseteq DrawerOps
  /\ request \in [DrawerSlots -> DrawerRequest]
  /\ up \in BOOLEAN
  /\ others \in 0..MaxOthers /\ drawerFaults \in 0..MaxDrawerFaults
  /\ witnessed \subseteq DrawerOps /\ removed \in [DrawerOps -> Nat] /\ overlapped \in BOOLEAN
  /\ \A s \in DrawerSlots :
       request[s].pc \in {"existing", "adding", "committing"} => ingest[request[s].run] = "pending"

DrawerInit ==
  /\ sent = 1 /\ acked = {}
  /\ outcome = [o \in DrawerOps |-> [status |-> "none", details |-> NoRun]]
  /\ rows = {}
  /\ ingest = [r \in Runs |-> "none"]
  /\ logged = {}
  /\ request = [s \in DrawerSlots |-> NoRequest]
  /\ up = TRUE
  /\ others = 0 /\ drawerFaults = 0
  /\ witnessed = {} /\ removed = [o \in DrawerOps |-> 0] /\ overlapped = FALSE

-----------------------------------------------------------------------------
(* Helpers.                                                                *)

Is(s, pc)        == request[s].pc = pc
OpOf(s)          == request[s].op
GoTo(s, pc)      == request' = [request EXCEPT ![s].pc = pc]
Reply(s, ok)     == request' = [request EXCEPT ![s].pc = "answering", ![s].ok = ok]
InServer(o)      == \E s \in DrawerSlots : request[s].op = o
NewRuns          == {r \in Runs : /\ ingest[r] = "none"
                                 /\ \A q \in Runs : q < r => ingest[q] # "none"}

\* The receipt and run tables' share of a step that only moves its request.
OnlyRequests == UNCHANGED <<sent, acked, outcome, rows, ingest, logged, up, others, drawerFaults,
                            removed, overlapped>>

-----------------------------------------------------------------------------
(* The client.                                                             *)

DrawerSend(s) ==
  /\ up /\ Is(s, "idle")
  /\ sent \in DrawerOps
  /\ InServer(sent) => sent \in DrawerOverlapping
  /\ request' = [request EXCEPT ![s] = [NoRequest EXCEPT !.pc = "beginning", !.op = sent]]
  /\ overlapped' = (overlapped \/ InServer(sent))
  /\ UNCHANGED <<sent, acked, outcome, rows, ingest, logged, up, others, drawerFaults, witnessed,
                 removed>>

\* Success acknowledges the operation, a 404 or 409 fails it for good; then the next one is sent,
\* though not before the server is done with other copies.  Answers may get lost.
DrawerAnswer(s) ==
  /\ Is(s, "answering")
  /\ request' = [request EXCEPT ![s] = NoRequest]
  /\ \/ /\ OpOf(s) = sent
        /\ \A t \in DrawerSlots \ {s} : request[t].op # sent
        /\ sent' = sent + 1
        /\ acked' = IF request[s].ok THEN acked \cup {sent} ELSE acked
        /\ UNCHANGED drawerFaults
     \/ /\ drawerFaults < MaxDrawerFaults \/ \E t \in DrawerSlots \ {s} : request[t].op = sent
        /\ drawerFaults' = IF \E t \in DrawerSlots \ {s} : request[t].op = sent
                             THEN drawerFaults ELSE drawerFaults + 1
        /\ UNCHANGED <<sent, acked>>
  /\ UNCHANGED <<outcome, rows, ingest, logged, up, others, witnessed, removed, overlapped>>

-----------------------------------------------------------------------------
(* Both routes: receipts and events.                                       *)

\* begin_receipt.  Replay answers from the receipt; Recover takes what an earlier attempt left.
DrawerBegin(s) ==
  LET o == OpOf(s) IN
    /\ Is(s, "beginning")
    /\ IF outcome[o].status = "completed"
         THEN Reply(s, TRUE) /\ UNCHANGED outcome
         ELSE /\ request' = [request EXCEPT
                   ![s].pc = IF o \notin DrawerAdds THEN "looking"
                             ELSE IF outcome[o].status = "pending" THEN "recovering" ELSE "checking",
                   ![s].known = outcome[o].details]
              /\ outcome' = [outcome EXCEPT ![o].status = "pending"]
    /\ UNCHANGED <<sent, acked, rows, ingest, logged, up, others, drawerFaults, witnessed, removed,
                   overlapped>>

\* append_event_if_absent_with_operation; restore_added_event and restore_deleted_event are the same
\* call.
DrawerLog(s) ==
  /\ Is(s, "logging")
  /\ logged' = logged \cup {OpOf(s)}
  /\ GoTo(s, "completing")
  /\ UNCHANGED <<sent, acked, outcome, rows, ingest, up, others, drawerFaults, witnessed, removed,
                 overlapped>>

DrawerComplete(s) ==
  /\ Is(s, "completing")
  /\ outcome' = [outcome EXCEPT ![OpOf(s)].status = "completed"]
  /\ Reply(s, TRUE)
  /\ UNCHANGED <<sent, acked, rows, ingest, logged, up, others, drawerFaults, witnessed, removed,
                 overlapped>>

-----------------------------------------------------------------------------
(* route_drawers_add.                                                      *)

\* A recovered add finds its drawer stored and goes on to the event, or does it again.
RecoverAdd(s) ==
  /\ Is(s, "recovering")
  /\ GoTo(s, IF rows = {} THEN "checking" ELSE "logging")
  /\ witnessed' = IF rows = {} THEN witnessed ELSE witnessed \cup {OpOf(s)}
  /\ OnlyRequests

\* The duplicate check; a refusal leaves the receipt pending.
CheckDuplicate(s) ==
  /\ Is(s, "checking")
  /\ IF rows = {} THEN GoTo(s, "creating") ELSE Reply(s, FALSE)
  /\ UNCHANGED witnessed /\ OnlyRequests

CreateRun(s) ==
  /\ Is(s, "creating")
  /\ \E r \in NewRuns :
       /\ request' = [request EXCEPT ![s].pc = "existing", ![s].run = r]
       /\ ingest' = [ingest EXCEPT ![r] = "pending"]
  /\ UNCHANGED <<sent, acked, outcome, rows, logged, up, others, drawerFaults, witnessed, removed,
                 overlapped>>

\* put_drawers with DuplicateStrategy::Error refuses an id that is there, failing the run: the
\* request ends with an error the client retries.
CheckExisting(s) ==
  /\ Is(s, "existing")
  /\ IF rows = {}
       THEN GoTo(s, "adding") /\ UNCHANGED ingest
       ELSE /\ request' = [request EXCEPT ![s] = NoRequest]
            /\ ingest' = [ingest EXCEPT ![request[s].run] = "failed"]
  /\ UNCHANGED <<sent, acked, outcome, rows, logged, up, others, drawerFaults, witnessed, removed,
                 overlapped>>

AddRow(s) ==
  /\ Is(s, "adding")
  /\ rows' = rows \cup {request[s].run}
  /\ witnessed' = witnessed \cup {OpOf(s)}
  /\ GoTo(s, "committing")
  /\ UNCHANGED <<sent, acked, outcome, ingest, logged, up, others, drawerFaults, removed, overlapped>>

\* mark_run_committed; or ensure_indices failed after the add and the run is marked failed.
CommitRun(s) ==
  /\ Is(s, "committing")
  /\ \/ /\ ingest' = [ingest EXCEPT ![request[s].run] = "committed"]
        /\ GoTo(s, "logging")
        /\ UNCHANGED drawerFaults
     \/ /\ drawerFaults < MaxDrawerFaults
        /\ drawerFaults' = drawerFaults + 1
        /\ ingest' = [ingest EXCEPT ![request[s].run] = "failed"]
        /\ request' = [request EXCEPT ![s] = NoRequest]
  /\ UNCHANGED <<sent, acked, outcome, rows, logged, up, others, witnessed, removed, overlapped>>

-----------------------------------------------------------------------------
(* route_drawers_delete.                                                   *)

LookUpAnyRow(s) ==
  /\ Is(s, "looking")
  /\ \E r \in rows : request' = [request EXCEPT
                       ![s].found = r,
                       ![s].pc = IF request[s].known = NoRun THEN "capturing" ELSE "deleting"]
  /\ witnessed' = witnessed \cup {OpOf(s)}
  /\ OnlyRequests

\* get_drawer.  A row that is not the incarnation an earlier attempt captured is left alone.
LookUp(s) ==
  /\ Is(s, "looking")
  /\ IF rows = {}
       THEN /\ GoTo(s, IF request[s].known = NoRun THEN "rereading" ELSE "logging")
            /\ UNCHANGED witnessed
       ELSE \E r \in rows :
              /\ request' = [request EXCEPT
                   ![s].found = r,
                   ![s].pc = IF request[s].known = NoRun THEN "capturing"
                             ELSE IF request[s].known = r THEN "deleting" ELSE "logging"]
              /\ witnessed' = witnessed \cup {OpOf(s)}
  /\ OnlyRequests

RereadTrusting(s) ==
  /\ Is(s, "rereading")
  /\ GoTo(s, "logging")
  /\ UNCHANGED witnessed /\ OnlyRequests

\* Absent, and nothing recovered: another copy may have captured the row meanwhile.  Otherwise 404.
Reread(s) ==
  /\ Is(s, "rereading")
  /\ IF outcome[OpOf(s)].details # NoRun THEN GoTo(s, "logging") ELSE Reply(s, FALSE)
  /\ UNCHANGED witnessed /\ OnlyRequests

\* set_receipt_details: durable before the delete; an error once another copy completed.
Capture(s) ==
  LET o == OpOf(s) IN
    /\ Is(s, "capturing")
    /\ IF outcome[o].status = "pending"
         THEN /\ outcome' = [outcome EXCEPT ![o].details = request[s].found]
              /\ GoTo(s, "deleting")
         ELSE /\ request' = [request EXCEPT ![s] = NoRequest]
              /\ UNCHANGED outcome
    /\ UNCHANGED <<sent, acked, rows, ingest, logged, up, others, drawerFaults, witnessed, removed,
                   overlapped>>

\* delete_drawers removes every row with the id, whichever incarnation it is.
DeleteRow(s) ==
  /\ Is(s, "deleting")
  /\ rows' = {}
  /\ removed' = [removed EXCEPT ![OpOf(s)] = @ + (IF rows = {} THEN 0 ELSE 1)]
  /\ GoTo(s, "logging")
  /\ UNCHANGED <<sent, acked, outcome, ingest, logged, up, others, drawerFaults, witnessed,
                 overlapped>>

-----------------------------------------------------------------------------
(* The other client, faults and the clock.                                 *)

\* Requests without an operation id: an add that finds no duplicate, a delete.
OtherAdd ==
  /\ up /\ others < MaxOthers /\ rows = {}
  /\ others' = others + 1
  /\ \E r \in NewRuns : rows' = {r} /\ ingest' = [ingest EXCEPT ![r] = "committed"]
  /\ UNCHANGED <<sent, acked, outcome, logged, request, up, drawerFaults, witnessed, removed,
                 overlapped>>

OtherDelete ==
  /\ up /\ others < MaxOthers /\ rows # {}
  /\ others' = others + 1
  /\ rows' = {}
  /\ UNCHANGED <<sent, acked, outcome, ingest, logged, request, up, drawerFaults, witnessed,
                 removed, overlapped>>

\* A call of a store fails: the request ends with an error, and the client sends it again.
FailCall(s) ==
  /\ request[s].pc \notin {"idle", "answering", "committing"}
  /\ drawerFaults < MaxDrawerFaults
  /\ drawerFaults' = drawerFaults + 1
  /\ ingest' = IF request[s].pc \in {"existing", "adding"}
                 THEN [ingest EXCEPT ![request[s].run] = "failed"] ELSE ingest
  /\ request' = [request EXCEPT ![s] = NoRequest]
  /\ UNCHANGED <<sent, acked, outcome, rows, logged, up, others, witnessed, removed, overlapped>>

DrawerCrash ==
  /\ up /\ drawerFaults < MaxDrawerFaults
  /\ up' = FALSE
  /\ drawerFaults' = drawerFaults + 1
  /\ request' = [s \in DrawerSlots |-> NoRequest]
  /\ UNCHANGED <<sent, acked, outcome, rows, ingest, logged, others, witnessed, removed, overlapped>>

HourPassesAnyRun ==
  /\ \E r \in Runs : ingest[r] = "pending"
  /\ ingest' = [r \in Runs |-> IF ingest[r] = "pending" THEN "stale" ELSE ingest[r]]
  /\ UNCHANGED <<sent, acked, outcome, rows, logged, request, up, others, drawerFaults, witnessed,
                 removed, overlapped>>

\* A run no request works on any more gets older than stale_after, an hour.
HourPasses ==
  LET old == {r \in Runs : ingest[r] = "pending" /\ \A s \in DrawerSlots : request[s].run # r} IN
    /\ old # {}
    /\ ingest' = [r \in Runs |-> IF r \in old THEN "stale" ELSE ingest[r]]
    /\ UNCHANGED <<sent, acked, outcome, rows, logged, request, up, others, drawerFaults, witnessed,
                   removed, overlapped>>

\* StorageEngine::open reconciles: rows whose id is in a stale run's manifest and in no committed
\* one are deleted (prune_orphaned_rows), then the stale runs are marked failed.
OrphanedAnyRun == \E r \in Runs : ingest[r] = "stale"

Orphaned == (\E r \in Runs : ingest[r] = "stale") /\ \A r \in Runs : ingest[r] # "committed"

DrawerRestart ==
  /\ ~up
  /\ up' = TRUE
  /\ rows' = IF Orphaned THEN {} ELSE rows
  /\ ingest' = [r \in Runs |-> IF ingest[r] = "stale" THEN "failed" ELSE ingest[r]]
  /\ UNCHANGED <<sent, acked, outcome, logged, request, others, drawerFaults, witnessed, removed,
                 overlapped>>

AddRequest(s) ==
  RecoverAdd(s) \/ CheckDuplicate(s) \/ CreateRun(s) \/ CheckExisting(s) \/ AddRow(s) \/ CommitRun(s)

DeleteRequest(s) == LookUp(s) \/ Reread(s) \/ Capture(s) \/ DeleteRow(s)

DrawerNext ==
  \/ \E s \in DrawerSlots :
       \/ DrawerSend(s) \/ DrawerAnswer(s) \/ DrawerBegin(s) \/ DrawerLog(s) \/ DrawerComplete(s)
       \/ AddRequest(s) \/ DeleteRequest(s) \/ FailCall(s)
  \/ OtherAdd \/ OtherDelete \/ DrawerCrash \/ HourPasses \/ DrawerRestart

DrawerSpec == DrawerInit /\ [][DrawerNext]_drawerVars

-----------------------------------------------------------------------------
(* Safety.                                                                 *)

\* However often it fails, is repeated and recovered, and whatever is stored under the id in between,
\* a deletion removes the drawer once and spares a replacement (docs/Federation.md: "lands exactly
\* once and never double-applies"; route_drawers_delete: "restore the original event and leave the
\* replacement untouched").
DeletesOnce == \A o \in DrawerOps : removed[o] <= 1

\* That holds unless two copies of the deletion ran at the same time; and the id never gets two rows,
\* if neither copies of an addition nor the other client add it at the same time.
DrawerLandsOnce == (~overlapped => DeletesOnce) /\ (others = 0 => Cardinality(rows) <= 1)

\* A completed operation is in the change log, and neither a success nor an event is made up: some
\* request of that operation found or stored the drawer (route_drawers_delete: "a retry can never
\* fabricate the success response").
NothingFabricated ==
  \A o \in DrawerOps :
    /\ outcome[o].status = "completed" => o \in logged
    /\ o \in logged => o \in witnessed

\* Receipts, rows and change log together, with the types: nothing is done twice, nothing is made up.
DrawerInv == DrawerTypeOK /\ DrawerLandsOnce /\ NothingFabricated

\* Between deliveries, and left alone by the other client, the drawer is there exactly if the
\* operation acknowledged last was an add.
Settled == others = 0 /\ up /\ (\A s \in DrawerSlots : request[s] = NoRequest)
           /\ sent - 1 \in acked /\ (sent \in DrawerOps => outcome[sent].status = "none")

LastAnswerHolds == rows # {} <=> sent - 1 \in DrawerAdds

AckedAddStays == Settled => LastAnswerHolds

\* The same once a committed ingest run has the id in its manifest.
CommittedAddStays == Settled /\ (\E r \in Runs : ingest[r] = "committed") => LastAnswerHolds
=============================================================================
