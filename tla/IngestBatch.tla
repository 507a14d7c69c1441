---------------------------- MODULE IngestBatch -----------------------------
(***************************************************************************)
(* The receiving side of a replicated mine: POST /v1/ingest/batch with a   *)
(* record id (route_ingest_batch, agentpalace-server/src/lib.rs) for the   *)
(* records of one source file, over the receipts and ingest runs in SQLite *)
(* and the drawers in LanceDB.  Every step is one call of one store; a     *)
(* request may be dropped and the server may stop between any two of them. *)
(*                                                                         *)
(* The client is the replication worker delivering one ordering group: one *)
(* record after the other, each sent again until an answer arrives, and    *)
(* copies may be late.  A record refused for good (the checkout moved) is  *)
(* abandoned and the next one is sent.                                     *)
(***************************************************************************)
EXTENDS Integers, FiniteSets

CONSTANTS
  Records,         \* the records are 1..Records, in delivery order
  ContentOf,       \* the content of each record's file
  Removed,         \* the content of a record that removes the source
  ChunkIds,        \* the drawer ids of each content; ids are stable across contents
  Servers,         \* server request slots
  Refusals,        \* records whose checkout validation may fail
  MaxIngFaults     \* bound on crashes, failures, dropped requests and lost answers

RecordNos == 1..Records
IngContents == {ContentOf[k] : k \in RecordNos} \cup {Removed}
IngIds(c) == IF c = Removed THEN {} ELSE ChunkIds[c]
AllIds == UNION {IngIds(c) : c \in IngContents}

\* Every attempt at a record begins at most one run.
IngRuns == 1..(Records + MaxIngFaults)

VARIABLES
  delivering,  \* the record the client delivers
  receiptOf,   \* mutation_receipts, with the previous ids in details
  chunkRows,   \* LanceDB rows: id and content
  manifest,    \* ingest_files: the content last committed, Removed without a row
  ingRun,      \* ingest_runs of the source
  batchEvents, \* number of mine_batch events of each record
  slot,        \* requests in the server
  sourceLock,  \* the slot that holds the source lock, or none
  abandoned,   \* history: records the client gave up
  ingFaults    \* faults so far

ingVars == <<delivering, receiptOf, chunkRows, manifest, ingRun, batchEvents, slot, sourceLock,
             abandoned, ingFaults>>

NoSlot   == "no slot"
NoRecord == 0

ASSUME IngAssumption ==
  /\ Records \in Nat /\ MaxIngFaults \in Nat
  /\ NoSlot \notin Servers

Slot ==
  [pc       : {"free", "waiting", "validating", "detailing", "creating", "clearing", "adding",
               "committing", "sweeping", "removing", "forgetting", "logging", "cleaning",
               "completing"},
   record   : RecordNos \cup {NoRecord},
   known    : BOOLEAN,           \* recovering_committed_ingest
   run      : IngRuns \cup {0},
   existing : SUBSET AllIds]

FreeSlot == [pc |-> "free", record |-> NoRecord, known |-> FALSE, run |-> 0, existing |-> {}]

Inside(s) == slot[s].pc \notin {"free", "waiting"}

IngTypeOK ==
  /\ delivering \in 1..(Records + 1)
  /\ receiptOf \in [RecordNos -> [status   : {"none", "pending", "completed", "rejected"},
                                  detailed : BOOLEAN,
                                  previous : SUBSET AllIds]]
  /\ chunkRows \subseteq AllIds \X (IngContents \ {Removed})
  /\ manifest \in IngContents
  /\ ingRun \in [IngRuns -> [status : {"none", "pending", "stale", "committed", "failed"},
                             ids    : SUBSET AllIds]]
  /\ batchEvents \in [RecordNos -> Nat]
  /\ slot \in [Servers -> Slot]
  /\ sourceLock \in Servers \cup {NoSlot}
  /\ abandoned \subseteq RecordNos /\ ingFaults \in 0..MaxIngFaults
  /\ \A s \in Servers : Inside(s) => sourceLock = s

IngInit ==
  /\ delivering = 1
  /\ receiptOf = [k \in RecordNos |-> [status |-> "none", detailed |-> FALSE, previous |-> {}]]
  /\ chunkRows = {} /\ manifest = Removed
  /\ ingRun = [r \in IngRuns |-> [status |-> "none", ids |-> {}]]
  /\ batchEvents = [k \in RecordNos |-> 0]
  /\ slot = [s \in Servers |-> FreeSlot]
  /\ sourceLock = NoSlot
  /\ abandoned = {} /\ ingFaults = 0

-----------------------------------------------------------------------------
(* Helpers.                                                                *)

InSlot(s, pc)  == slot[s].pc = pc
RecordIn(s)    == slot[s].record
Content(s)     == ContentOf[slot[s].record]
MoveSlot(s, pc) == slot' = [slot EXCEPT ![s].pc = pc]
WithoutIds(ids) == {d \in chunkRows : d[1] \notin ids}
FreeRuns       == {r \in IngRuns : \A q \in IngRuns : q >= r => ingRun[q].status = "none"}
CommittedRuns  == {r \in IngRuns : ingRun[r].status = "committed"}
LatestIds      == UNION {ingRun[r].ids : r \in {q \in CommittedRuns : \A x \in CommittedRuns : x <= q}}
EverIds        == UNION {ingRun[r].ids : r \in CommittedRuns}
IngFault       == ingFaults < MaxIngFaults /\ ingFaults' = ingFaults + 1

\* The request ends and lets go of the lock.
Finish(s) ==
  /\ slot' = [slot EXCEPT ![s] = FreeSlot]
  /\ sourceLock' = IF sourceLock = s THEN NoSlot ELSE sourceLock

\* A final answer reaches the client, which goes on to the next record, or is lost.
Answered(s) ==
  \/ /\ delivering' = IF RecordIn(s) = delivering THEN delivering + 1 ELSE delivering
     /\ UNCHANGED ingFaults
  \/ IngFault /\ UNCHANGED delivering

-----------------------------------------------------------------------------
(* The request.                                                            *)

\* The record being delivered, or a late copy of an earlier one.
Arrive(s) ==
  /\ InSlot(s, "free")
  /\ \E k \in RecordNos :
       /\ k <= delivering
       /\ k \notin abandoned
       /\ slot' = [slot EXCEPT ![s] = [FreeSlot EXCEPT !.pc = "waiting", !.record = k]]
  /\ UNCHANGED <<delivering, receiptOf, chunkRows, manifest, ingRun, batchEvents, sourceLock,
                 abandoned, ingFaults>>

\* A prior attempt reached application and its effect is the committed one.
RecoveringAny(k) == receiptOf[k].detailed /\ ContentOf[k] # Removed

Recovering(k) ==
  receiptOf[k].detailed /\ ContentOf[k] # Removed /\ manifest = ContentOf[k]

\* lock_ingest_source and begin_receipt, replayed when the receipt is complete.
AcquiresAtOnce(s) == TRUE

Acquires(s) == sourceLock = NoSlot

BeginRecord(s) ==
  /\ InSlot(s, "waiting") /\ Acquires(s)
  /\ IF receiptOf[RecordIn(s)].status \in {"completed", "rejected"}
       THEN Finish(s) /\ Answered(s) /\ UNCHANGED receiptOf
       ELSE /\ sourceLock' = s
            /\ receiptOf' = [receiptOf EXCEPT ![RecordIn(s)].status = "pending"]
            /\ slot' = [slot EXCEPT
                 ![s].known = Recovering(RecordIn(s)),
                 ![s].pc = IF Content(s) = Removed \/ Recovering(RecordIn(s)) THEN "detailing"
                                                                              ELSE "validating"]
            /\ UNCHANGED <<delivering, ingFaults>>
  /\ UNCHANGED <<chunkRows, manifest, ingRun, batchEvents, abandoned>>

\* validate_ingest_checkout.  A refusal leaves the receipt pending; the client gives the record up.
ValidateCheckout(s) ==
  /\ InSlot(s, "validating")
  /\ \/ MoveSlot(s, "detailing") /\ UNCHANGED <<delivering, sourceLock, abandoned>>
     \/ /\ RecordIn(s) \in Refusals /\ RecordIn(s) = delivering
        /\ Finish(s)
        /\ abandoned' = abandoned \cup {delivering}
        /\ delivering' = delivering + 1
  /\ UNCHANGED <<receiptOf, chunkRows, manifest, ingRun, batchEvents, ingFaults>>

\* set_receipt_details, once per record; then skip, remove, reject or store.
Detailed(k) == IF receiptOf[k].detailed THEN receiptOf[k]
               ELSE [receiptOf[k] EXCEPT !.detailed = TRUE, !.previous = LatestIds]

Details(s) ==
  /\ InSlot(s, "detailing")
  /\ receiptOf' = [receiptOf EXCEPT ![RecordIn(s)] = Detailed(RecordIn(s))]
  /\ MoveSlot(s, IF slot[s].known THEN "logging"
                 ELSE IF Content(s) = Removed THEN "removing"
                 ELSE IF manifest = Content(s) THEN "logging" ELSE "creating")
  /\ UNCHANGED <<delivering, chunkRows, manifest, ingRun, batchEvents, sourceLock, abandoned,
                 ingFaults>>

\* A file that fails its own validation is rejected for good; nothing is stored, no event tells.
Reject(s) ==
  /\ InSlot(s, "detailing") /\ Content(s) # Removed /\ ~slot[s].known
  /\ RecordIn(s) \in Refusals
  /\ receiptOf' = [receiptOf EXCEPT ![RecordIn(s)] = [Detailed(RecordIn(s)) EXCEPT
                                                       !.status = "rejected"]]
  /\ Finish(s) /\ Answered(s)
  /\ abandoned' = abandoned \cup {RecordIn(s)}
  /\ UNCHANGED <<chunkRows, manifest, ingRun, batchEvents>>

\* replace_source_drawers: the ids to replace, the pending run, put_drawers, the commit, the sweep.
BeginRun(s) ==
  /\ InSlot(s, "creating")
  /\ \E r \in FreeRuns :
       /\ \A x \in FreeRuns : r <= x
       /\ ingRun' = [ingRun EXCEPT ![r] = [status |-> "pending", ids |-> IngIds(Content(s))]]
       /\ slot' = [slot EXCEPT ![s].pc = "clearing", ![s].run = r, ![s].existing = LatestIds]
  /\ UNCHANGED <<delivering, receiptOf, chunkRows, manifest, batchEvents, sourceLock, abandoned,
                 ingFaults>>

ClearIds(s) ==
  /\ InSlot(s, "clearing")
  /\ chunkRows' = WithoutIds(IngIds(Content(s)))
  /\ MoveSlot(s, "adding")
  /\ UNCHANGED <<delivering, receiptOf, manifest, ingRun, batchEvents, sourceLock, abandoned,
                 ingFaults>>

AddChunks(s) ==
  /\ InSlot(s, "adding")
  /\ chunkRows' = chunkRows \cup {<<i, Content(s)>> : i \in IngIds(Content(s))}
  /\ MoveSlot(s, "committing")
  /\ UNCHANGED <<delivering, receiptOf, manifest, ingRun, batchEvents, sourceLock, abandoned,
                 ingFaults>>

CommitBatch(s) ==
  /\ InSlot(s, "committing")
  /\ ingRun' = [ingRun EXCEPT ![slot[s].run].status = "committed"]
  /\ manifest' = Content(s)
  /\ MoveSlot(s, "sweeping")
  /\ UNCHANGED <<delivering, receiptOf, chunkRows, batchEvents, sourceLock, abandoned, ingFaults>>

SweepOld(s) ==
  /\ InSlot(s, "sweeping")
  /\ chunkRows' = WithoutIds(slot[s].existing \ IngIds(Content(s)))
  /\ MoveSlot(s, "logging")
  /\ UNCHANGED <<delivering, receiptOf, manifest, ingRun, batchEvents, sourceLock, abandoned,
                 ingFaults>>

\* remove_source_key.
RemoveChunks(s) ==
  /\ InSlot(s, "removing")
  /\ chunkRows' = WithoutIds(LatestIds)
  /\ MoveSlot(s, "forgetting")
  /\ UNCHANGED <<delivering, receiptOf, manifest, ingRun, batchEvents, sourceLock, abandoned,
                 ingFaults>>

ForgetSource(s) ==
  /\ InSlot(s, "forgetting")
  /\ ingRun' = [r \in IngRuns |-> [status |-> "none", ids |-> {}]]
  /\ manifest' = Removed
  /\ MoveSlot(s, "logging")
  /\ UNCHANGED <<delivering, receiptOf, chunkRows, batchEvents, sourceLock, abandoned, ingFaults>>

\* append_event_if_absent_with_operation.
LoggedAgain(k) == batchEvents[k] + 1

Logged(k) == IF batchEvents[k] = 0 THEN 1 ELSE batchEvents[k]

LogBatch(s) ==
  /\ InSlot(s, "logging")
  /\ batchEvents' = [batchEvents EXCEPT ![RecordIn(s)] = Logged(RecordIn(s))]
  /\ MoveSlot(s, "cleaning")
  /\ UNCHANGED <<delivering, receiptOf, chunkRows, manifest, ingRun, sourceLock, abandoned,
                 ingFaults>>

\* The cleanup an interrupted attempt may have left.
Stale(k) == receiptOf[k].previous \ LatestIds

Clean(s) ==
  /\ InSlot(s, "cleaning")
  /\ chunkRows' = WithoutIds(Stale(RecordIn(s)))
  /\ MoveSlot(s, "completing")
  /\ UNCHANGED <<delivering, receiptOf, manifest, ingRun, batchEvents, sourceLock, abandoned,
                 ingFaults>>

CompleteRecord(s) ==
  /\ InSlot(s, "completing")
  /\ receiptOf' = [receiptOf EXCEPT ![RecordIn(s)].status = "completed"]
  /\ Finish(s) /\ Answered(s)
  /\ UNCHANGED <<chunkRows, manifest, ingRun, batchEvents, abandoned>>

-----------------------------------------------------------------------------
(* Faults.                                                                 *)

\* put_drawers fails, before or after it took effect: the run is marked failed, the answer is
\* "retryable" and the receipt stays pending.
FailPut(s) ==
  /\ slot[s].pc \in {"clearing", "adding"}
  /\ IngFault
  /\ chunkRows' \in {chunkRows,
                     IF InSlot(s, "adding")
                       THEN chunkRows \cup {<<i, Content(s)>> : i \in IngIds(Content(s))}
                       ELSE WithoutIds(IngIds(Content(s)))}
  /\ ingRun' = [ingRun EXCEPT ![slot[s].run].status = "failed"]
  /\ Finish(s)
  /\ UNCHANGED <<delivering, receiptOf, manifest, batchEvents, abandoned>>

\* Any other call fails, or the client hangs up and the server drops the request where it waits.
DropRequest(s) ==
  /\ ~InSlot(s, "free")
  /\ IngFault
  /\ Finish(s)
  /\ UNCHANGED <<delivering, receiptOf, chunkRows, manifest, ingRun, batchEvents, abandoned>>

\* The server stops.  Opening the storage again reconciles the pending runs that are older than
\* stale_after by then.
RestartServer ==
  /\ IngFault
  /\ slot' = [s \in Servers |-> FreeSlot] /\ sourceLock' = NoSlot
  /\ \E old \in SUBSET {r \in IngRuns : ingRun[r].status = "pending"} :
       /\ chunkRows' = WithoutIds((UNION {ingRun[r].ids : r \in old}) \ EverIds)
       /\ ingRun' = [r \in IngRuns |-> IF r \in old THEN [ingRun[r] EXCEPT !.status = "failed"]
                                                    ELSE ingRun[r]]
  /\ UNCHANGED <<delivering, receiptOf, manifest, batchEvents, abandoned>>

IngStore(s) ==
  \/ BeginRun(s) \/ ClearIds(s) \/ AddChunks(s) \/ CommitBatch(s) \/ SweepOld(s)
  \/ RemoveChunks(s) \/ ForgetSource(s) \/ FailPut(s)

IngRequest(s) ==
  \/ Arrive(s) \/ BeginRecord(s) \/ ValidateCheckout(s) \/ Details(s) \/ Reject(s)
  \/ LogBatch(s) \/ Clean(s) \/ CompleteRecord(s) \/ DropRequest(s)

IngNext == (\E s \in Servers : IngRequest(s) \/ IngStore(s)) \/ RestartServer

IngSpec == IngInit /\ [][IngNext]_ingVars

-----------------------------------------------------------------------------
(* Safety.                                                                 *)

Begun     == {k \in RecordNos : receiptOf[k].status # "none"}
LastBegun == CHOOSE k \in Begun : \A j \in Begun : j <= k

StoredIs(c) == chunkRows = {<<i, c>> : i \in IngIds(c)}

\* When the last record that reached the server is complete, the server stores exactly its file,
\* whatever attempts at it or at earlier ones were cut off and however late their copies arrive
\* (docs/Federation.md: "identical replay returns the saved response, even after newer updates";
\* "Pending receipts preserve old drawer IDs so interrupted cleanup also resumes").  Records refused
\* for good are left to a fresh mine.
RecordStored ==
  (abandoned = {} /\ Begun # {}) =>
    (receiptOf[LastBegun].status = "completed" => StoredIs(ContentOf[LastBegun]))

\* The change log tells every completed record exactly once, and no record twice.
ToldOnce ==
  \A k \in RecordNos :
    /\ batchEvents[k] <= 1
    /\ receiptOf[k].status = "completed" => batchEvents[k] = 1

\* Receipts and change log of the records agree, with the types.
BatchInv == IngTypeOK /\ ToldOnce
=============================================================================
