--------------------------- MODULE Routes_proofs ----------------------------
(***************************************************************************)
(* Proofs about the server's routes: for replicated files (IngestBatch),  *)
(* for any number of records, whatever their contents share, of requests   *)
(* in the server, of crashes, failures, dropped requests and lost answers; *)
(* and for adding and deleting a drawer (DrawerRoutes), for any number of  *)
(* operations, copies and faults.                                          *)
(*                                                                         *)
(* Of files, BInv is about lock, receipts and change log, and FileInv      *)
(* relates three stores to the record that is delivered: Prior is what the *)
(* record before it left, Target its own file.  Of drawers, DInv says      *)
(* whose each ingest run is, which one a deletion captured, and what the   *)
(* rows are when something is about to be told.                            *)
(***************************************************************************)
EXTENDS IngestBatch, DrawerRoutes, FiniteSetTheorems, TLAPS

ReceiptRow ==
  [status : {"none", "pending", "completed", "rejected"}, detailed : BOOLEAN, previous : SUBSET AllIds]
RunRow == [status : {"none", "pending", "stale", "committed", "failed"}, ids : SUBSET AllIds]

BatchTypes ==
  /\ delivering \in 1..(Records + 1)
  /\ receiptOf \in [RecordNos -> ReceiptRow]
  /\ chunkRows \subseteq AllIds \X (IngContents \ {Removed})
  /\ manifest \in IngContents
  /\ ingRun \in [IngRuns -> RunRow]
  /\ batchEvents \in [RecordNos -> Nat]
  /\ slot \in [Servers -> Slot]
  /\ sourceLock \in Servers \cup {NoSlot}
  /\ abandoned \subseteq RecordNos /\ ingFaults \in 0..MaxIngFaults

\* A request under way is about a record, and one that works on it holds the source lock.
LockHeld ==
  \A s \in Servers :
    /\ slot[s].pc # "free" => slot[s].record \in RecordNos
    /\ Inside(s) => sourceLock = s

\* A request that is past the log has logged its record.
LoggedFirst ==
  \A s \in Servers : slot[s].pc \in {"cleaning", "completing"} => batchEvents[slot[s].record] = 1

BInv == BatchTypes /\ LockHeld /\ ToldOnce /\ LoggedFirst

-----------------------------------------------------------------------------
(* What the steps have in common.                                          *)

LEMMA ContentIds ==
  ASSUME NEW k \in RecordNos
  PROVE  /\ IngIds(ContentOf[k]) \subseteq AllIds
         /\ {<<i, ContentOf[k]>> : i \in IngIds(ContentOf[k])}
              \subseteq AllIds \X (IngContents \ {Removed})
         /\ ContentOf[k] \in IngContents
<1>1. ContentOf[k] \in IngContents
  BY DEF IngContents
<1>2. IngIds(ContentOf[k]) \subseteq AllIds
  BY <1>1 DEF AllIds
<1>3. ContentOf[k] = Removed => IngIds(ContentOf[k]) = {}
  BY DEF IngIds
<1>4. QED
  BY <1>1, <1>2, <1>3

LEMMA LatestTyped ==
  ASSUME BatchTypes
  PROVE  LatestIds \subseteq AllIds
<1>1. \A r \in IngRuns : ingRun[r].ids \subseteq AllIds
  BY DEF BatchTypes, RunRow
<1>2. QED
  BY <1>1 DEF LatestIds, CommittedRuns

\* What a step of one request leaves of the others.
LEMMA OthersKept ==
  ASSUME BatchTypes, LockHeld, LoggedFirst, NEW s \in Servers,
         slot' \in [Servers -> Slot], \A t \in Servers : t # s => slot'[t] = slot[t],
         \A k \in RecordNos : batchEvents[k] = 1 => batchEvents'[k] = 1,
         slot'[s].pc # "free" => slot'[s].record \in RecordNos,
         Inside(s)' => sourceLock' = s,
         sourceLock \in {s, NoSlot} \/ sourceLock' = sourceLock,
         slot'[s].pc \in {"cleaning", "completing"} => batchEvents'[slot'[s].record] = 1
  PROVE  LockHeld' /\ LoggedFirst'
<1>1. LockHeld'
  <2> SUFFICES ASSUME NEW t \in Servers
               PROVE  /\ slot'[t].pc # "free" => slot'[t].record \in RecordNos
                      /\ Inside(t)' => sourceLock' = t
    BY DEF LockHeld
  <2>1. CASE t = s
    BY <2>1
  <2>2. CASE t # s
    <3>1. slot'[t] = slot[t] /\ (slot[t].pc # "free" => slot[t].record \in RecordNos)
          /\ (Inside(t) => sourceLock = t)
      BY <2>2 DEF LockHeld
    <3>2. t # NoSlot
      BY IngAssumption
    <3>3. QED
      BY <2>2, <3>1, <3>2 DEF Inside
  <2>3. QED
    BY <2>1, <2>2
<1>2. LoggedFirst'
  <2> SUFFICES ASSUME NEW t \in Servers, slot'[t].pc \in {"cleaning", "completing"}
               PROVE  batchEvents'[slot'[t].record] = 1
    BY DEF LoggedFirst
  <2>1. CASE t = s
    BY <2>1
  <2>2. CASE t # s
    <3>1. slot'[t] = slot[t] /\ (slot[t].pc # "free" => slot[t].record \in RecordNos)
      BY <2>2 DEF LockHeld
    <3>2. batchEvents[slot[t].record] = 1
      BY <3>1 DEF LoggedFirst
    <3>3. QED
      BY <3>1, <3>2
  <2>3. QED
    BY <2>1, <2>2
<1>3. QED
  BY <1>1, <1>2

\* A request that works on its record goes on to another place.
LEMMA MovedOn ==
  ASSUME BInv, NEW s \in Servers, Inside(s), UNCHANGED <<sourceLock, batchEvents>>,
         NEW x \in {"detailing", "creating", "clearing", "adding", "committing", "sweeping",
                    "removing", "forgetting", "logging", "completing"},
         slot'[s].pc = x, slot'[s].record = slot[s].record, slot' \in [Servers -> Slot],
         \A t \in Servers : t # s => slot'[t] = slot[t],
         x = "completing" => InSlot(s, "cleaning")
  PROVE  LockHeld' /\ LoggedFirst'
<1>1. sourceLock = s /\ slot[s].record \in RecordNos
  BY DEF BInv, LockHeld, Inside
<1>2. slot'[s].pc \in {"cleaning", "completing"} => batchEvents[slot[s].record] = 1
  BY DEF BInv, LoggedFirst, InSlot
<1>3. QED
  BY <1>1, <1>2, OthersKept DEF BInv

LEMMA MoveFields ==
  ASSUME BatchTypes, NEW s \in Servers,
         NEW x \in {"free", "waiting", "validating", "detailing", "creating", "clearing", "adding",
                    "committing", "sweeping", "removing", "forgetting", "logging", "cleaning",
                    "completing"},
         MoveSlot(s, x)
  PROVE  /\ slot' \in [Servers -> Slot]
         /\ slot'[s].pc = x /\ slot'[s].record = slot[s].record /\ slot'[s].known = slot[s].known
         /\ slot'[s].run = slot[s].run /\ slot'[s].existing = slot[s].existing
         /\ \A t \in Servers : t # s => slot'[t] = slot[t]
<1>1. slot[s] \in Slot
  BY DEF BatchTypes
<1>2. [slot[s] EXCEPT !.pc = x] \in Slot
  BY <1>1 DEF Slot
<1>3. slot' = [slot EXCEPT ![s] = [slot[s] EXCEPT !.pc = x]]
  BY DEF MoveSlot
<1>4. slot' \in [Servers -> Slot] /\ slot'[s] = [slot[s] EXCEPT !.pc = x]
      /\ \A t \in Servers : t # s => slot'[t] = slot[t]
  BY <1>2, <1>3 DEF BatchTypes
<1>5. QED
  BY <1>1, <1>4 DEF Slot

LEMMA FinishFields ==
  ASSUME BInv, NEW s \in Servers, Finish(s)
  PROVE  /\ slot' \in [Servers -> Slot] /\ slot'[s] = FreeSlot
         /\ slot'[s].pc = "free" /\ ~Inside(s)'
         /\ \A t \in Servers : t # s => slot'[t] = slot[t]
         /\ sourceLock' \in Servers \cup {NoSlot}
         /\ sourceLock \in {s, NoSlot} \/ sourceLock' = sourceLock
<1>1. FreeSlot \in Slot /\ FreeSlot.pc = "free"
  BY DEF FreeSlot, Slot
<1>2. QED
  BY <1>1 DEF BInv, BatchTypes, Finish, Inside

LEMMA Finished ==
  ASSUME BInv, NEW s \in Servers, Finish(s), UNCHANGED batchEvents
  PROVE  LockHeld' /\ LoggedFirst'
BY FinishFields, OthersKept DEF BInv

LEMMA AnswerTyped ==
  ASSUME BInv, NEW s \in Servers, ~InSlot(s, "free"), Answered(s)
  PROVE  delivering' \in 1..(Records + 1) /\ ingFaults' \in 0..MaxIngFaults
<1>1. slot[s].record \in 1..Records /\ delivering \in 1..(Records + 1) /\ ingFaults \in 0..MaxIngFaults
  BY DEF BInv, BatchTypes, LockHeld, InSlot, RecordNos
<1>2. Records \in Nat /\ MaxIngFaults \in Nat
  BY IngAssumption
<1>3. QED
  BY <1>1, <1>2 DEF Answered, IngFault, RecordIn

\* Receipts and change log stay as they are told when neither of them changes.
LEMMA ToldKept ==
  ASSUME BInv, UNCHANGED batchEvents,
         \A k \in RecordNos : receiptOf'[k].status = "completed" =>
           receiptOf[k].status = "completed" \/ batchEvents[k] = 1
  PROVE  ToldOnce'
BY DEF BInv, ToldOnce

-----------------------------------------------------------------------------
(* BInv, action by action.                                                 *)

LEMMA ArriveStep ==
  ASSUME BInv, NEW s \in Servers, Arrive(s)
  PROVE  BInv'
<1>1. PICK k \in RecordNos :
        slot' = [slot EXCEPT ![s] = [FreeSlot EXCEPT !.pc = "waiting", !.record = k]]
  BY DEF Arrive
<1>2. [FreeSlot EXCEPT !.pc = "waiting", !.record = k] \in Slot
  BY DEF FreeSlot, Slot
<1>3. slot' \in [Servers -> Slot] /\ slot'[s] = [FreeSlot EXCEPT !.pc = "waiting", !.record = k]
      /\ \A t \in Servers : t # s => slot'[t] = slot[t]
  BY <1>1, <1>2 DEF BInv, BatchTypes
<1>4. slot'[s].pc = "waiting" /\ slot'[s].record = k
  BY <1>3 DEF FreeSlot
<1>5. ~Inside(s)'
  BY <1>4 DEF Inside
<1>6. LockHeld' /\ LoggedFirst'
  BY <1>3, <1>4, <1>5, OthersKept DEF BInv, Arrive
<1>7. BatchTypes'
  BY <1>3 DEF BInv, BatchTypes, Arrive
<1>8. QED
  BY <1>6, <1>7, ToldKept DEF BInv, Arrive

LEMMA BeginStep ==
  ASSUME BInv, NEW s \in Servers, BeginRecord(s)
  PROVE  BInv'
<1> DEFINE k == RecordIn(s)
<1>1. InSlot(s, "waiting") /\ slot[s].pc = "waiting" /\ slot[s].record = k /\ k \in RecordNos
      /\ sourceLock = NoSlot
  BY DEF BInv, LockHeld, BeginRecord, Acquires, InSlot, RecordIn
<1>2. CASE receiptOf[k].status \in {"completed", "rejected"}
  <2>1. Finish(s) /\ Answered(s) /\ UNCHANGED <<receiptOf, batchEvents>>
    BY <1>2 DEF BeginRecord
  <2>2. LockHeld' /\ LoggedFirst'
    BY <2>1, Finished
  <2>3. BatchTypes'
    BY <1>1, <2>1, FinishFields, AnswerTyped DEF BInv, BatchTypes, BeginRecord, InSlot
  <2>4. QED
    BY <2>1, <2>2, <2>3, ToldKept DEF BInv
<1>3. CASE receiptOf[k].status \notin {"completed", "rejected"}
  <2>1. PICK x \in {"detailing", "validating"}, b \in BOOLEAN :
          slot' = [slot EXCEPT ![s].known = b, ![s].pc = x]
    BY <1>3 DEF BeginRecord, Recovering, k
  <2>2. sourceLock' = s /\ receiptOf' = [receiptOf EXCEPT ![k].status = "pending"]
        /\ UNCHANGED <<delivering, ingFaults, batchEvents, chunkRows, manifest, ingRun, abandoned>>
    BY <1>3 DEF BeginRecord
  <2>3. slot' = [slot EXCEPT ![s] = [slot[s] EXCEPT !.known = b, !.pc = x]]
    BY <2>1 DEF BInv, BatchTypes
  <2>4. slot[s] \in Slot
    BY DEF BInv, BatchTypes
  <2>5. [slot[s] EXCEPT !.known = b, !.pc = x] \in Slot
    BY <2>4 DEF Slot
  <2>6. slot' \in [Servers -> Slot] /\ slot'[s] = [slot[s] EXCEPT !.known = b, !.pc = x]
        /\ \A t \in Servers : t # s => slot'[t] = slot[t]
    BY <2>3, <2>5 DEF BInv, BatchTypes
  <2>7. slot'[s].pc = x /\ slot'[s].record = k
    BY <1>1, <2>4, <2>6 DEF Slot
  <2>8. LockHeld' /\ LoggedFirst'
    BY <1>1, <2>2, <2>6, <2>7, OthersKept DEF BInv
  <2>9. receiptOf' \in [RecordNos -> ReceiptRow]
    BY <1>1, <2>2 DEF BInv, BatchTypes, ReceiptRow
  <2>10. BatchTypes'
    BY <2>2, <2>6, <2>9 DEF BInv, BatchTypes
  <2>11. \A j \in RecordNos : receiptOf'[j].status = "completed" => receiptOf[j].status = "completed"
    BY <1>1, <2>2 DEF BInv, BatchTypes, ReceiptRow
  <2>12. QED
    BY <2>2, <2>8, <2>10, <2>11, ToldKept DEF BInv
<1>4. QED
  BY <1>2, <1>3

LEMMA ValidateStep ==
  ASSUME BInv, NEW s \in Servers, ValidateCheckout(s)
  PROVE  BInv'
<1>1. slot[s].pc = "validating" /\ Inside(s) /\ UNCHANGED batchEvents /\ UNCHANGED receiptOf
  BY DEF ValidateCheckout, InSlot, Inside
<1>2. CASE MoveSlot(s, "detailing") /\ UNCHANGED <<delivering, sourceLock, abandoned>>
  <2>1. LockHeld' /\ LoggedFirst'
    BY <1>1, <1>2, MoveFields, MovedOn DEF BInv, InSlot
  <2>2. BatchTypes'
    BY <1>2, MoveFields DEF BInv, BatchTypes, ValidateCheckout
  <2>3. QED
    BY <1>1, <2>1, <2>2, ToldKept DEF BInv
<1>3. CASE /\ RecordIn(s) \in Refusals /\ RecordIn(s) = delivering
           /\ Finish(s)
           /\ abandoned' = abandoned \cup {delivering}
           /\ delivering' = delivering + 1
  <2>1. LockHeld' /\ LoggedFirst'
    BY <1>1, <1>3, Finished
  <2>2. delivering \in RecordNos
    BY <1>1, <1>3 DEF BInv, LockHeld, RecordIn
  <2>3. delivering' \in 1..(Records + 1) /\ abandoned' \subseteq RecordNos
    BY <1>3, <2>2, IngAssumption DEF RecordNos, BInv, BatchTypes
  <2>4. BatchTypes'
    BY <1>3, <2>3, FinishFields DEF BInv, BatchTypes, ValidateCheckout
  <2>5. QED
    BY <1>1, <2>1, <2>4, ToldKept DEF BInv
<1>4. QED
  BY <1>2, <1>3 DEF ValidateCheckout

LEMMA DetailedTyped ==
  ASSUME BInv, NEW k \in RecordNos
  PROVE  /\ Detailed(k) \in ReceiptRow /\ Detailed(k).detailed
         /\ Detailed(k).status = receiptOf[k].status
         /\ Detailed(k).previous = IF receiptOf[k].detailed THEN receiptOf[k].previous ELSE LatestIds
<1>1. receiptOf[k] \in ReceiptRow /\ LatestIds \subseteq AllIds
  BY LatestTyped DEF BInv, BatchTypes
<1>2. QED
  BY <1>1 DEF Detailed, ReceiptRow

LEMMA DetailsStep ==
  ASSUME BInv, NEW s \in Servers, Details(s)
  PROVE  BInv'
<1> DEFINE k == RecordIn(s)
<1>1. slot[s].pc = "detailing" /\ Inside(s) /\ k \in RecordNos
  BY DEF BInv, LockHeld, Details, InSlot, Inside, RecordIn
<1>2. PICK x \in {"logging", "removing", "creating"} : MoveSlot(s, x)
  BY DEF Details
<1>3. LockHeld' /\ LoggedFirst'
  BY <1>1, <1>2, MoveFields, MovedOn DEF BInv, Details
<1>4. receiptOf' \in [RecordNos -> ReceiptRow]
      /\ \A j \in RecordNos : receiptOf'[j].status = receiptOf[j].status
  BY <1>1, DetailedTyped DEF BInv, BatchTypes, Details
<1>5. BatchTypes'
  BY <1>2, <1>4, MoveFields DEF BInv, BatchTypes, Details
<1>6. QED
  BY <1>3, <1>4, <1>5, ToldKept DEF BInv, Details

LEMMA RejectStep ==
  ASSUME BInv, NEW s \in Servers, Reject(s)
  PROVE  BInv'
<1> DEFINE k == RecordIn(s)
<1>1. slot[s].pc = "detailing" /\ k \in RecordNos /\ ~InSlot(s, "free")
  BY DEF BInv, LockHeld, Reject, InSlot, RecordIn
<1>2. LockHeld' /\ LoggedFirst'
  BY Finished DEF Reject
<1>3. [Detailed(k) EXCEPT !.status = "rejected"] \in ReceiptRow
  BY <1>1, DetailedTyped DEF ReceiptRow
<1>4. receiptOf' \in [RecordNos -> ReceiptRow]
      /\ receiptOf'[k] = [Detailed(k) EXCEPT !.status = "rejected"]
      /\ \A j \in RecordNos : j # k => receiptOf'[j] = receiptOf[j]
  BY <1>1, <1>3 DEF BInv, BatchTypes, Reject
<1>5. receiptOf'[k].status = "rejected"
  BY <1>1, <1>4, DetailedTyped DEF ReceiptRow
<1>6. BatchTypes'
  BY <1>1, <1>4, FinishFields, AnswerTyped DEF BInv, BatchTypes, Reject
<1>7. QED
  BY <1>2, <1>4, <1>5, <1>6, ToldKept DEF BInv, Reject

LEMMA LogStep ==
  ASSUME BInv, NEW s \in Servers, LogBatch(s)
  PROVE  BInv'
<1> DEFINE k == RecordIn(s)
<1>1. slot[s].pc = "logging" /\ k = slot[s].record /\ k \in RecordNos /\ sourceLock = s
  BY DEF BInv, LockHeld, LogBatch, InSlot, Inside, RecordIn
<1>2. batchEvents[k] \in Nat /\ batchEvents[k] <= 1
  BY <1>1 DEF BInv, BatchTypes, ToldOnce
<1>3. Logged(k) = 1
  BY <1>2 DEF Logged
<1>4. batchEvents' \in [RecordNos -> Nat] /\ batchEvents'[k] = 1
      /\ \A j \in RecordNos : j # k => batchEvents'[j] = batchEvents[j]
  BY <1>1, <1>3 DEF BInv, BatchTypes, LogBatch
<1>5. MoveSlot(s, "cleaning") /\ UNCHANGED <<sourceLock, receiptOf>>
  BY DEF LogBatch
<1>6. slot' \in [Servers -> Slot] /\ slot'[s].pc = "cleaning" /\ slot'[s].record = k
      /\ \A t \in Servers : t # s => slot'[t] = slot[t]
  BY <1>1, <1>5, MoveFields DEF BInv
<1>7. LockHeld' /\ LoggedFirst'
  BY <1>1, <1>4, <1>5, <1>6, OthersKept DEF BInv
<1>8. ToldOnce'
  BY <1>4, <1>5 DEF BInv, ToldOnce
<1>9. BatchTypes'
  BY <1>4, <1>6 DEF BInv, BatchTypes, LogBatch
<1>10. QED
  BY <1>7, <1>8, <1>9 DEF BInv

LEMMA CleanStep ==
  ASSUME BInv, NEW s \in Servers, Clean(s)
  PROVE  BInv'
<1>1. InSlot(s, "cleaning") /\ Inside(s)
  BY DEF Clean, InSlot, Inside
<1>2. LockHeld' /\ LoggedFirst'
  BY <1>1, MoveFields, MovedOn DEF BInv, Clean
<1>3. BatchTypes'
  BY MoveFields DEF BInv, BatchTypes, Clean, WithoutIds
<1>4. QED
  BY <1>2, <1>3, ToldKept DEF BInv, Clean

LEMMA CompleteStep ==
  ASSUME BInv, NEW s \in Servers, CompleteRecord(s)
  PROVE  BInv'
<1> DEFINE k == RecordIn(s)
<1>1. slot[s].pc = "completing" /\ k \in RecordNos /\ ~InSlot(s, "free") /\ batchEvents[k] = 1
  BY DEF BInv, LockHeld, LoggedFirst, CompleteRecord, InSlot, RecordIn
<1>2. LockHeld' /\ LoggedFirst'
  BY Finished DEF CompleteRecord
<1>3. receiptOf' \in [RecordNos -> ReceiptRow]
      /\ \A j \in RecordNos : j # k => receiptOf'[j] = receiptOf[j]
  BY <1>1 DEF BInv, BatchTypes, CompleteRecord, ReceiptRow
<1>4. BatchTypes'
  BY <1>1, <1>3, FinishFields, AnswerTyped DEF BInv, BatchTypes, CompleteRecord
<1>5. QED
  BY <1>1, <1>2, <1>3, <1>4, ToldKept DEF BInv, CompleteRecord

LEMMA DropStep ==
  ASSUME BInv, NEW s \in Servers, DropRequest(s)
  PROVE  BInv'
<1>1. LockHeld' /\ LoggedFirst'
  BY Finished DEF DropRequest
<1>2. ingFaults' \in 0..MaxIngFaults
  BY IngAssumption DEF BInv, BatchTypes, DropRequest, IngFault
<1>3. BatchTypes'
  BY <1>2, FinishFields DEF BInv, BatchTypes, DropRequest
<1>4. QED
  BY <1>1, <1>3, ToldKept DEF BInv, DropRequest

\* A step of replace_source_drawers or remove_source_key: receipts and log are left alone.
StoreStep(s) == UNCHANGED <<delivering, receiptOf, batchEvents, sourceLock, abandoned, ingFaults>>

LEMMA StoreMoved ==
  ASSUME BInv, NEW s \in Servers, Inside(s), StoreStep(s),
         NEW x \in {"adding", "committing", "sweeping", "forgetting", "logging"}, MoveSlot(s, x),
         chunkRows' \subseteq AllIds \X (IngContents \ {Removed}), manifest' \in IngContents,
         ingRun' \in [IngRuns -> RunRow]
  PROVE  BInv'
<1>1. LockHeld' /\ LoggedFirst'
  BY MoveFields, MovedOn DEF BInv, StoreStep
<1>2. BatchTypes'
  BY MoveFields DEF BInv, BatchTypes, StoreStep
<1>3. QED
  BY <1>1, <1>2, ToldKept DEF BInv, StoreStep

LEMMA StoreStays ==
  ASSUME BInv, NEW s \in Servers, ClearIds(s) \/ AddChunks(s) \/ SweepOld(s) \/ RemoveChunks(s)
  PROVE  BInv'
<1>1. Inside(s) /\ slot[s].pc \in {"clearing", "adding", "sweeping", "removing"}
  BY DEF ClearIds, AddChunks, SweepOld, RemoveChunks, InSlot, Inside
<1>2. RecordIn(s) \in RecordNos
  BY <1>1 DEF BInv, LockHeld, RecordIn
<1>3. chunkRows' \subseteq AllIds \X (IngContents \ {Removed})
  BY <1>2, ContentIds
  DEF BInv, BatchTypes, ClearIds, AddChunks, SweepOld, RemoveChunks, WithoutIds, Content, RecordIn
<1>4. PICK x \in {"adding", "committing", "logging", "forgetting"} : MoveSlot(s, x)
  BY DEF ClearIds, AddChunks, SweepOld, RemoveChunks
<1>5. StoreStep(s) /\ UNCHANGED <<manifest, ingRun>>
  BY DEF ClearIds, AddChunks, SweepOld, RemoveChunks, StoreStep
<1>6. manifest' \in IngContents /\ ingRun' \in [IngRuns -> RunRow]
  BY <1>5 DEF BInv, BatchTypes
<1>7. QED
  BY <1>1, <1>3, <1>4, <1>5, <1>6, StoreMoved

LEMMA BeginRunStep ==
  ASSUME BInv, NEW s \in Servers, BeginRun(s)
  PROVE  BInv'
<1>1. PICK r \in FreeRuns :
        /\ ingRun' = [ingRun EXCEPT ![r] = [status |-> "pending", ids |-> IngIds(Content(s))]]
        /\ slot' = [slot EXCEPT ![s].pc = "clearing", ![s].run = r, ![s].existing = LatestIds]
  BY DEF BeginRun
<1>2. slot[s].pc = "creating" /\ Inside(s) /\ RecordIn(s) \in RecordNos /\ StoreStep(s)
  BY DEF BInv, LockHeld, BeginRun, InSlot, Inside, RecordIn, StoreStep
<1>3. r \in IngRuns /\ LatestIds \subseteq AllIds /\ IngIds(Content(s)) \subseteq AllIds
  BY <1>2, LatestTyped, ContentIds DEF BInv, FreeRuns, Content, RecordIn
<1>4. slot' = [slot EXCEPT ![s] =
        [slot[s] EXCEPT !.pc = "clearing", !.run = r, !.existing = LatestIds]]
  BY <1>1 DEF BInv, BatchTypes
<1>5. slot[s] \in Slot
  BY DEF BInv, BatchTypes
<1>6. [slot[s] EXCEPT !.pc = "clearing", !.run = r, !.existing = LatestIds] \in Slot
  BY <1>3, <1>5 DEF Slot
<1>7. slot' \in [Servers -> Slot]
      /\ slot'[s] = [slot[s] EXCEPT !.pc = "clearing", !.run = r, !.existing = LatestIds]
      /\ \A t \in Servers : t # s => slot'[t] = slot[t]
  BY <1>4, <1>6 DEF BInv, BatchTypes
<1>8. slot'[s].pc = "clearing" /\ slot'[s].record = slot[s].record
  BY <1>5, <1>7 DEF Slot
<1>9. LockHeld' /\ LoggedFirst'
  BY <1>2, <1>7, <1>8, MovedOn DEF StoreStep
<1>10. ingRun' \in [IngRuns -> RunRow]
  BY <1>1, <1>3 DEF BInv, BatchTypes, RunRow
<1>11. BatchTypes'
  BY <1>7, <1>10 DEF BInv, BatchTypes, BeginRun
<1>12. QED
  BY <1>2, <1>9, <1>11, ToldKept DEF BInv, StoreStep

LEMMA CommitStep ==
  ASSUME BInv, NEW s \in Servers, CommitBatch(s)
  PROVE  BInv'
<1>1. Inside(s) /\ RecordIn(s) \in RecordNos /\ StoreStep(s) /\ UNCHANGED chunkRows
      /\ MoveSlot(s, "sweeping")
  BY DEF BInv, LockHeld, CommitBatch, InSlot, Inside, RecordIn, StoreStep
<1>2. ingRun' \in [IngRuns -> RunRow]
  BY DEF BInv, BatchTypes, CommitBatch, RunRow
<1>3. manifest' \in IngContents
  BY <1>1, ContentIds DEF CommitBatch, Content, RecordIn
<1>4. chunkRows' \subseteq AllIds \X (IngContents \ {Removed})
  BY <1>1 DEF BInv, BatchTypes
<1>5. QED
  BY <1>1, <1>2, <1>3, <1>4, StoreMoved

LEMMA ForgetStep ==
  ASSUME BInv, NEW s \in Servers, ForgetSource(s)
  PROVE  BInv'
<1>1. Inside(s) /\ StoreStep(s) /\ UNCHANGED chunkRows /\ MoveSlot(s, "logging")
  BY DEF ForgetSource, InSlot, Inside, StoreStep
<1>2. ingRun' \in [IngRuns -> RunRow]
  BY DEF ForgetSource, RunRow
<1>3. manifest' \in IngContents
  BY DEF ForgetSource, IngContents
<1>4. chunkRows' \subseteq AllIds \X (IngContents \ {Removed})
  BY <1>1 DEF BInv, BatchTypes
<1>5. QED
  BY <1>1, <1>2, <1>3, <1>4, StoreMoved

LEMMA FailPutStep ==
  ASSUME BInv, NEW s \in Servers, FailPut(s)
  PROVE  BInv'
<1>1. RecordIn(s) \in RecordNos
  BY DEF BInv, LockHeld, FailPut, RecordIn
<1>2. chunkRows' \subseteq AllIds \X (IngContents \ {Removed})
  BY <1>1, ContentIds DEF BInv, BatchTypes, FailPut, WithoutIds, Content, RecordIn
<1>3. ingRun' \in [IngRuns -> RunRow]
  BY DEF BInv, BatchTypes, FailPut, RunRow
<1>4. ingFaults' \in 0..MaxIngFaults
  BY IngAssumption DEF BInv, BatchTypes, FailPut, IngFault
<1>5. LockHeld' /\ LoggedFirst'
  BY Finished DEF FailPut
<1>6. BatchTypes'
  BY <1>2, <1>3, <1>4, FinishFields DEF BInv, BatchTypes, FailPut
<1>7. QED
  BY <1>5, <1>6, ToldKept DEF BInv, FailPut

LEMMA RestartStep ==
  ASSUME BInv, RestartServer
  PROVE  BInv'
<1>1. FreeSlot \in Slot /\ FreeSlot.pc = "free"
  BY DEF FreeSlot, Slot
<1>2. slot' \in [Servers -> Slot] /\ \A s \in Servers : slot'[s].pc = "free"
  BY <1>1 DEF RestartServer
<1>3. ingFaults' \in 0..MaxIngFaults
  BY IngAssumption DEF BInv, BatchTypes, RestartServer, IngFault
<1>4. chunkRows' \subseteq AllIds \X (IngContents \ {Removed})
  BY DEF BInv, BatchTypes, RestartServer, WithoutIds
<1>5. ingRun' \in [IngRuns -> RunRow]
  BY DEF BInv, BatchTypes, RestartServer, RunRow
<1>6. BatchTypes'
  BY <1>2, <1>3, <1>4, <1>5 DEF BInv, BatchTypes, RestartServer
<1>7. LockHeld' /\ LoggedFirst'
  BY <1>2 DEF LockHeld, LoggedFirst, Inside
<1>8. QED
  BY <1>6, <1>7, ToldKept DEF BInv, RestartServer

-----------------------------------------------------------------------------

\* The initial state of an empty server satisfies BInv.
LEMMA BInvInit == IngInit => BInv
<1> SUFFICES ASSUME IngInit PROVE BInv
  OBVIOUS
<1>1. FreeSlot \in Slot /\ FreeSlot.pc = "free"
  BY DEF FreeSlot, Slot
<1>2. BatchTypes
  <2>1. delivering \in 1..(Records + 1) /\ ingFaults \in 0..MaxIngFaults
    BY IngAssumption DEF IngInit
  <2>2. receiptOf \in [RecordNos -> ReceiptRow] /\ ingRun \in [IngRuns -> RunRow]
    BY DEF IngInit, ReceiptRow, RunRow
  <2>3. manifest \in IngContents
    BY DEF IngInit, IngContents
  <2>4. QED
    BY <1>1, <2>1, <2>2, <2>3 DEF IngInit, BatchTypes
<1>3. QED
  BY <1>1, <1>2 DEF BInv, LockHeld, LoggedFirst, ToldOnce, IngInit, Inside

\* Every step of the server keeps BInv.
LEMMA BInvNext ==
  ASSUME BInv, [IngNext]_ingVars
  PROVE  BInv'
<1>1. CASE UNCHANGED ingVars
  BY <1>1 DEF ingVars, BInv, BatchTypes, LockHeld, LoggedFirst, ToldOnce, Inside
<1>2. ASSUME NEW s \in Servers, IngRequest(s)
      PROVE  BInv'
  BY <1>2, ArriveStep, BeginStep, ValidateStep, DetailsStep, RejectStep, LogStep, CleanStep,
     CompleteStep, DropStep DEF IngRequest
<1>3. ASSUME NEW s \in Servers, IngStore(s)
      PROVE  BInv'
  BY <1>3, StoreStays, BeginRunStep, CommitStep, ForgetStep, FailPutStep DEF IngStore
<1>4. QED
  BY <1>1, <1>2, <1>3, RestartStep DEF IngNext

\* The inductive invariant of receipts, lock and change log of the ingest route (lock_ingest_source,
\* begin_receipt, append_event_if_absent_with_operation).
THEOREM BInvHolds == IngSpec => []BInv
<1>1. BInv /\ [IngNext]_ingVars => BInv'
  BY BInvNext
<1>2. QED
  BY BInvInit, <1>1, PTL DEF IngSpec

\* Whatever is cut off, repeated or late, the change log tells a completed record exactly once and no
\* record twice, and only the holder of the source lock works on a record (route_ingest_batch).
THEOREM BatchIsToldOnce == IngSpec => []BatchInv
<1>1. BInv => BatchInv
  BY DEF BInv, BatchTypes, LockHeld, BatchInv, IngTypeOK, ReceiptRow, RunRow
<1>2. QED
  BY BInvHolds, <1>1, PTL
-----------------------------------------------------------------------------
(* The file of the record that is delivered.                               *)

Prior == IF delivering = 1 THEN Removed ELSE ContentOf[delivering - 1]
Target == ContentOf[delivering]
RowsOf(c) == {<<i, c>> : i \in IngIds(c)}

\* The rows of content c are stored, and no other rows under their ids.
Holds(c) ==
  /\ RowsOf(c) \subseteq chunkRows
  /\ \A row \in chunkRows : row \in RowsOf(c) \/ row[1] \notin IngIds(c)

\* Records are completed one after the other, and only the next one is worked on.
Delivery ==
  /\ \A k \in RecordNos :
       /\ receiptOf[k].status # "rejected"
       /\ k < delivering => receiptOf[k].status = "completed"
       /\ k > delivering => receiptOf[k].status = "none"
       /\ receiptOf[k].status = "none" => ~receiptOf[k].detailed
       /\ receiptOf[k].status = "completed" => receiptOf[k].detailed
  /\ \A s \in Servers :
       /\ slot[s].pc # "free" => slot[s].record <= delivering
       /\ Inside(s) => slot[s].record = delivering /\ receiptOf[delivering].status = "pending"

Attempted == delivering \in RecordNos /\ receiptOf[delivering].detailed

\* Until an attempt has its details the stores are as the record before left them.  From then on they
\* are somewhere between the two files, and the manifest says whether the new rows are all there.
Stores ==
  /\ LatestIds = IngIds(manifest)
  /\ ~Attempted => manifest = Prior /\ StoredIs(Prior)
  /\ Attempted =>
       /\ receiptOf[delivering].previous = IngIds(Prior)
       /\ manifest \in {Prior, Target}
       /\ chunkRows \subseteq RowsOf(Prior) \cup RowsOf(Target)
       /\ manifest = Target => Holds(Target) /\ (Target = Removed => chunkRows = {})
       /\ receiptOf[delivering].status = "completed" => manifest = Target /\ StoredIs(Target)

\* The run of an attempt is the newest, so it is the one whose ids count once it is committed.
NewestRun(r) ==
  /\ r \in IngRuns /\ ingRun[r].status = "pending" /\ ingRun[r].ids = IngIds(Target)
  /\ \A q \in IngRuns : q > r => ingRun[q].status = "none"

Progress(s) ==
  /\ slot[s].known => Target # Removed /\ manifest = Target /\ receiptOf[delivering].detailed
  /\ slot[s].pc \notin {"validating", "detailing"} => receiptOf[delivering].detailed
  /\ slot[s].pc \in {"creating", "clearing", "adding", "committing"} =>
       Target # Removed /\ manifest # Target
  /\ slot[s].pc \in {"clearing", "adding", "committing"} => NewestRun(slot[s].run)
  /\ slot[s].pc = "adding" => \A row \in chunkRows : row[1] \notin IngIds(Target)
  /\ slot[s].pc = "committing" => Holds(Target)
  /\ slot[s].pc \in {"clearing", "adding", "committing", "sweeping"} =>
       slot[s].existing = IngIds(Prior) /\ Target # Removed
  /\ slot[s].pc \in {"removing", "forgetting"} => Target = Removed
  /\ slot[s].pc = "forgetting" => chunkRows = {}
  /\ slot[s].pc \in {"sweeping", "logging", "cleaning", "completing"} => manifest = Target
  /\ slot[s].pc = "completing" => StoredIs(Target)

FileOk == Delivery /\ Stores /\ \A s \in Servers : Inside(s) => Progress(s)

FileInv == abandoned = {} => FileOk

-----------------------------------------------------------------------------
(* Rows, runs and the record that is worked on.                            *)

LEMMA RowFacts ==
  ASSUME NEW c
  PROVE  /\ StoredIs(c) <=> chunkRows = RowsOf(c)
         /\ \A row \in RowsOf(c) : row[1] \in IngIds(c)
         /\ c = Removed => IngIds(c) = {} /\ RowsOf(c) = {}
BY DEF StoredIs, RowsOf, IngIds

\* Only committed runs count.
LEMMA LatestKept ==
  ASSUME \A r \in IngRuns : ingRun'[r].status = "committed" <=> ingRun[r].status = "committed",
         \A r \in IngRuns : ingRun[r].status = "committed" => ingRun'[r].ids = ingRun[r].ids
  PROVE  LatestIds' = LatestIds
<1>1. CommittedRuns' = CommittedRuns
  BY DEF CommittedRuns
<1>2. \A r \in CommittedRuns : ingRun'[r].ids = ingRun[r].ids
  BY DEF CommittedRuns
<1>3. {ingRun'[r].ids : r \in {q \in CommittedRuns : \A x \in CommittedRuns : x <= q}}
      = {ingRun[r].ids : r \in {q \in CommittedRuns : \A x \in CommittedRuns : x <= q}}
  BY <1>2
<1>4. QED
  BY <1>1, <1>3 DEF LatestIds

LEMMA LatestIsCommitted == LatestIds \subseteq EverIds
BY DEF LatestIds, EverIds

\* The newest run counts once it is committed.
LEMMA LatestIsNewest ==
  ASSUME BatchTypes, NEW r \in IngRuns, NewestRun(r),
         ingRun' = [ingRun EXCEPT ![r].status = "committed"]
  PROVE  LatestIds' = IngIds(Target)
<1>1. ingRun'[r].status = "committed" /\ ingRun'[r].ids = IngIds(Target)
      /\ \A q \in IngRuns : q # r => ingRun'[q] = ingRun[q]
  BY DEF BatchTypes, NewestRun, RunRow
<1>2. r \in CommittedRuns'
  BY <1>1 DEF CommittedRuns
<1>3. \A q \in CommittedRuns' : q <= r
  <2> SUFFICES ASSUME NEW q \in IngRuns, ingRun'[q].status = "committed", ~(q <= r)
               PROVE  FALSE
    BY DEF CommittedRuns
  <2>1. q > r /\ q # r
    BY IngAssumption DEF IngRuns
  <2>2. ingRun[q].status = "none"
    BY <2>1 DEF NewestRun
  <2>3. QED
    BY <1>1, <2>1, <2>2
<1>4. {q \in CommittedRuns' : \A x \in CommittedRuns' : x <= q} = {r}
  <2>1. ASSUME NEW q \in CommittedRuns', \A x \in CommittedRuns' : x <= q
        PROVE  q = r
    <3>1. q \in IngRuns /\ q <= r /\ r <= q
      BY <1>2, <1>3, <2>1 DEF CommittedRuns
    <3>2. QED
      BY <3>1, IngAssumption DEF IngRuns
  <2>2. QED
    BY <1>2, <1>3, <2>1
<1>5. {ingRun'[q].ids : q \in {q \in CommittedRuns' : \A x \in CommittedRuns' : x <= q}}
      = {ingRun'[r].ids}
  BY <1>4
<1>6. QED
  BY <1>1, <1>5 DEF LatestIds

\* What is known of the record of the request that works.
LEMMA Works ==
  ASSUME BInv, FileOk, NEW s \in Servers, Inside(s)
  PROVE  /\ delivering \in RecordNos /\ slot[s].record = delivering /\ RecordIn(s) = delivering
         /\ Content(s) = Target /\ receiptOf[delivering].status = "pending" /\ slot[s] \in Slot
         /\ Progress(s) /\ Stores
<1>1. slot[s].pc # "free" /\ slot[s].record \in RecordNos
  BY DEF BInv, LockHeld, Inside
<1>2. QED
  BY <1>1 DEF BInv, BatchTypes, FileOk, Delivery, RecordIn, Content, Target

LEMMA FilesKept ==
  ASSUME UNCHANGED delivering
  PROVE  Prior' = Prior /\ Target' = Target
BY DEF Prior, Target

\* A step of the request that works: receipts keep their status, and only its own gets details.
LEMMA WorkerStep ==
  ASSUME BInv, FileOk, NEW s \in Servers, Inside(s),
         \A t \in Servers : t # s => slot'[t] = slot[t],
         slot'[s].pc = "free" \/ slot'[s].record = slot[s].record,
         UNCHANGED delivering,
         \A k \in RecordNos :
           /\ receiptOf'[k].status = receiptOf[k].status
           /\ k # delivering => receiptOf'[k].detailed = receiptOf[k].detailed,
         Stores', Inside(s)' => Progress(s)'
  PROVE  FileOk'
<1>1. delivering \in RecordNos /\ slot[s].record = delivering
      /\ receiptOf[delivering].status = "pending"
  BY Works
<1>2. \A t \in Servers : t # s => ~Inside(t)
  BY DEF BInv, LockHeld
<1>3. \A t \in Servers : Inside(t)' => t = s
  BY <1>2 DEF Inside
<1>4. \A k \in RecordNos :
        /\ receiptOf'[k].status # "rejected"
        /\ k < delivering' => receiptOf'[k].status = "completed"
        /\ k > delivering' => receiptOf'[k].status = "none"
        /\ receiptOf'[k].status = "none" => ~receiptOf'[k].detailed
        /\ receiptOf'[k].status = "completed" => receiptOf'[k].detailed
  BY <1>1 DEF FileOk, Delivery
<1>5. \A t \in Servers : slot'[t].pc # "free" => slot'[t].record <= delivering'
  <2>1. delivering <= delivering
    BY <1>1 DEF RecordNos
  <2>2. QED
    BY <1>1, <2>1 DEF FileOk, Delivery
<1>6. \A t \in Servers :
        Inside(t)' => slot'[t].record = delivering' /\ receiptOf'[delivering'].status = "pending"
  <2>1. Inside(s)' => slot'[s].pc # "free"
    BY DEF Inside
  <2>2. QED
    BY <1>1, <1>3, <2>1
<1>7. Delivery'
  BY <1>4, <1>5, <1>6 DEF Delivery
<1>8. QED
  BY <1>3, <1>7 DEF FileOk

\* A step that leaves the stores, the receipts and the request that works alone.
LEMMA IdleStep ==
  ASSUME FileOk, UNCHANGED <<delivering, receiptOf, chunkRows, manifest, ingRun>>,
         \A t \in Servers : Inside(t)' => slot'[t] = slot[t],
         \A t \in Servers : slot'[t].pc # "free" => slot'[t].record <= delivering
  PROVE  FileOk'
<1>1. \A t \in Servers : Inside(t)' => Inside(t)
  BY DEF Inside
<1>2. Delivery'
  BY <1>1 DEF FileOk, Delivery
<1>3. Prior' = Prior /\ Target' = Target /\ LatestIds' = LatestIds
  BY DEF Prior, Target, LatestIds, CommittedRuns
<1>4. Stores'
  BY <1>3 DEF FileOk, Stores, Attempted, StoredIs, Holds
<1>5. ASSUME NEW t \in Servers, Inside(t)'
      PROVE  Progress(t)'
  <2>1. Progress(t) /\ slot'[t] = slot[t]
    BY <1>1, <1>5 DEF FileOk
  <2>2. QED
    BY <1>3, <2>1 DEF Progress, NewestRun, StoredIs, Holds
<1>6. QED
  BY <1>2, <1>4, <1>5 DEF FileOk

\* The client goes on to the next record once the one it delivers is complete and its file is stored.
LEMMA NextRecord ==
  ASSUME BInv, FileOk, delivering \in RecordNos, delivering' = delivering + 1,
         UNCHANGED <<chunkRows, manifest, ingRun>>, manifest = Target, StoredIs(Target),
         receiptOf'[delivering].status = "completed", receiptOf'[delivering].detailed,
         \A k \in RecordNos : k # delivering => receiptOf'[k] = receiptOf[k],
         \A t \in Servers : ~Inside(t)',
         \A t \in Servers : slot'[t].pc # "free" => slot'[t] = slot[t]
  PROVE  FileOk'
<1>1. delivering \in Nat /\ \A k \in RecordNos : k \in Nat
  BY DEF RecordNos
<1>2. Prior' = Target
  BY <1>1 DEF Prior, Target, RecordNos
<1>3. ~Attempted'
  <2>1. ASSUME delivering' \in RecordNos
        PROVE  ~receiptOf'[delivering'].detailed
    <3>1. delivering' > delivering /\ delivering' # delivering
      BY <1>1
    <3>2. receiptOf[delivering'].status = "none" /\ ~receiptOf[delivering'].detailed
      BY <2>1, <3>1 DEF FileOk, Delivery
    <3>3. QED
      BY <2>1, <3>1, <3>2
  <2>2. QED
    BY <2>1 DEF Attempted
<1>4. LatestIds' = LatestIds
  BY DEF LatestIds, CommittedRuns
<1>5. Stores'
  BY <1>2, <1>3, <1>4 DEF FileOk, Stores, StoredIs
<1>6. \A t \in Servers : slot'[t].pc # "free" => slot'[t].record <= delivering'
  <2> SUFFICES ASSUME NEW t \in Servers, slot'[t].pc # "free"
               PROVE  slot'[t].record <= delivering'
    OBVIOUS
  <2>1. slot'[t].record \in RecordNos /\ slot'[t].record <= delivering
    BY DEF BInv, LockHeld, FileOk, Delivery
  <2>2. slot'[t].record \in Nat
    BY <1>1, <2>1
  <2>3. ASSUME NEW n \in Nat, n <= delivering
        PROVE  n <= delivering + 1
    BY <1>1, <2>3
  <2>4. QED
    BY <2>1, <2>2, <2>3
<1>7. ASSUME NEW k \in RecordNos
      PROVE  /\ receiptOf'[k].status # "rejected"
             /\ k < delivering' => receiptOf'[k].status = "completed"
             /\ k > delivering' => receiptOf'[k].status = "none"
             /\ receiptOf'[k].status = "none" => ~receiptOf'[k].detailed
             /\ receiptOf'[k].status = "completed" => receiptOf'[k].detailed
  <2>1. CASE k = delivering
    BY <1>1, <2>1
  <2>2. CASE k # delivering
    <3>1. receiptOf'[k] = receiptOf[k] /\ (k < delivering' => k < delivering)
          /\ (k > delivering' => k > delivering)
      BY <1>1, <2>2
    <3>2. QED
      BY <3>1 DEF FileOk, Delivery
  <2>3. QED
    BY <2>1, <2>2
<1>8. Delivery'
  BY <1>6, <1>7 DEF Delivery
<1>9. QED
  BY <1>5, <1>8 DEF FileOk

-----------------------------------------------------------------------------
(* FileOk, action by action, as long as no record is given up.             *)

LEMMA ArriveFile ==
  ASSUME BInv, FileOk, NEW s \in Servers, Arrive(s)
  PROVE  FileOk'
<1>1. PICK k \in RecordNos :
        /\ k <= delivering
        /\ slot' = [slot EXCEPT ![s] = [FreeSlot EXCEPT !.pc = "waiting", !.record = k]]
  BY DEF Arrive
<1>2. slot'[s].pc = "waiting" /\ slot'[s].record = k /\ \A t \in Servers : t # s => slot'[t] = slot[t]
  BY <1>1 DEF BInv, BatchTypes, FreeSlot
<1>3. ~Inside(s)'
  BY <1>2 DEF Inside
<1>4. \A t \in Servers : slot'[t].pc # "free" => slot'[t].record <= delivering
  BY <1>1, <1>2 DEF FileOk, Delivery
<1>5. QED
  BY <1>2, <1>3, <1>4, IdleStep DEF Arrive

\* A request that ends without an answer.
LEMMA EndedFile ==
  ASSUME BInv, FileOk, NEW s \in Servers, Finish(s),
         UNCHANGED <<delivering, receiptOf, chunkRows, manifest, ingRun>>
  PROVE  FileOk'
<1>1. slot'[s].pc = "free" /\ ~Inside(s)' /\ \A t \in Servers : t # s => slot'[t] = slot[t]
  BY FinishFields
<1>2. \A t \in Servers : slot'[t].pc # "free" => slot'[t].record <= delivering
  BY <1>1 DEF FileOk, Delivery
<1>3. QED
  BY <1>1, <1>2, IdleStep

LEMMA BeginFile ==
  ASSUME BInv, FileOk, NEW s \in Servers, BeginRecord(s)
  PROVE  FileOk'
<1> DEFINE k == RecordIn(s)
<1>1. slot[s].pc = "waiting" /\ slot[s].record = k /\ k \in RecordNos
      /\ UNCHANGED <<chunkRows, manifest, ingRun>>
  BY DEF BInv, LockHeld, BeginRecord, InSlot, RecordIn
<1>2. \A t \in Servers : ~Inside(t)
  BY IngAssumption DEF BInv, LockHeld, BeginRecord, Acquires
<1>3. k <= delivering
  BY <1>1 DEF FileOk, Delivery
<1>4. CASE receiptOf[k].status \in {"completed", "rejected"}
  <2>1. Finish(s) /\ Answered(s) /\ UNCHANGED receiptOf
    BY <1>4 DEF BeginRecord
  <2>2. CASE k = delivering /\ delivering' = delivering + 1
    <3>1. receiptOf[delivering].status = "completed" /\ receiptOf[delivering].detailed
      BY <1>1, <1>4, <2>2 DEF FileOk, Delivery
    <3>2. manifest = Target /\ StoredIs(Target)
      BY <1>1, <2>2, <3>1 DEF FileOk, Stores, Attempted
    <3>3. \A t \in Servers : slot'[t].pc # "free" => slot'[t] = slot[t]
      BY <2>1, FinishFields
    <3>4. \A t \in Servers : ~Inside(t)'
      BY <1>2, <2>1, FinishFields DEF Inside
    <3>5. QED
      BY <1>1, <2>1, <2>2, <3>1, <3>2, <3>3, <3>4, NextRecord
  <2>3. CASE delivering' = delivering
    BY <1>1, <2>1, <2>3, EndedFile
  <2>4. QED
    BY <2>1, <2>2, <2>3 DEF Answered, k
<1>5. CASE receiptOf[k].status \notin {"completed", "rejected"}
  <2>1. k = delivering
    <3>1. k \in Nat /\ delivering \in Nat
      BY <1>1, IngAssumption DEF RecordNos, BInv, BatchTypes
    <3>2. ~(k < delivering)
      BY <1>1, <1>5 DEF FileOk, Delivery
    <3>3. QED
      BY <1>3, <3>1, <3>2
  <2>2. PICK x \in {"detailing", "validating"} :
          slot' = [slot EXCEPT ![s].known = Recovering(k), ![s].pc = x]
    BY <1>5 DEF BeginRecord, k
  <2>3. receiptOf' = [receiptOf EXCEPT ![k].status = "pending"] /\ UNCHANGED delivering
    BY <1>5 DEF BeginRecord
  <2>4. slot' = [slot EXCEPT ![s] = [slot[s] EXCEPT !.known = Recovering(k), !.pc = x]]
    BY <2>2 DEF BInv, BatchTypes
  <2>5. slot'[s] = [slot[s] EXCEPT !.known = Recovering(k), !.pc = x]
        /\ \A t \in Servers : t # s => slot'[t] = slot[t]
    BY <2>4 DEF BInv, BatchTypes
  <2>6. slot[s] \in Slot
    BY DEF BInv, BatchTypes
  <2>7. slot'[s].pc = x /\ slot'[s].record = k /\ slot'[s].known = Recovering(k)
    BY <1>1, <2>5, <2>6 DEF Slot
  <2>8. \A t \in Servers : Inside(t)' => t = s
    BY <1>2, <2>5 DEF Inside
  <2>9. receiptOf'[k].status = "pending" /\ receiptOf'[k].detailed = receiptOf[k].detailed
        /\ receiptOf'[k].previous = receiptOf[k].previous
        /\ \A j \in RecordNos : j # k => receiptOf'[j] = receiptOf[j]
    BY <1>1, <2>3 DEF BInv, BatchTypes, ReceiptRow
  <2>10. \A t \in Servers : slot'[t].pc # "free" => slot'[t].record <= delivering
    BY <1>3, <2>5, <2>7 DEF FileOk, Delivery
  <2>11. Delivery'
    <3>1. ASSUME NEW j \in RecordNos
          PROVE  /\ receiptOf'[j].status # "rejected"
                 /\ j < delivering => receiptOf'[j].status = "completed"
                 /\ j > delivering => receiptOf'[j].status = "none"
                 /\ receiptOf'[j].status = "none" => ~receiptOf'[j].detailed
                 /\ receiptOf'[j].status = "completed" => receiptOf'[j].detailed
      <4>1. j = k => ~(j < delivering) /\ ~(j > delivering)
        BY <2>1 DEF RecordNos
      <4>2. QED
        BY <2>9, <4>1 DEF FileOk, Delivery
    <3>2. QED
      BY <2>1, <2>3, <2>7, <2>8, <2>9, <2>10, <3>1 DEF Delivery
  <2>12. Prior' = Prior /\ Target' = Target /\ LatestIds' = LatestIds
    BY <1>1, <2>3, FilesKept DEF LatestIds, CommittedRuns
  <2>13. Attempted' = Attempted
    BY <2>1, <2>3, <2>9 DEF Attempted
  <2>14. Stores'
    BY <1>1, <2>1, <2>3, <2>9, <2>12, <2>13 DEF FileOk, Stores, StoredIs, Holds
  <2>15. Progress(s)'
    <3>1. Recovering(k) => Target # Removed /\ manifest = Target /\ receiptOf[delivering].detailed
      BY <2>1 DEF Recovering, Target
    <3>2. QED
      BY <1>1, <2>1, <2>3, <2>7, <2>9, <2>12, <3>1 DEF Progress
  <2>16. QED
    BY <2>8, <2>11, <2>14, <2>15 DEF FileOk
<1>6. QED
  BY <1>4, <1>5

LEMMA ValidateFile ==
  ASSUME BInv, FileOk, NEW s \in Servers, ValidateCheckout(s), abandoned' = {}
  PROVE  FileOk'
<1>1. MoveSlot(s, "detailing")
  BY DEF ValidateCheckout
<1>2. slot[s].pc = "validating" /\ Inside(s)
      /\ UNCHANGED <<delivering, receiptOf, chunkRows, manifest, ingRun>>
  BY <1>1 DEF ValidateCheckout, InSlot, Inside
<1>3. slot'[s].pc = "detailing" /\ slot'[s].record = slot[s].record /\ slot'[s].known = slot[s].known
      /\ \A t \in Servers : t # s => slot'[t] = slot[t]
  BY <1>1, MoveFields DEF BInv
<1>4. Prior' = Prior /\ Target' = Target /\ LatestIds' = LatestIds
  BY <1>2, FilesKept DEF LatestIds, CommittedRuns
<1>5. Stores'
  BY <1>2, <1>4 DEF FileOk, Stores, Attempted, StoredIs, Holds
<1>6. Progress(s)'
  BY <1>2, <1>3, <1>4 DEF FileOk, Progress
<1>7. QED
  BY <1>2, <1>3, <1>5, <1>6, WorkerStep

LEMMA DetailsFile ==
  ASSUME BInv, FileOk, NEW s \in Servers, Details(s)
  PROVE  FileOk'
<1> DEFINE k == RecordIn(s)
<1>1. slot[s].pc = "detailing" /\ Inside(s) /\ UNCHANGED <<delivering, chunkRows, manifest, ingRun>>
  BY DEF Details, InSlot, Inside
<1>2. k \in RecordNos /\ delivering = k /\ Content(s) = Target /\ receiptOf[k].status = "pending"
      /\ slot[s].record = k /\ Progress(s) /\ Stores
  BY <1>1, Works
<1>3. receiptOf'[k] = Detailed(k) /\ \A j \in RecordNos : j # k => receiptOf'[j] = receiptOf[j]
  BY <1>2 DEF Details, BInv, BatchTypes
<1>4. receiptOf'[k].detailed /\ receiptOf'[k].status = "pending"
      /\ receiptOf'[k].previous = IF receiptOf[k].detailed THEN receiptOf[k].previous ELSE LatestIds
  BY <1>2, <1>3, DetailedTyped
<1>5. Prior' = Prior /\ Target' = Target /\ LatestIds' = LatestIds
  BY <1>1, FilesKept DEF LatestIds, CommittedRuns
<1>6. receiptOf'[k].previous = IngIds(Prior)
  BY <1>2, <1>4 DEF Stores, Attempted
<1>7. /\ manifest \in {Prior, Target}
      /\ chunkRows \subseteq RowsOf(Prior) \cup RowsOf(Target)
      /\ manifest = Target => Holds(Target) /\ (Target = Removed => chunkRows = {})
  <2>1. CASE Attempted
    BY <1>2, <2>1 DEF Stores
  <2>2. CASE ~Attempted
    <3>1. manifest = Prior /\ chunkRows = RowsOf(Prior)
      BY <1>2, <2>2, RowFacts DEF Stores
    <3>2. QED
      BY <3>1, RowFacts DEF Holds
  <2>3. QED
    BY <2>1, <2>2
<1>8. Attempted'
  BY <1>1, <1>2, <1>4 DEF Attempted
<1>9. Stores'
  BY <1>1, <1>2, <1>4, <1>5, <1>6, <1>7, <1>8 DEF Stores, Holds
<1>10. PICK x \in {"logging", "removing", "creating"} :
         /\ MoveSlot(s, x)
         /\ x = "logging" => manifest = Target
         /\ x = "removing" => Target = Removed
         /\ x = "creating" => Target # Removed /\ manifest # Target
  <2>1. slot[s].known => manifest = Target
    BY <1>2 DEF Progress
  <2>2. QED
    BY <1>2, <2>1 DEF Details
<1>11. slot'[s].pc = x /\ slot'[s].record = k /\ slot'[s].known = slot[s].known
       /\ \A t \in Servers : t # s => slot'[t] = slot[t]
  BY <1>2, <1>10, MoveFields DEF BInv
<1>12. Progress(s)'
  BY <1>1, <1>2, <1>4, <1>5, <1>10, <1>11 DEF Progress
<1>13. QED
  BY <1>1, <1>2, <1>3, <1>4, <1>9, <1>11, <1>12, WorkerStep

LEMMA LogFile ==
  ASSUME BInv, FileOk, NEW s \in Servers, LogBatch(s)
  PROVE  FileOk'
<1>1. slot[s].pc = "logging" /\ Inside(s)
      /\ UNCHANGED <<delivering, receiptOf, chunkRows, manifest, ingRun>>
  BY DEF LogBatch, InSlot, Inside
<1>2. slot'[s].pc = "cleaning" /\ slot'[s].record = slot[s].record /\ slot'[s].known = slot[s].known
      /\ \A t \in Servers : t # s => slot'[t] = slot[t]
  BY MoveFields DEF BInv, LogBatch
<1>3. Prior' = Prior /\ Target' = Target /\ LatestIds' = LatestIds
  BY <1>1, FilesKept DEF LatestIds, CommittedRuns
<1>4. Stores'
  BY <1>1, <1>3 DEF FileOk, Stores, Attempted, StoredIs, Holds
<1>5. Progress(s)'
  BY <1>1, <1>2, <1>3 DEF FileOk, Progress
<1>6. QED
  BY <1>1, <1>2, <1>4, <1>5, WorkerStep

\* What the cleanup leaves is the file of the record: the rows of the file before are gone.
LEMMA CleanFile ==
  ASSUME BInv, FileOk, NEW s \in Servers, Clean(s)
  PROVE  FileOk'
<1> DEFINE k == RecordIn(s)
<1>1. slot[s].pc = "cleaning" /\ Inside(s) /\ UNCHANGED <<delivering, receiptOf, manifest, ingRun>>
  BY DEF Clean, InSlot, Inside
<1>2. k \in RecordNos /\ delivering = k /\ receiptOf[k].status = "pending"
      /\ slot[s].record = k /\ Progress(s) /\ Stores
  BY <1>1, Works
<1>3. manifest = Target /\ receiptOf[k].detailed
  BY <1>1, <1>2 DEF Progress
<1>4. /\ receiptOf[k].previous = IngIds(Prior) /\ LatestIds = IngIds(Target)
      /\ chunkRows \subseteq RowsOf(Prior) \cup RowsOf(Target) /\ Holds(Target)
  BY <1>2, <1>3 DEF Stores, Attempted
<1>5. chunkRows' = {d \in chunkRows : d[1] \notin IngIds(Prior) \ IngIds(Target)}
  BY <1>4 DEF Clean, WithoutIds, Stale, k
<1>6. chunkRows' = RowsOf(Target)
  <2>1. ASSUME NEW d \in chunkRows'
        PROVE  d \in RowsOf(Target)
    BY <1>4, <1>5, <2>1, RowFacts DEF Holds
  <2>2. ASSUME NEW d \in RowsOf(Target)
        PROVE  d \in chunkRows'
    BY <1>4, <1>5, <2>2, RowFacts DEF Holds
  <2>3. QED
    BY <2>1, <2>2
<1>7. Prior' = Prior /\ Target' = Target /\ LatestIds' = LatestIds /\ Attempted' = Attempted
  BY <1>1, FilesKept DEF LatestIds, CommittedRuns, Attempted
<1>8. StoredIs(Target)'
  BY <1>6, <1>7 DEF StoredIs, RowsOf
<1>9. Holds(Target)'
  BY <1>6, <1>7 DEF Holds
<1>10. Stores'
  BY <1>1, <1>2, <1>3, <1>4, <1>6, <1>7, <1>8, <1>9, RowFacts DEF Stores, Attempted
<1>11. slot'[s].pc = "completing" /\ slot'[s].record = k /\ slot'[s].known = slot[s].known
       /\ \A t \in Servers : t # s => slot'[t] = slot[t]
  BY <1>2, MoveFields DEF BInv, Clean
<1>12. Progress(s)'
  BY <1>1, <1>2, <1>3, <1>7, <1>8, <1>11 DEF Progress
<1>13. QED
  BY <1>1, <1>2, <1>10, <1>11, <1>12, WorkerStep

LEMMA CompleteFile ==
  ASSUME BInv, FileOk, NEW s \in Servers, CompleteRecord(s)
  PROVE  FileOk'
<1> DEFINE k == RecordIn(s)
<1>1. slot[s].pc = "completing" /\ Inside(s) /\ UNCHANGED <<chunkRows, manifest, ingRun>>
      /\ Finish(s) /\ Answered(s)
  BY DEF CompleteRecord, InSlot, Inside
<1>2. k \in RecordNos /\ delivering = k /\ receiptOf[k].status = "pending"
      /\ slot[s].record = k /\ Progress(s) /\ Stores
  BY <1>1, Works
<1>3. manifest = Target /\ receiptOf[k].detailed /\ StoredIs(Target)
  BY <1>1, <1>2 DEF Progress
<1>4. receiptOf'[k].status = "completed" /\ receiptOf'[k].detailed
      /\ receiptOf'[k].previous = receiptOf[k].previous
      /\ \A j \in RecordNos : j # k => receiptOf'[j] = receiptOf[j]
  BY <1>2, <1>3 DEF CompleteRecord, BInv, BatchTypes, ReceiptRow
<1>5. \A t \in Servers : ~Inside(t)'
  BY <1>1, FinishFields DEF BInv, LockHeld, Inside
<1>6. \A t \in Servers : slot'[t].pc # "free" => slot'[t] = slot[t]
  BY <1>1, FinishFields
<1>7. CASE delivering' = delivering + 1
  BY <1>1, <1>2, <1>3, <1>4, <1>5, <1>6, <1>7, NextRecord
<1>8. CASE delivering' = delivering
  <2>1. Prior' = Prior /\ Target' = Target /\ LatestIds' = LatestIds /\ Attempted' = Attempted
    BY <1>1, <1>2, <1>3, <1>4, <1>8, FilesKept DEF LatestIds, CommittedRuns, Attempted
  <2>2. Stores'
    BY <1>1, <1>2, <1>3, <1>4, <1>8, <2>1 DEF Stores, StoredIs, Holds, Attempted
  <2>3. \A t \in Servers : slot'[t].pc # "free" => slot'[t].record <= delivering'
    BY <1>6, <1>8 DEF FileOk, Delivery
  <2>4. ASSUME NEW j \in RecordNos
        PROVE  /\ receiptOf'[j].status # "rejected"
               /\ j < delivering' => receiptOf'[j].status = "completed"
               /\ j > delivering' => receiptOf'[j].status = "none"
               /\ receiptOf'[j].status = "none" => ~receiptOf'[j].detailed
               /\ receiptOf'[j].status = "completed" => receiptOf'[j].detailed
    <3>1. j = k => ~(j > delivering)
      BY <1>2 DEF RecordNos
    <3>2. QED
      BY <1>4, <1>8, <3>1 DEF FileOk, Delivery
  <2>5. Delivery'
    BY <1>5, <2>3, <2>4 DEF Delivery
  <2>6. QED
    BY <1>5, <2>2, <2>5 DEF FileOk
<1>9. QED
  BY <1>1, <1>2, <1>7, <1>8 DEF Answered

\* A step of an attempt that writes rows or runs and leaves the manifest.
LEMMA RowsChange ==
  ASSUME Stores, Attempted, receiptOf[delivering].status = "pending",
         UNCHANGED <<delivering, receiptOf, manifest>>, LatestIds' = LatestIds,
         chunkRows' \subseteq RowsOf(Prior) \cup RowsOf(Target),
         manifest = Target => Holds(Target)' /\ (Target = Removed => chunkRows' = {})
  PROVE  Stores' /\ Prior' = Prior /\ Target' = Target
<1>1. Prior' = Prior /\ Target' = Target
  BY FilesKept
<1>2. Attempted'
  BY DEF Attempted
<1>3. QED
  BY <1>1, <1>2 DEF Stores

LEMMA BeginRunFile ==
  ASSUME BInv, FileOk, NEW s \in Servers, BeginRun(s)
  PROVE  FileOk'
<1>1. slot[s].pc = "creating" /\ Inside(s)
      /\ UNCHANGED <<delivering, receiptOf, chunkRows, manifest>>
  BY DEF BeginRun, InSlot, Inside
<1>2. delivering \in RecordNos /\ Content(s) = Target /\ Progress(s) /\ Stores /\ slot[s] \in Slot
      /\ receiptOf[delivering].status = "pending"
  BY <1>1, Works
<1>3. receiptOf[delivering].detailed /\ Attempted /\ Target # Removed /\ manifest # Target
  BY <1>1, <1>2 DEF Progress, Attempted
<1>4. manifest = Prior /\ LatestIds = IngIds(Prior)
  BY <1>2, <1>3 DEF Stores
<1>5. PICK r \in FreeRuns :
        /\ ingRun' = [ingRun EXCEPT ![r] = [status |-> "pending", ids |-> IngIds(Target)]]
        /\ slot' = [slot EXCEPT ![s].pc = "clearing", ![s].run = r, ![s].existing = LatestIds]
  BY <1>2 DEF BeginRun
<1>6. r \in IngRuns /\ \A q \in IngRuns : q >= r => ingRun[q].status = "none"
  BY <1>5 DEF FreeRuns
<1>7. r >= r /\ ingRun[r].status = "none"
  BY <1>6, IngAssumption DEF IngRuns
<1>8. ingRun'[r].status = "pending" /\ ingRun'[r].ids = IngIds(Target)
      /\ \A q \in IngRuns : q # r => ingRun'[q] = ingRun[q]
  BY <1>5, <1>6 DEF BInv, BatchTypes
<1>9. LatestIds' = LatestIds
  BY <1>7, <1>8, LatestKept
<1>10. Stores' /\ Prior' = Prior /\ Target' = Target
  BY <1>1, <1>2, <1>3, <1>4, <1>9, RowsChange DEF Stores
<1>11. slot' = [slot EXCEPT ![s] =
         [slot[s] EXCEPT !.pc = "clearing", !.run = r, !.existing = LatestIds]]
  BY <1>5 DEF BInv, BatchTypes
<1>12. slot'[s] = [slot[s] EXCEPT !.pc = "clearing", !.run = r, !.existing = LatestIds]
       /\ \A t \in Servers : t # s => slot'[t] = slot[t]
  BY <1>11 DEF BInv, BatchTypes
<1>13. slot'[s].pc = "clearing" /\ slot'[s].record = slot[s].record /\ slot'[s].run = r
       /\ slot'[s].known = slot[s].known /\ slot'[s].existing = IngIds(Prior)
  BY <1>2, <1>4, <1>12 DEF Slot
<1>14. \A q \in IngRuns : q > r => ingRun'[q].status = "none"
  <2> SUFFICES ASSUME NEW q \in IngRuns, q > r
               PROVE  ingRun'[q].status = "none"
    OBVIOUS
  <2>1. q >= r /\ q # r
    BY <1>6, IngAssumption DEF IngRuns
  <2>2. QED
    BY <1>6, <1>8, <2>1
<1>15. NewestRun(r)'
  BY <1>6, <1>8, <1>10, <1>14 DEF NewestRun
<1>16. Progress(s)'
  BY <1>1, <1>2, <1>3, <1>10, <1>13, <1>15 DEF Progress, NewestRun
<1>17. QED
  BY <1>1, <1>10, <1>12, <1>13, <1>16, WorkerStep

LEMMA ClearFile ==
  ASSUME BInv, FileOk, NEW s \in Servers, ClearIds(s)
  PROVE  FileOk'
<1>1. slot[s].pc = "clearing" /\ Inside(s) /\ UNCHANGED <<delivering, receiptOf, manifest, ingRun>>
  BY DEF ClearIds, InSlot, Inside
<1>2. delivering \in RecordNos /\ Content(s) = Target /\ Progress(s) /\ Stores
      /\ receiptOf[delivering].status = "pending"
  BY <1>1, Works
<1>3. receiptOf[delivering].detailed /\ Attempted /\ Target # Removed /\ manifest # Target
  BY <1>1, <1>2 DEF Progress, Attempted
<1>4. chunkRows' = {d \in chunkRows : d[1] \notin IngIds(Target)}
  BY <1>2 DEF ClearIds, WithoutIds
<1>5. Stores' /\ Prior' = Prior /\ Target' = Target
  <2>1. chunkRows' \subseteq RowsOf(Prior) \cup RowsOf(Target)
    BY <1>2, <1>3, <1>4 DEF Stores
  <2>2. LatestIds' = LatestIds
    BY <1>1 DEF LatestIds, CommittedRuns
  <2>3. QED
    BY <1>1, <1>2, <1>3, <2>1, <2>2, RowsChange
<1>6. slot'[s].pc = "adding" /\ slot'[s].record = slot[s].record /\ slot'[s].known = slot[s].known
      /\ slot'[s].run = slot[s].run /\ slot'[s].existing = slot[s].existing
      /\ \A t \in Servers : t # s => slot'[t] = slot[t]
  BY MoveFields DEF BInv, ClearIds
<1>7. \A row \in chunkRows' : row[1] \notin IngIds(Target)
  BY <1>4
<1>8. Progress(s)'
  BY <1>1, <1>2, <1>5, <1>6, <1>7 DEF Progress, NewestRun
<1>9. QED
  BY <1>1, <1>5, <1>6, <1>8, WorkerStep

LEMMA AddFile ==
  ASSUME BInv, FileOk, NEW s \in Servers, AddChunks(s)
  PROVE  FileOk'
<1>1. slot[s].pc = "adding" /\ Inside(s) /\ UNCHANGED <<delivering, receiptOf, manifest, ingRun>>
  BY DEF AddChunks, InSlot, Inside
<1>2. delivering \in RecordNos /\ Content(s) = Target /\ Progress(s) /\ Stores
      /\ receiptOf[delivering].status = "pending"
  BY <1>1, Works
<1>3. receiptOf[delivering].detailed /\ Attempted /\ Target # Removed /\ manifest # Target
      /\ \A row \in chunkRows : row[1] \notin IngIds(Target)
  BY <1>1, <1>2 DEF Progress, Attempted
<1>4. chunkRows' = chunkRows \cup RowsOf(Target)
  BY <1>2 DEF AddChunks, RowsOf
<1>5. Stores' /\ Prior' = Prior /\ Target' = Target
  <2>1. chunkRows' \subseteq RowsOf(Prior) \cup RowsOf(Target)
    BY <1>2, <1>3, <1>4 DEF Stores
  <2>2. LatestIds' = LatestIds
    BY <1>1 DEF LatestIds, CommittedRuns
  <2>3. QED
    BY <1>1, <1>2, <1>3, <2>1, <2>2, RowsChange
<1>6. slot'[s].pc = "committing" /\ slot'[s].record = slot[s].record /\ slot'[s].known = slot[s].known
      /\ slot'[s].run = slot[s].run /\ slot'[s].existing = slot[s].existing
      /\ \A t \in Servers : t # s => slot'[t] = slot[t]
  BY MoveFields DEF BInv, AddChunks
<1>7. Holds(Target)'
  BY <1>3, <1>4, <1>5 DEF Holds
<1>8. Progress(s)'
  BY <1>1, <1>2, <1>5, <1>6, <1>7 DEF Progress, NewestRun
<1>9. QED
  BY <1>1, <1>5, <1>6, <1>8, WorkerStep

LEMMA CommitFile ==
  ASSUME BInv, FileOk, NEW s \in Servers, CommitBatch(s)
  PROVE  FileOk'
<1>1. slot[s].pc = "committing" /\ Inside(s) /\ UNCHANGED <<delivering, receiptOf, chunkRows>>
  BY DEF CommitBatch, InSlot, Inside
<1>2. delivering \in RecordNos /\ Content(s) = Target /\ Progress(s) /\ Stores
      /\ receiptOf[delivering].status = "pending"
  BY <1>1, Works
<1>3. /\ receiptOf[delivering].detailed /\ Attempted /\ Target # Removed
      /\ NewestRun(slot[s].run) /\ Holds(Target) /\ slot[s].existing = IngIds(Prior)
  BY <1>1, <1>2 DEF Progress, Attempted
<1>4. LatestIds' = IngIds(Target)
  BY <1>3, LatestIsNewest DEF CommitBatch, BInv, NewestRun
<1>5. manifest' = Target
  BY <1>2 DEF CommitBatch
<1>6. Prior' = Prior /\ Target' = Target /\ Attempted'
  BY <1>1, <1>3, FilesKept DEF Attempted
<1>7. Stores'
  BY <1>1, <1>2, <1>3, <1>4, <1>5, <1>6 DEF Stores, Holds
<1>8. slot'[s].pc = "sweeping" /\ slot'[s].record = slot[s].record /\ slot'[s].known = slot[s].known
      /\ slot'[s].existing = slot[s].existing
      /\ \A t \in Servers : t # s => slot'[t] = slot[t]
  BY MoveFields DEF BInv, CommitBatch
<1>9. Progress(s)'
  BY <1>1, <1>2, <1>3, <1>5, <1>6, <1>8 DEF Progress
<1>10. QED
  BY <1>1, <1>7, <1>8, <1>9, WorkerStep

LEMMA SweepFile ==
  ASSUME BInv, FileOk, NEW s \in Servers, SweepOld(s)
  PROVE  FileOk'
<1>1. slot[s].pc = "sweeping" /\ Inside(s) /\ UNCHANGED <<delivering, receiptOf, manifest, ingRun>>
  BY DEF SweepOld, InSlot, Inside
<1>2. delivering \in RecordNos /\ Content(s) = Target /\ Progress(s) /\ Stores
      /\ receiptOf[delivering].status = "pending"
  BY <1>1, Works
<1>3. receiptOf[delivering].detailed /\ Attempted /\ Target # Removed /\ manifest = Target
  BY <1>1, <1>2 DEF Progress, Attempted
<1>4. chunkRows' = {d \in chunkRows : d[1] \notin slot[s].existing \ IngIds(Target)}
  BY <1>2 DEF SweepOld, WithoutIds
<1>5. Stores' /\ Prior' = Prior /\ Target' = Target
  <2>1. chunkRows' \subseteq RowsOf(Prior) \cup RowsOf(Target)
    BY <1>2, <1>3, <1>4 DEF Stores
  <2>2. Holds(Target)'
    <3>1. Holds(Target) /\ Target' = Target
      BY <1>1, <1>2, <1>3, FilesKept DEF Stores
    <3>2. QED
      BY <1>4, <3>1, RowFacts DEF Holds
  <2>3. LatestIds' = LatestIds
    BY <1>1 DEF LatestIds, CommittedRuns
  <2>4. QED
    BY <1>1, <1>2, <1>3, <2>1, <2>2, <2>3, RowsChange
<1>6. slot'[s].pc = "logging" /\ slot'[s].record = slot[s].record /\ slot'[s].known = slot[s].known
      /\ \A t \in Servers : t # s => slot'[t] = slot[t]
  BY MoveFields DEF BInv, SweepOld
<1>7. Progress(s)'
  BY <1>1, <1>2, <1>3, <1>5, <1>6 DEF Progress
<1>8. QED
  BY <1>1, <1>5, <1>6, <1>7, WorkerStep

\* The ids of the committed file are all the ids there are when a source is removed.
LEMMA RemoveFile ==
  ASSUME BInv, FileOk, NEW s \in Servers, RemoveChunks(s)
  PROVE  FileOk'
<1>1. slot[s].pc = "removing" /\ Inside(s) /\ UNCHANGED <<delivering, receiptOf, manifest, ingRun>>
  BY DEF RemoveChunks, InSlot, Inside
<1>2. delivering \in RecordNos /\ Progress(s) /\ Stores /\ receiptOf[delivering].status = "pending"
  BY <1>1, Works
<1>3. receiptOf[delivering].detailed /\ Attempted /\ Target = Removed
  BY <1>1, <1>2 DEF Progress, Attempted
<1>4. chunkRows' = {d \in chunkRows : d[1] \notin IngIds(manifest)}
  BY <1>2 DEF RemoveChunks, WithoutIds, Stores
<1>5. chunkRows' = {}
  <2>1. RowsOf(Target) = {} /\ manifest \in {Prior, Target}
        /\ chunkRows \subseteq RowsOf(Prior) \cup RowsOf(Target)
        /\ (manifest = Target => chunkRows = {})
    BY <1>2, <1>3, RowFacts DEF Stores
  <2>2. QED
    BY <1>4, <2>1, RowFacts
<1>6. Prior' = Prior /\ Target' = Target
  BY <1>1, FilesKept
<1>7. Holds(Target)'
  BY <1>3, <1>5, <1>6, RowFacts DEF Holds
<1>8. LatestIds' = LatestIds
  BY <1>1 DEF LatestIds, CommittedRuns
<1>9. Stores'
  BY <1>1, <1>2, <1>3, <1>5, <1>7, <1>8, RowsChange
<1>10. slot'[s].pc = "forgetting" /\ slot'[s].record = slot[s].record
       /\ slot'[s].known = slot[s].known /\ \A t \in Servers : t # s => slot'[t] = slot[t]
  BY MoveFields DEF BInv, RemoveChunks
<1>11. Progress(s)'
  BY <1>1, <1>2, <1>3, <1>5, <1>6, <1>10 DEF Progress
<1>12. QED
  BY <1>1, <1>9, <1>10, <1>11, WorkerStep

LEMMA ForgetFile ==
  ASSUME BInv, FileOk, NEW s \in Servers, ForgetSource(s)
  PROVE  FileOk'
<1>1. slot[s].pc = "forgetting" /\ Inside(s) /\ UNCHANGED <<delivering, receiptOf, chunkRows>>
  BY DEF ForgetSource, InSlot, Inside
<1>2. delivering \in RecordNos /\ Progress(s) /\ Stores /\ receiptOf[delivering].status = "pending"
  BY <1>1, Works
<1>3. receiptOf[delivering].detailed /\ Attempted /\ Target = Removed /\ chunkRows = {}
  BY <1>1, <1>2 DEF Progress, Attempted
<1>4. manifest' = Target
  BY <1>3 DEF ForgetSource
<1>5. LatestIds' = {}
  <2>1. CommittedRuns' = {}
    BY DEF ForgetSource, CommittedRuns
  <2>2. QED
    BY <2>1 DEF LatestIds
<1>6. Prior' = Prior /\ Target' = Target /\ Attempted'
  BY <1>1, <1>3, FilesKept DEF Attempted
<1>7. Stores'
  BY <1>1, <1>2, <1>3, <1>4, <1>5, <1>6, RowFacts DEF Stores, Holds
<1>8. slot'[s].pc = "logging" /\ slot'[s].record = slot[s].record /\ slot'[s].known = slot[s].known
      /\ \A t \in Servers : t # s => slot'[t] = slot[t]
  BY MoveFields DEF BInv, ForgetSource
<1>9. Progress(s)'
  BY <1>1, <1>2, <1>3, <1>4, <1>6, <1>8 DEF Progress
<1>10. QED
  BY <1>1, <1>7, <1>8, <1>9, WorkerStep

LEMMA FailPutFile ==
  ASSUME BInv, FileOk, NEW s \in Servers, FailPut(s)
  PROVE  FileOk'
<1>1. slot[s].pc \in {"clearing", "adding"} /\ Inside(s)
      /\ UNCHANGED <<delivering, receiptOf, manifest>> /\ Finish(s)
  BY DEF FailPut, Inside
<1>2. delivering \in RecordNos /\ Content(s) = Target /\ Progress(s) /\ Stores
      /\ receiptOf[delivering].status = "pending"
  BY <1>1, Works
<1>3. receiptOf[delivering].detailed /\ Attempted /\ manifest # Target /\ NewestRun(slot[s].run)
  BY <1>1, <1>2 DEF Progress, Attempted
<1>4. chunkRows' \subseteq RowsOf(Prior) \cup RowsOf(Target)
  <2>1. chunkRows \subseteq RowsOf(Prior) \cup RowsOf(Target)
    BY <1>2, <1>3 DEF Stores
  <2>2. RowsOf(Target) = {<<i, Target>> : i \in IngIds(Target)}
    BY DEF RowsOf
  <2>3. chunkRows' \subseteq chunkRows \cup RowsOf(Target)
    BY <1>2, <2>2 DEF FailPut, WithoutIds
  <2>4. QED
    BY <2>1, <2>3
<1>5. LatestIds' = LatestIds
  <2>1. ingRun'[slot[s].run].status = "failed" /\ ingRun[slot[s].run].status = "pending"
        /\ \A q \in IngRuns : q # slot[s].run => ingRun'[q] = ingRun[q]
    BY <1>3 DEF FailPut, NewestRun, BInv, BatchTypes, RunRow
  <2>2. QED
    BY <2>1, LatestKept
<1>6. Stores'
  BY <1>1, <1>2, <1>3, <1>4, <1>5, RowsChange
<1>7. slot'[s].pc = "free" /\ ~Inside(s)' /\ \A t \in Servers : t # s => slot'[t] = slot[t]
  BY <1>1, FinishFields
<1>8. QED
  BY <1>1, <1>6, <1>7, WorkerStep

\* Reconciling old runs takes no row of the committed file.
LEMMA RestartFile ==
  ASSUME BInv, FileOk, RestartServer
  PROVE  FileOk'
<1>1. UNCHANGED <<delivering, receiptOf, manifest>> /\ slot' = [s \in Servers |-> FreeSlot]
  BY DEF RestartServer
<1>2. PICK old \in SUBSET {r \in IngRuns : ingRun[r].status = "pending"} :
        /\ chunkRows' = WithoutIds((UNION {ingRun[r].ids : r \in old}) \ EverIds)
        /\ ingRun' = [r \in IngRuns |-> IF r \in old THEN [ingRun[r] EXCEPT !.status = "failed"]
                                                     ELSE ingRun[r]]
  BY DEF RestartServer
<1>3. LatestIds' = LatestIds
  <2>1. \A r \in IngRuns : r \in old => ingRun'[r].status = "failed" /\ ingRun[r].status = "pending"
    BY <1>2 DEF BInv, BatchTypes, RunRow
  <2>2. \A r \in IngRuns : r \notin old => ingRun'[r] = ingRun[r]
    BY <1>2
  <2>3. QED
    BY <2>1, <2>2, LatestKept
<1>4. Stores /\ LatestIds = IngIds(manifest)
  BY DEF FileOk, Stores
<1>5. /\ chunkRows' \subseteq chunkRows
      /\ \A d \in chunkRows : d[1] \in IngIds(manifest) => d \in chunkRows'
  <2>1. PICK ids : chunkRows' = WithoutIds(ids \ EverIds)
    BY <1>2, Zenon
  <2>2. chunkRows' = {d \in chunkRows : d[1] \notin ids \ EverIds}
    BY <2>1 DEF WithoutIds
  <2>3. IngIds(manifest) \subseteq EverIds
    BY <1>4, LatestIsCommitted
  <2>4. QED
    BY <2>2, <2>3
<1>6. Prior' = Prior /\ Target' = Target /\ Attempted' = Attempted
  BY <1>1, FilesKept DEF Attempted
<1>7. ASSUME StoredIs(manifest)
      PROVE  chunkRows' = chunkRows
  BY <1>5, <1>7, RowFacts
<1>8. ~Attempted => StoredIs(Prior)' /\ manifest' = Prior'
  <2>1. SUFFICES ASSUME ~Attempted PROVE StoredIs(Prior)' /\ manifest' = Prior'
    OBVIOUS
  <2>2. manifest = Prior /\ StoredIs(Prior)
    BY <1>4, <2>1 DEF Stores
  <2>3. chunkRows' = chunkRows
    BY <1>7, <2>2
  <2>4. QED
    BY <1>1, <1>6, <2>2, <2>3 DEF StoredIs
<1>9. Attempted => /\ chunkRows' \subseteq RowsOf(Prior) \cup RowsOf(Target)
                   /\ manifest = Target => Holds(Target)' /\ (Target = Removed => chunkRows' = {})
                   /\ receiptOf[delivering].status = "completed" => StoredIs(Target)'
  <2> SUFFICES ASSUME Attempted
               PROVE  /\ chunkRows' \subseteq RowsOf(Prior) \cup RowsOf(Target)
                      /\ manifest = Target => Holds(Target)' /\ (Target = Removed => chunkRows' = {})
                      /\ receiptOf[delivering].status = "completed" => StoredIs(Target)'
    OBVIOUS
  <2>1. /\ chunkRows \subseteq RowsOf(Prior) \cup RowsOf(Target)
        /\ manifest = Target => Holds(Target) /\ (Target = Removed => chunkRows = {})
        /\ receiptOf[delivering].status = "completed" => manifest = Target /\ StoredIs(Target)
    BY <1>4 DEF Stores
  <2>2. chunkRows' \subseteq RowsOf(Prior) \cup RowsOf(Target)
    BY <1>5, <2>1
  <2>3. manifest = Target => Holds(Target)'
    BY <1>5, <1>6, <2>1, RowFacts DEF Holds
  <2>4. receiptOf[delivering].status = "completed" => StoredIs(Target)'
    BY <1>6, <1>7, <2>1 DEF StoredIs
  <2>5. QED
    BY <1>5, <2>1, <2>2, <2>3, <2>4
<1>10. Stores'
  BY <1>1, <1>3, <1>4, <1>6, <1>8, <1>9 DEF Stores
<1>11. \A t \in Servers : slot'[t].pc = "free" /\ ~Inside(t)'
  BY <1>1 DEF FreeSlot, Inside
<1>12. Delivery'
  BY <1>1, <1>11 DEF FileOk, Delivery
<1>13. QED
  BY <1>10, <1>11, <1>12 DEF FileOk

LEMMA FileInvInit == IngInit => FileInv
<1> SUFFICES ASSUME IngInit PROVE FileOk
  BY DEF FileInv
<1>1. \A s \in Servers : slot[s].pc = "free" /\ ~Inside(s)
  BY DEF IngInit, FreeSlot, Inside
<1>2. delivering = 1 /\ \A k \in RecordNos : receiptOf[k].status = "none" /\ ~receiptOf[k].detailed
  BY DEF IngInit
<1>3. \A k \in RecordNos : ~(k < 1)
  BY IngAssumption DEF RecordNos
<1>4. Delivery
  BY <1>1, <1>2, <1>3 DEF Delivery
<1>5. ~Attempted /\ Prior = Removed /\ manifest = Prior /\ chunkRows = {}
  BY <1>2 DEF IngInit, Attempted, Prior
<1>6. LatestIds = {}
  <2>1. CommittedRuns = {}
    BY DEF IngInit, CommittedRuns
  <2>2. QED
    BY <2>1 DEF LatestIds
<1>7. Stores
  BY <1>5, <1>6, RowFacts DEF Stores
<1>8. QED
  BY <1>1, <1>4, <1>7 DEF FileOk

LEMMA FileInvNext ==
  ASSUME BInv, FileInv, [IngNext]_ingVars
  PROVE  FileInv'
<1> SUFFICES ASSUME abandoned' = {} PROVE FileOk'
  BY DEF FileInv
<1>1. CASE UNCHANGED ingVars
  <2>1. FileOk
    BY <1>1 DEF ingVars, FileInv
  <2>2. QED
    BY <1>1, <2>1, IdleStep DEF ingVars, FileOk, Delivery
<1>2. ASSUME NEW s \in Servers, IngRequest(s)
      PROVE  FileOk'
  <2>1. ~Reject(s)
    BY DEF Reject
  <2>2. abandoned = {}
    BY <1>2
    DEF IngRequest, Arrive, BeginRecord, ValidateCheckout, Details, Reject, LogBatch, Clean,
                CompleteRecord, DropRequest
  <2>3. FileOk
    BY <2>2 DEF FileInv
  <2>4. DropRequest(s) => FileOk'
    BY <2>3, EndedFile DEF DropRequest
  <2>5. QED
    BY <1>2, <2>1, <2>3, <2>4, ArriveFile, BeginFile, ValidateFile, DetailsFile, LogFile,
       CleanFile,
       CompleteFile DEF IngRequest
<1>3. ASSUME NEW s \in Servers, IngStore(s)
      PROVE  FileOk'
  <2>1. abandoned = {}
    BY <1>3 DEF IngStore, BeginRun, ClearIds, AddChunks, CommitBatch, SweepOld, RemoveChunks,
                ForgetSource, FailPut
  <2>2. FileOk
    BY <2>1 DEF FileInv
  <2>3. QED
    BY <1>3, <2>2, BeginRunFile, ClearFile, AddFile, CommitFile, SweepFile, RemoveFile,
       ForgetFile,
       FailPutFile DEF IngStore
<1>4. CASE RestartServer
  <2>1. abandoned = {}
    BY <1>4 DEF RestartServer
  <2>2. QED
    BY <1>4, <2>1, RestartFile DEF FileInv
<1>5. QED
  BY <1>1, <1>2, <1>3, <1>4 DEF IngNext

\* While no record is given up, rows, manifest, runs and receipts relate to the files of two records
\* only: the one that is delivered and the one before it (replace_source_drawers, remove_source_key).
THEOREM FileInvHolds == IngSpec => []FileInv
<1>1. BInv /\ FileInv /\ [IngNext]_ingVars => FileInv'
  BY FileInvNext
<1>2. QED
  BY FileInvInit, BInvHolds, <1>1, PTL DEF IngSpec

\* The last record that reached the server is the one delivered, or the one before it.
LEMMA LastBegunIs ==
  ASSUME BInv, Delivery, Begun # {}
  PROVE  /\ LastBegun \in RecordNos
         /\ LastBegun = delivering \/ (LastBegun = delivering - 1 /\ ~Attempted /\ delivering # 1)
<1>1. delivering \in 1..(Records + 1) /\ Records \in Nat
  BY IngAssumption DEF BInv, BatchTypes
<1>2. \A j \in Begun : j \in RecordNos /\ j \in Nat /\ j <= delivering
  BY <1>1 DEF Begun, Delivery, RecordNos
<1>3. ASSUME NEW m \in Begun, \A j \in Begun : j <= m
      PROVE  LastBegun = m
  <2>1. \A x, y \in Begun : (\A j \in Begun : j <= x) /\ (\A j \in Begun : j <= y) => x = y
    BY <1>2
  <2>2. LastBegun \in Begun /\ \A j \in Begun : j <= LastBegun
    BY <1>3 DEF LastBegun
  <2>3. QED
    BY <1>3, <2>1, <2>2
<1>4. CASE delivering \in Begun
  BY <1>2, <1>3, <1>4
<1>5. CASE delivering \notin Begun
  <2>1. PICK j \in Begun : TRUE
    OBVIOUS
  <2>2. j \in RecordNos /\ j <= delivering /\ j # delivering
    BY <1>2, <1>5
  <2>3. delivering - 1 \in RecordNos /\ delivering - 1 < delivering /\ delivering # 1
    BY <1>1, <2>2 DEF RecordNos
  <2>4. delivering - 1 \in Begun
    BY <2>3 DEF Begun, Delivery
  <2>5. \A i \in Begun : i <= delivering - 1
    BY <1>1, <1>2, <1>5
  <2>6. ~Attempted
    BY <1>5 DEF Attempted, Begun, Delivery
  <2>7. QED
    BY <1>3, <2>3, <2>4, <2>5, <2>6
<1>6. QED
  BY <1>4, <1>5

\* When the last record that reached the server is complete, exactly its file is stored, whatever was
\* cut off and however late copies arrive (route_ingest_batch with the cleanup of its receipt).
THEOREM LastRecordIsStored == IngSpec => []RecordStored
<1>1. BInv /\ FileInv => RecordStored
  <2> SUFFICES ASSUME BInv, FileOk, Begun # {}, receiptOf[LastBegun].status = "completed"
               PROVE  StoredIs(ContentOf[LastBegun])
    BY DEF RecordStored, FileInv
  <2>1. Delivery /\ Stores
    BY DEF FileOk
  <2>2. CASE LastBegun = delivering
    <3>1. Attempted
      BY <2>1, <2>2, LastBegunIs DEF Delivery, Attempted
    <3>2. StoredIs(Target)
      BY <2>1, <2>2, <3>1 DEF Stores
    <3>3. QED
      BY <2>2, <3>2 DEF Target
  <2>3. CASE LastBegun = delivering - 1 /\ ~Attempted /\ delivering # 1
    <3>1. StoredIs(Prior)
      BY <2>1, <2>3 DEF Stores
    <3>2. Prior = ContentOf[LastBegun]
      BY <2>3 DEF Prior
    <3>3. QED
      BY <3>1, <3>2
  <2>4. QED
    BY <2>1, <2>2, <2>3, LastBegunIs
<1>2. QED
  BY BInvHolds, FileInvHolds, <1>1, PTL

-----------------------------------------------------------------------------
(* The drawer routes (DrawerRoutes): who works on what.                    *)

OutcomeRow == [status : {"none", "pending", "completed"}, details : Runs \cup {NoRun}]

DrawerTypes ==
  /\ sent \in 1..(DrawerLast + 1) /\ acked \subseteq DrawerOps
  /\ outcome \in [DrawerOps -> OutcomeRow]
  /\ rows \subseteq Runs
  /\ ingest \in [Runs -> {"none", "pending", "stale", "committed", "failed"}]
  /\ logged \subseteq DrawerOps
  /\ request \in [DrawerSlots -> DrawerRequest]
  /\ up \in BOOLEAN
  /\ others \in 0..MaxOthers /\ drawerFaults \in 0..MaxDrawerFaults
  /\ witnessed \subseteq DrawerOps /\ removed \in [DrawerOps -> Nat] /\ overlapped \in BOOLEAN

Busy(s) == request[s].pc # "idle"

Adding == {"recovering", "checking", "creating", "existing", "adding", "committing"}
Deleting == {"looking", "rereading", "capturing", "deleting"}

\* Whatever is in the server is a copy of the operation that is delivered, one copy unless it is one
\* that is sent again early.
Copies ==
  /\ \A s \in DrawerSlots :
       /\ ~Busy(s) => request[s].op = 0
       /\ Busy(s) => up /\ sent \in DrawerOps /\ request[s].op = sent
       /\ request[s].pc \in Adding => sent \in DrawerAdds
       /\ request[s].pc \in Deleting => sent \notin DrawerAdds
       /\ request[s].pc = "capturing" => request[s].found \in Runs
  /\ sent \notin DrawerOverlapping \/ ~overlapped =>
       \A s, t \in DrawerSlots : Busy(s) /\ Busy(t) => s = t

Storing == {"existing", "adding", "committing"}
Seen(r) ==
  \/ r \in rows
  \/ \E o \in DrawerOps : outcome[o].details = r
  \/ \E s \in DrawerSlots : request[s].found = r

\* A request stores under a run of its own, which nobody saw before its row is there.
RunsApart ==
  /\ \A s \in DrawerSlots :
       request[s].pc \in Storing => request[s].run \in Runs /\ ingest[request[s].run] = "pending"
  /\ \A s, t \in DrawerSlots : s # t /\ request[s].pc \in Storing /\ request[t].pc \in Storing =>
       request[s].run # request[t].run
  /\ \A r \in Runs : Seen(r) =>
       /\ ingest[r] # "none"
       /\ \A s \in DrawerSlots : request[s].pc \in {"existing", "adding"} => request[s].run # r

\* What was found before it is told.
Witnessed ==
  /\ NothingFabricated
  /\ \A o \in DrawerOps : outcome[o].details # NoRun => o \in witnessed
  /\ \A s \in DrawerSlots :
       /\ request[s].pc \in {"committing", "capturing", "deleting", "logging", "completing"} =>
            sent \in witnessed
       /\ Busy(s) /\ request[s].known # NoRun => sent \in witnessed
       /\ request[s].pc = "completing" => sent \in logged

\* A deletion that removed its row has the incarnation in its receipt, and that one never comes back.
Removals ==
  ~overlapped =>
    /\ \A o \in DrawerOps :
         removed[o] # 0 =>
           removed[o] = 1 /\ outcome[o].details \in Runs /\ outcome[o].details \notin rows
    /\ \A s \in DrawerSlots :
         /\ request[s].pc \in {"looking", "rereading"} => request[s].known = outcome[sent].details
         /\ request[s].pc \in {"capturing", "deleting"} => removed[sent] = 0
         /\ request[s].pc = "deleting" => outcome[sent].details \in Runs

OneRow ==
  others = 0 =>
    /\ \A a, b \in rows : a = b
    /\ \A s \in DrawerSlots : request[s].pc = "adding" => rows = {}

\* The receipt of an operation tells how far it is; later ones are not begun.
Begins ==
  /\ \A o \in DrawerOps : o > sent => outcome[o].status = "none"
  /\ \A o \in DrawerOps : outcome[o].status = "none" => outcome[o].details = NoRun
  /\ \A s \in DrawerSlots :
       /\ request[s].pc \notin {"idle", "beginning"} => outcome[sent].status # "none"
       /\ request[s].pc = "answering" /\ request[s].ok => outcome[sent].status = "completed"
  /\ \A o \in acked : o < sent

AnyCommitted == \E r \in Runs : ingest[r] = "committed"
Landed(o) == rows # {} <=> o \in DrawerAdds

\* Left alone by the other client, what a request is about to tell is what the rows say.
Tells ==
  /\ \A s \in DrawerSlots :
       /\ request[s].pc = "committing" => rows # {}
       /\ request[s].pc \in {"logging", "completing"} => Landed(sent)
       /\ request[s].pc = "rereading" => rows = {}
       /\ request[s].pc = "capturing" => rows \subseteq {request[s].found}
       /\ request[s].pc = "looking" /\ request[s].known # NoRun => rows \subseteq {request[s].known}
  /\ sent \in DrawerOps /\ sent \notin DrawerAdds /\ outcome[sent].details # NoRun =>
       rows \subseteq {outcome[sent].details}
  /\ /\ sent \in DrawerOps /\ outcome[sent].status = "completed"
     /\ AnyCommitted \/ sent \notin DrawerAdds
     => Landed(sent)
  /\ /\ sent - 1 \in acked /\ (sent \in DrawerOps => outcome[sent].status = "none")
     /\ AnyCommitted
     => Landed(sent - 1)

DInv ==
  /\ DrawerTypes /\ Copies /\ RunsApart /\ Witnessed /\ Removals /\ OneRow
  /\ Begins
  /\ others = 0 => Tells


-----------------------------------------------------------------------------
(* What becomes of a request.                                              *)

LEMMA RunFacts == NoRun \notin Runs
BY DEF NoRun, Runs

LEMMA Becomes ==
  ASSUME DrawerTypes, NEW s \in DrawerSlots, NEW row \in DrawerRequest,
         request' = [request EXCEPT ![s] = row]
  PROVE  /\ request' \in [DrawerSlots -> DrawerRequest] /\ request'[s] = row
         /\ \A t \in DrawerSlots : t # s => request'[t] = request[t]
BY DEF DrawerTypes

LEMMA Goes ==
  ASSUME DrawerTypes, NEW s \in DrawerSlots,
         NEW x \in {"idle", "beginning", "recovering", "checking", "creating", "existing", "adding",
                    "committing", "looking", "rereading", "capturing", "deleting", "logging",
                    "completing", "answering"},
         GoTo(s, x)
  PROVE  /\ request' \in [DrawerSlots -> DrawerRequest]
         /\ \A t \in DrawerSlots : t # s => request'[t] = request[t]
         /\ request'[s].pc = x /\ request'[s].op = request[s].op
         /\ request'[s].known = request[s].known /\ request'[s].found = request[s].found
         /\ request'[s].run = request[s].run /\ request'[s].ok = request[s].ok
<1> DEFINE row == [request[s] EXCEPT !.pc = x]
<1>1. request[s] \in DrawerRequest
  BY DEF DrawerTypes
<1>2. row \in DrawerRequest
  BY <1>1 DEF DrawerRequest
<1>3. row.pc = x /\ row.op = request[s].op /\ row.known = request[s].known
      /\ row.found = request[s].found /\ row.run = request[s].run /\ row.ok = request[s].ok
  BY <1>1 DEF DrawerRequest
<1>4. request' = [request EXCEPT ![s] = row]
  BY DEF GoTo, DrawerTypes
<1> HIDE DEF row
<1>5. QED
  BY <1>2, <1>3, <1>4, Becomes

LEMMA Replies ==
  ASSUME DrawerTypes, NEW s \in DrawerSlots, NEW ok \in BOOLEAN, Reply(s, ok)
  PROVE  /\ request' \in [DrawerSlots -> DrawerRequest]
         /\ \A t \in DrawerSlots : t # s => request'[t] = request[t]
         /\ request'[s].pc = "answering" /\ request'[s].op = request[s].op
         /\ request'[s].known = request[s].known /\ request'[s].found = request[s].found
         /\ request'[s].run = request[s].run /\ request'[s].ok = ok
<1> DEFINE row == [request[s] EXCEPT !.pc = "answering", !.ok = ok]
<1>1. request[s] \in DrawerRequest
  BY DEF DrawerTypes
<1>2. row \in DrawerRequest
  BY <1>1 DEF DrawerRequest
<1>3. row.pc = "answering" /\ row.op = request[s].op /\ row.known = request[s].known
      /\ row.found = request[s].found /\ row.run = request[s].run /\ row.ok = ok
  BY <1>1 DEF DrawerRequest
<1>4. request' = [request EXCEPT ![s] = row]
  BY DEF Reply, DrawerTypes
<1> HIDE DEF row
<1>5. QED
  BY <1>2, <1>3, <1>4, Becomes

LEMMA Idle ==
  /\ NoRequest \in DrawerRequest /\ NoRequest.pc = "idle" /\ NoRequest.op = 0
  /\ NoRequest.known = NoRun /\ NoRequest.found = NoRun /\ NoRequest.ok = FALSE
BY DEF NoRequest, DrawerRequest

LEMMA Drops ==
  ASSUME DrawerTypes, NEW s \in DrawerSlots, request' = [request EXCEPT ![s] = NoRequest]
  PROVE  /\ request' \in [DrawerSlots -> DrawerRequest]
         /\ \A t \in DrawerSlots : t # s => request'[t] = request[t]
         /\ request'[s].pc = "idle" /\ request'[s].op = 0 /\ request'[s].found = NoRun
         /\ request'[s].known = NoRun
BY Idle, Becomes

\* A step of one copy leaves it a copy.
LEMMA CopyKept ==
  ASSUME DInv, NEW s \in DrawerSlots, Busy(s), UNCHANGED <<sent, up, overlapped>>,
         \A t \in DrawerSlots : t # s => request'[t] = request[t],
         request'[s].pc = "idle" => request'[s].op = 0,
         request'[s].pc # "idle" => request'[s].op = request[s].op,
         request'[s].pc \in Adding => sent \in DrawerAdds,
         request'[s].pc \in Deleting => sent \notin DrawerAdds,
         request'[s].pc = "capturing" => request'[s].found \in Runs
  PROVE  Copies'
BY DEF DInv, Copies, Busy, Adding, Deleting

\* A step that begins no run and makes nothing seen that was not.
LEMMA RunsKept ==
  ASSUME DInv, NEW s \in DrawerSlots, UNCHANGED ingest,
         \A t \in DrawerSlots : t # s => request'[t] = request[t],
         request'[s].pc \in Storing => request[s].pc \in Storing /\ request'[s].run = request[s].run,
         request'[s].pc \in {"existing", "adding"} => request[s].pc \in {"existing", "adding"},
         \A r \in Runs : Seen(r)' => Seen(r)
  PROVE  RunsApart'
<1>1. ASSUME NEW t \in DrawerSlots, request'[t].pc \in Storing
      PROVE  request[t].pc \in Storing /\ request'[t].run = request[t].run
  BY <1>1
<1>2. \A t \in DrawerSlots : request'[t].pc \in {"existing", "adding"} =>
        request[t].pc \in {"existing", "adding"} /\ request'[t].run = request[t].run
  BY <1>1 DEF Storing
<1>3. \A t \in DrawerSlots :
        request'[t].pc \in Storing => request'[t].run \in Runs /\ ingest'[request'[t].run] = "pending"
  BY <1>1 DEF DInv, RunsApart
<1>4. \A t, u \in DrawerSlots : t # u /\ request'[t].pc \in Storing /\ request'[u].pc \in Storing =>
        request'[t].run # request'[u].run
  BY <1>1 DEF DInv, RunsApart
<1>5. \A r \in Runs : Seen(r)' =>
        /\ ingest'[r] # "none"
        /\ \A t \in DrawerSlots : request'[t].pc \in {"existing", "adding"} => request'[t].run # r
  BY <1>2 DEF DInv, RunsApart
<1>6. QED
  BY <1>3, <1>4, <1>5 DEF RunsApart

\* A step that leaves operation, receipts and rows alone, and what its request is about to tell true.
LEMMA TellsKept ==
  ASSUME DInv, others = 0, NEW s \in DrawerSlots, UNCHANGED <<sent, acked, outcome, rows>>,
         AnyCommitted' => AnyCommitted,
         \A t \in DrawerSlots : t # s => request'[t] = request[t],
         request'[s].pc = "committing" => rows # {},
         request'[s].pc \in {"logging", "completing"} => Landed(sent),
         request'[s].pc = "rereading" => rows = {},
         request'[s].pc = "capturing" => rows \subseteq {request'[s].found},
         request'[s].pc = "looking" /\ request'[s].known # NoRun => rows \subseteq {request'[s].known}
  PROVE  Tells'
BY DEF DInv, Tells, Landed

LEMMA LogDrawer ==
  ASSUME DInv, NEW s \in DrawerSlots, DrawerLog(s)
  PROVE  DInv'
<1>1. request[s].pc = "logging"
      /\ Busy(s) /\ request[s].op = sent /\ sent \in DrawerOps /\ OpOf(s) = sent
  BY DEF DInv, Copies, Busy, OpOf, Is, Adding, Deleting, DrawerLog
<1>2. UNCHANGED <<sent, acked, outcome, rows, ingest, up, others, drawerFaults, witnessed,
               removed, overlapped>>
  BY DEF DrawerLog, OnlyRequests
<1>3. /\ request' \in [DrawerSlots -> DrawerRequest]
      /\ \A t \in DrawerSlots : t # s => request'[t] = request[t]
      /\ request'[s].op = request[s].op /\ request'[s].run = request[s].run
      /\ request'[s].pc = "completing" /\ request'[s].known = request[s].known
      /\ request'[s].found = request[s].found /\ logged' = logged \cup {sent}
  BY <1>1, Goes DEF DrawerLog, DInv
<1>4. DrawerTypes'
  BY <1>1, <1>2, <1>3 DEF DInv, DrawerTypes
<1>5. Copies'
  BY <1>1, <1>2, <1>3, CopyKept DEF DInv, Adding, Deleting
<1>6. RunsApart'
  <2>1. \A r \in Runs : Seen(r)' => Seen(r)
    BY <1>1, <1>2, <1>3, RunFacts DEF Seen
  <2>2. QED
    BY <1>1, <1>2, <1>3, <2>1, RunsKept DEF Storing
<1>7. Witnessed'
  BY <1>1, <1>2, <1>3 DEF DInv, Witnessed, NothingFabricated, Busy
<1>8. Removals'
  BY <1>1, <1>2, <1>3 DEF DInv, Removals
<1>9. OneRow'
  BY <1>1, <1>2, <1>3 DEF DInv, OneRow
<1>10. Begins'
  BY <1>1, <1>2, <1>3, DrawerAssumption DEF DInv, Begins
<1>11. others' = 0 => Tells'
  <2>1. AnyCommitted' => AnyCommitted
    BY <1>2, <1>3 DEF AnyCommitted
  <2>2. QED
    BY <1>1, <1>2, <1>3, <2>1 DEF DInv, Begins, Tells, Landed
<1>12. QED
  BY <1>4, <1>5, <1>6, <1>7, <1>8, <1>9, <1>10, <1>11 DEF DInv

LEMMA RecoverDrawer ==
  ASSUME DInv, NEW s \in DrawerSlots, RecoverAdd(s)
  PROVE  DInv'
<1>1. request[s].pc = "recovering" /\ sent \in DrawerAdds
      /\ Busy(s) /\ request[s].op = sent /\ sent \in DrawerOps /\ OpOf(s) = sent
  BY DEF DInv, Copies, Busy, OpOf, Is, Adding, Deleting, RecoverAdd
<1>2. UNCHANGED <<sent, acked, outcome, rows, ingest, logged, up, others, drawerFaults, removed,
               overlapped>>
  BY DEF RecoverAdd, OnlyRequests
<1>3. /\ request' \in [DrawerSlots -> DrawerRequest]
      /\ \A t \in DrawerSlots : t # s => request'[t] = request[t]
      /\ request'[s].op = request[s].op /\ request'[s].run = request[s].run
      /\ request'[s].pc = IF rows = {} THEN "checking" ELSE "logging"
      /\ request'[s].known = request[s].known /\ request'[s].found = request[s].found
      /\ witnessed' = IF rows = {} THEN witnessed ELSE witnessed \cup {sent}
  BY <1>1, Goes DEF RecoverAdd, DInv
<1>4. DrawerTypes'
  BY <1>1, <1>2, <1>3 DEF DInv, DrawerTypes
<1>5. Copies'
  BY <1>1, <1>2, <1>3, CopyKept DEF DInv, Adding, Deleting
<1>6. RunsApart'
  <2>1. \A r \in Runs : Seen(r)' => Seen(r)
    BY <1>1, <1>2, <1>3, RunFacts DEF Seen
  <2>2. QED
    BY <1>1, <1>2, <1>3, <2>1, RunsKept DEF Storing
<1>7. Witnessed'
  BY <1>1, <1>2, <1>3 DEF DInv, Witnessed, NothingFabricated, Busy
<1>8. Removals'
  BY <1>1, <1>2, <1>3 DEF DInv, Removals
<1>9. OneRow'
  BY <1>1, <1>2, <1>3 DEF DInv, OneRow
<1>10. Begins'
  BY <1>1, <1>2, <1>3, DrawerAssumption DEF DInv, Begins
<1>11. others' = 0 => Tells'
  <2>1. AnyCommitted' => AnyCommitted
    BY <1>2, <1>3 DEF AnyCommitted
  <2>2. QED
    BY <1>1, <1>2, <1>3, <2>1 DEF DInv, Begins, Tells, Landed
<1>12. QED
  BY <1>4, <1>5, <1>6, <1>7, <1>8, <1>9, <1>10, <1>11 DEF DInv

LEMMA CheckDrawer ==
  ASSUME DInv, NEW s \in DrawerSlots, CheckDuplicate(s)
  PROVE  DInv'
<1>1. request[s].pc = "checking" /\ sent \in DrawerAdds
      /\ Busy(s) /\ request[s].op = sent /\ sent \in DrawerOps /\ OpOf(s) = sent
  BY DEF DInv, Copies, Busy, OpOf, Is, Adding, Deleting, CheckDuplicate
<1>2. UNCHANGED <<sent, acked, outcome, rows, ingest, logged, up, others, drawerFaults, witnessed,
               removed, overlapped>>
  BY DEF CheckDuplicate, OnlyRequests
<1>3. /\ request' \in [DrawerSlots -> DrawerRequest]
      /\ \A t \in DrawerSlots : t # s => request'[t] = request[t]
      /\ request'[s].op = request[s].op /\ request'[s].run = request[s].run
      /\ request'[s].pc = IF rows = {} THEN "creating" ELSE "answering"
      /\ request'[s].pc = "answering" => ~request'[s].ok
      /\ request'[s].known = request[s].known /\ request'[s].found = request[s].found
  BY <1>1, Goes, Replies DEF CheckDuplicate, DInv
<1>4. DrawerTypes'
  BY <1>1, <1>2, <1>3 DEF DInv, DrawerTypes
<1>5. Copies'
  BY <1>1, <1>2, <1>3, CopyKept DEF DInv, Adding, Deleting
<1>6. RunsApart'
  <2>1. \A r \in Runs : Seen(r)' => Seen(r)
    BY <1>1, <1>2, <1>3, RunFacts DEF Seen
  <2>2. QED
    BY <1>1, <1>2, <1>3, <2>1, RunsKept DEF Storing
<1>7. Witnessed'
  BY <1>1, <1>2, <1>3 DEF DInv, Witnessed, NothingFabricated, Busy
<1>8. Removals'
  BY <1>1, <1>2, <1>3 DEF DInv, Removals
<1>9. OneRow'
  BY <1>1, <1>2, <1>3 DEF DInv, OneRow
<1>10. Begins'
  BY <1>1, <1>2, <1>3, DrawerAssumption DEF DInv, Begins
<1>11. others' = 0 => Tells'
  <2>1. AnyCommitted' => AnyCommitted
    BY <1>2, <1>3 DEF AnyCommitted
  <2>2. QED
    BY <1>1, <1>2, <1>3, <2>1 DEF DInv, Begins, Tells, Landed
<1>12. QED
  BY <1>4, <1>5, <1>6, <1>7, <1>8, <1>9, <1>10, <1>11 DEF DInv

LEMMA RereadDrawer ==
  ASSUME DInv, NEW s \in DrawerSlots, Reread(s)
  PROVE  DInv'
<1>1. request[s].pc = "rereading" /\ sent \notin DrawerAdds
      /\ Busy(s) /\ request[s].op = sent /\ sent \in DrawerOps /\ OpOf(s) = sent
  BY DEF DInv, Copies, Busy, OpOf, Is, Adding, Deleting, Reread
<1>2. UNCHANGED <<sent, acked, outcome, rows, ingest, logged, up, others, drawerFaults, witnessed,
               removed, overlapped>>
  BY DEF Reread, OnlyRequests
<1>3. /\ request' \in [DrawerSlots -> DrawerRequest]
      /\ \A t \in DrawerSlots : t # s => request'[t] = request[t]
      /\ request'[s].op = request[s].op /\ request'[s].run = request[s].run
      /\ request'[s].pc = IF outcome[sent].details # NoRun THEN "logging" ELSE "answering"
      /\ request'[s].pc = "answering" => ~request'[s].ok
      /\ request'[s].known = request[s].known /\ request'[s].found = request[s].found
  BY <1>1, Goes, Replies DEF Reread, DInv
<1>4. DrawerTypes'
  BY <1>1, <1>2, <1>3 DEF DInv, DrawerTypes
<1>5. Copies'
  BY <1>1, <1>2, <1>3, CopyKept DEF DInv, Adding, Deleting
<1>6. RunsApart'
  <2>1. \A r \in Runs : Seen(r)' => Seen(r)
    BY <1>1, <1>2, <1>3, RunFacts DEF Seen
  <2>2. QED
    BY <1>1, <1>2, <1>3, <2>1, RunsKept DEF Storing
<1>7. Witnessed'
  BY <1>1, <1>2, <1>3 DEF DInv, Witnessed, NothingFabricated, Busy
<1>8. Removals'
  BY <1>1, <1>2, <1>3 DEF DInv, Removals
<1>9. OneRow'
  BY <1>1, <1>2, <1>3 DEF DInv, OneRow
<1>10. Begins'
  BY <1>1, <1>2, <1>3, DrawerAssumption DEF DInv, Begins
<1>11. others' = 0 => Tells'
  <2>1. AnyCommitted' => AnyCommitted
    BY <1>2, <1>3 DEF AnyCommitted
  <2>2. QED
    BY <1>1, <1>2, <1>3, <2>1 DEF DInv, Begins, Tells, Landed
<1>12. QED
  BY <1>4, <1>5, <1>6, <1>7, <1>8, <1>9, <1>10, <1>11 DEF DInv

LEMMA DeleteDrawer ==
  ASSUME DInv, NEW s \in DrawerSlots, DeleteRow(s)
  PROVE  DInv'
<1>1. request[s].pc = "deleting" /\ sent \notin DrawerAdds
      /\ Busy(s) /\ request[s].op = sent /\ sent \in DrawerOps /\ OpOf(s) = sent
  BY DEF DInv, Copies, Busy, OpOf, Is, Adding, Deleting, DeleteRow
<1>2. UNCHANGED <<sent, acked, outcome, ingest, logged, up, others, drawerFaults, witnessed,
               overlapped>>
  BY DEF DeleteRow, OnlyRequests
<1>3. /\ request' \in [DrawerSlots -> DrawerRequest]
      /\ \A t \in DrawerSlots : t # s => request'[t] = request[t]
      /\ request'[s].op = request[s].op /\ request'[s].run = request[s].run
      /\ request'[s].pc = "logging"
      /\ request'[s].known = request[s].known /\ request'[s].found = request[s].found
      /\ rows' = {} /\ removed' = [removed EXCEPT ![sent] = @ + (IF rows = {} THEN 0 ELSE 1)]
  BY <1>1, Goes DEF DeleteRow, DInv
<1>4. DrawerTypes'
  BY <1>1, <1>2, <1>3 DEF DInv, DrawerTypes
<1>5. Copies'
  BY <1>1, <1>2, <1>3, CopyKept DEF DInv, Adding, Deleting
<1>6. RunsApart'
  <2>1. \A r \in Runs : Seen(r)' => Seen(r)
    BY <1>1, <1>2, <1>3, RunFacts DEF Seen
  <2>2. QED
    BY <1>1, <1>2, <1>3, <2>1, RunsKept DEF Storing
<1>7. Witnessed'
  BY <1>1, <1>2, <1>3 DEF DInv, Witnessed, NothingFabricated, Busy
<1>8. Removals'
  <2> SUFFICES ASSUME ~overlapped PROVE Removals'
    BY <1>2 DEF Removals
  <2>1. removed[sent] = 0 /\ outcome[sent].details \in Runs
    BY <1>1 DEF DInv, Removals
  <2>2. removed'[sent] \in {0, 1} /\ \A o \in DrawerOps : o # sent => removed'[o] = removed[o]
    BY <1>1, <1>3, <2>1 DEF DInv, DrawerTypes
  <2>3. \A t \in DrawerSlots : t # s => ~Busy(t)
    BY <1>1 DEF DInv, Copies
  <2>4. \A t \in DrawerSlots : request'[t].pc \notin {"looking", "rereading", "capturing", "deleting"}
    BY <1>3, <2>3 DEF Busy
  <2>5. \A o \in DrawerOps : removed'[o] # 0 =>
          removed'[o] = 1 /\ outcome'[o].details \in Runs /\ outcome'[o].details \notin rows'
    BY <1>2, <1>3, <2>1, <2>2 DEF DInv, Removals
  <2>6. QED
    BY <2>4, <2>5 DEF Removals
<1>9. OneRow'
  BY <1>1, <1>2, <1>3 DEF DInv, OneRow
<1>10. Begins'
  BY <1>1, <1>2, <1>3, DrawerAssumption DEF DInv, Begins
<1>11. others' = 0 => Tells'
  <2>1. outcome[sent].status # "none"
    BY <1>1 DEF DInv, Begins
  <2>2. \A t \in DrawerSlots : request'[t].pc # "committing"
    BY <1>1, <1>3 DEF DInv, Copies, Adding
  <2>3. rows' = {} /\ sent' = sent /\ outcome' = outcome
    BY <1>2, <1>3
  <2>4. QED
    BY <1>1, <2>1, <2>2, <2>3 DEF Tells, Landed
<1>12. QED
  BY <1>4, <1>5, <1>6, <1>7, <1>8, <1>9, <1>10, <1>11 DEF DInv

LEMMA CompleteDrawer ==
  ASSUME DInv, NEW s \in DrawerSlots, DrawerComplete(s)
  PROVE  DInv'
<1>1. request[s].pc = "completing"
      /\ Busy(s) /\ request[s].op = sent /\ sent \in DrawerOps /\ OpOf(s) = sent
  BY DEF DInv, Copies, Busy, OpOf, Is, Adding, Deleting, DrawerComplete
<1>2. UNCHANGED <<sent, acked, rows, ingest, logged, up, others, drawerFaults, witnessed, removed,
               overlapped>>
  BY DEF DrawerComplete, OnlyRequests
<1>3. /\ request' \in [DrawerSlots -> DrawerRequest]
      /\ \A t \in DrawerSlots : t # s => request'[t] = request[t]
      /\ request'[s].op = request[s].op /\ request'[s].run = request[s].run
      /\ request'[s].pc = "answering" /\ request'[s].known = request[s].known
      /\ request'[s].found = request[s].found
      /\ outcome' \in [DrawerOps -> OutcomeRow]
      /\ outcome'[sent].status = "completed" /\ outcome'[sent].details = outcome[sent].details
      /\ \A o \in DrawerOps : o # sent => outcome'[o] = outcome[o]
  BY <1>1, Replies DEF DrawerComplete, DInv, DrawerTypes, OutcomeRow
<1>4. DrawerTypes'
  BY <1>1, <1>2, <1>3 DEF DInv, DrawerTypes
<1>5. Copies'
  BY <1>1, <1>2, <1>3, CopyKept DEF DInv, Adding, Deleting
<1>6. RunsApart'
  <2>1. \A r \in Runs : Seen(r)' => Seen(r)
    BY <1>1, <1>2, <1>3, RunFacts DEF Seen
  <2>2. QED
    BY <1>1, <1>2, <1>3, <2>1, RunsKept DEF Storing
<1>7. Witnessed'
  BY <1>1, <1>2, <1>3 DEF DInv, Witnessed, NothingFabricated, Busy
<1>8. Removals'
  BY <1>1, <1>2, <1>3 DEF DInv, Removals
<1>9. OneRow'
  BY <1>1, <1>2, <1>3 DEF DInv, OneRow
<1>10. Begins'
  BY <1>1, <1>2, <1>3, DrawerAssumption DEF DInv, Begins
<1>11. others' = 0 => Tells'
  <2>1. SUFFICES ASSUME others = 0 PROVE Tells'
    BY <1>2
  <2>2. Landed(sent)
    BY <1>1, <2>1 DEF DInv, Tells
  <2>3. \A r \in Runs : ingest'[r] = ingest[r]
    BY <1>2
  <2>4. outcome'[sent].status = "completed" /\ outcome'[sent].details = outcome[sent].details
    BY <1>1, <1>3
  <2>5. QED
    BY <1>1, <1>2, <1>3, <2>1, <2>2, <2>4 DEF DInv, Tells, Landed
<1>12. QED
  BY <1>4, <1>5, <1>6, <1>7, <1>8, <1>9, <1>10, <1>11 DEF DInv

LEMMA BeginDrawer ==
  ASSUME DInv, NEW s \in DrawerSlots, DrawerBegin(s)
  PROVE  DInv'
<1>1. request[s].pc = "beginning"
      /\ Busy(s) /\ request[s].op = sent /\ sent \in DrawerOps /\ OpOf(s) = sent
  BY DEF DInv, Copies, Busy, OpOf, Is, Adding, Deleting, DrawerBegin
<1>2. UNCHANGED <<sent, acked, rows, ingest, logged, up, others, drawerFaults, witnessed, removed,
               overlapped>>
  BY DEF DrawerBegin, OnlyRequests
<1>3. /\ request' \in [DrawerSlots -> DrawerRequest]
      /\ \A t \in DrawerSlots : t # s => request'[t] = request[t]
      /\ request'[s].op = request[s].op
      /\ request'[s].pc \in {"looking", "recovering", "checking", "answering"}
      /\ request'[s].pc = "looking" <=> request'[s].pc \in Deleting
      /\ request'[s].pc = "looking" => sent \notin DrawerAdds
      /\ request'[s].pc \in {"recovering", "checking"} => sent \in DrawerAdds
      /\ request'[s].pc = "looking" => request'[s].known = outcome[sent].details
      /\ request'[s].known \in {request[s].known, outcome[sent].details}
      /\ request'[s].found = request[s].found
      /\ outcome' \in [DrawerOps -> OutcomeRow]
      /\ outcome'[sent].status = "completed" <=> outcome[sent].status = "completed"
      /\ outcome'[sent].status # "none"
      /\ request'[s].pc = "answering" => outcome[sent].status = "completed"
      /\ outcome'[sent].details = outcome[sent].details
      /\ \A o \in DrawerOps : o # sent => outcome'[o] = outcome[o]
  <2>1. CASE outcome[sent].status = "completed"
    <3>1. Reply(s, TRUE) /\ UNCHANGED outcome
      BY <1>1, <2>1 DEF DrawerBegin
    <3>2. QED
      BY <2>1, <3>1, Replies DEF DInv, DrawerTypes, Deleting
  <2>2. CASE outcome[sent].status # "completed"
    <3>1. PICK x \in {"looking", "recovering", "checking"} :
            /\ request' = [request EXCEPT ![s].pc = x, ![s].known = outcome[sent].details]
            /\ x = "looking" <=> sent \notin DrawerAdds
      BY <1>1, <2>2 DEF DrawerBegin
    <3>2. outcome' = [outcome EXCEPT ![sent].status = "pending"]
      BY <1>1, <2>2 DEF DrawerBegin
    <3> DEFINE row == [request[s] EXCEPT !.pc = x, !.known = outcome[sent].details]
    <3>3. request' = [request EXCEPT ![s] = row]
      BY <3>1 DEF DInv, DrawerTypes
    <3>4. request[s] \in DrawerRequest /\ outcome[sent] \in OutcomeRow
      BY <1>1 DEF DInv, DrawerTypes
    <3>5. row \in DrawerRequest /\ row.pc = x /\ row.op = request[s].op
          /\ row.known = outcome[sent].details /\ row.found = request[s].found
      BY <3>4 DEF DrawerRequest, OutcomeRow
    <3> HIDE DEF row
    <3>6. request' \in [DrawerSlots -> DrawerRequest] /\ request'[s] = row
          /\ \A t \in DrawerSlots : t # s => request'[t] = request[t]
      BY <3>3, <3>5, Becomes DEF DInv
    <3>7. /\ outcome' \in [DrawerOps -> OutcomeRow]
          /\ outcome'[sent].status = "pending" /\ outcome'[sent].details = outcome[sent].details
          /\ \A o \in DrawerOps : o # sent => outcome'[o] = outcome[o]
      BY <1>1, <3>2 DEF DInv, DrawerTypes, OutcomeRow
    <3>8. QED
      BY <2>2, <3>1, <3>5, <3>6, <3>7 DEF Deleting
  <2>3. QED
    BY <2>1, <2>2
<1>4. DrawerTypes'
  BY <1>1, <1>2, <1>3 DEF DInv, DrawerTypes
<1>5. Copies'
  BY <1>1, <1>2, <1>3, CopyKept DEF DInv, Adding, Deleting
<1>6. RunsApart'
  <2>1. \A r \in Runs : Seen(r)' => Seen(r)
    BY <1>1, <1>2, <1>3, RunFacts DEF Seen
  <2>2. QED
    BY <1>1, <1>2, <1>3, <2>1, RunsKept DEF Storing
<1>7. Witnessed'
  BY <1>1, <1>2, <1>3 DEF DInv, Witnessed, NothingFabricated, Busy
<1>8. Removals'
  BY <1>1, <1>2, <1>3 DEF DInv, Removals
<1>9. OneRow'
  BY <1>1, <1>2, <1>3 DEF DInv, OneRow
<1>10. Begins'
  <2>1. \A o \in DrawerOps : o > sent => outcome'[o].status = "none"
    BY <1>1, <1>3, DrawerAssumption DEF DInv, Begins, DrawerOps
  <2>2. \A o \in DrawerOps : outcome'[o].status = "none" => outcome'[o].details = NoRun
    BY <1>3 DEF DInv, Begins
  <2>3. \A t \in DrawerSlots :
          request'[t].pc = "answering" /\ request'[t].ok => outcome'[sent].status = "completed"
    BY <1>3 DEF DInv, Begins
  <2>4. QED
    BY <1>2, <1>3, <2>1, <2>2, <2>3 DEF DInv, Begins
<1>11. others' = 0 => Tells'
  <2>1. AnyCommitted' => AnyCommitted
    BY <1>2, <1>3 DEF AnyCommitted
  <2>2. QED
    BY <1>1, <1>2, <1>3, <2>1 DEF DInv, Begins, Tells, Landed
<1>12. QED
  BY <1>4, <1>5, <1>6, <1>7, <1>8, <1>9, <1>10, <1>11 DEF DInv

LEMMA LookUpDrawer ==
  ASSUME DInv, NEW s \in DrawerSlots, LookUp(s)
  PROVE  DInv'
<1>1. request[s].pc = "looking" /\ sent \notin DrawerAdds
      /\ Busy(s) /\ request[s].op = sent /\ sent \in DrawerOps /\ OpOf(s) = sent
  BY DEF DInv, Copies, Busy, OpOf, Is, Adding, Deleting, LookUp
<1>2. UNCHANGED <<sent, acked, outcome, rows, ingest, logged, up, others, drawerFaults, removed,
               overlapped>>
  BY DEF LookUp, OnlyRequests
<1>3. /\ request' \in [DrawerSlots -> DrawerRequest]
      /\ \A t \in DrawerSlots : t # s => request'[t] = request[t]
      /\ request'[s].op = request[s].op /\ request'[s].run = request[s].run
      /\ request'[s].pc \in {"rereading", "logging", "capturing", "deleting"}
      /\ request'[s].known = request[s].known
      /\ witnessed' \in {witnessed, witnessed \cup {sent}}
      /\ request'[s].found \in rows \/ request'[s].found = request[s].found
      /\ request'[s].pc \in {"capturing", "deleting"} => request'[s].found \in rows
      /\ request'[s].pc = "capturing" => request[s].known = NoRun
      /\ request'[s].pc = "rereading" => rows = {}
      /\ request'[s].pc = "logging" =>
           request[s].known # NoRun /\ \A r \in rows : r = request'[s].found => r # request[s].known
      /\ request'[s].pc = "logging" => rows = {} \/ request'[s].found \in rows
      /\ request'[s].pc = "deleting" => request[s].known \in rows
      /\ request'[s].pc \in {"capturing", "deleting", "logging"} =>
           sent \in witnessed' \/ request[s].known # NoRun
  <2>1. CASE rows = {}
    <3>1. PICK x \in {"rereading", "logging"} : GoTo(s, x) /\ (x = "logging" => request[s].known # NoRun)
      BY <2>1 DEF LookUp
    <3>2. UNCHANGED witnessed
      BY <2>1 DEF LookUp
    <3>3. QED
      BY <2>1, <3>1, <3>2, Goes DEF DInv
  <2>2. CASE rows # {}
    <3>1. PICK r \in rows, x \in {"capturing", "deleting", "logging"} :
            /\ request' = [request EXCEPT ![s].found = r, ![s].pc = x]
            /\ x = "capturing" => request[s].known = NoRun
            /\ x = "deleting" => request[s].known = r
            /\ x = "logging" => request[s].known # NoRun /\ request[s].known # r
      BY <2>2 DEF LookUp
    <3>2. witnessed' = witnessed \cup {sent}
      BY <1>1, <2>2 DEF LookUp
    <3> DEFINE row == [request[s] EXCEPT !.found = r, !.pc = x]
    <3>3. request' = [request EXCEPT ![s] = row]
      BY <3>1 DEF DInv, DrawerTypes
    <3>4. request[s] \in DrawerRequest /\ r \in Runs
      BY DEF DInv, DrawerTypes
    <3>5. row \in DrawerRequest /\ row.pc = x /\ row.op = request[s].op /\ row.run = request[s].run
          /\ row.known = request[s].known /\ row.found = r
      BY <3>4 DEF DrawerRequest
    <3> HIDE DEF row
    <3>6. request' \in [DrawerSlots -> DrawerRequest] /\ request'[s] = row
          /\ \A t \in DrawerSlots : t # s => request'[t] = request[t]
      BY <3>3, <3>5, Becomes DEF DInv
    <3>7. QED
      BY <3>1, <3>2, <3>5, <3>6
  <2>3. QED
    BY <2>1, <2>2
<1>4. DrawerTypes'
  BY <1>1, <1>2, <1>3 DEF DInv, DrawerTypes
<1>5. Copies'
  BY <1>1, <1>2, <1>3, CopyKept DEF DInv, Adding, Deleting, DrawerTypes
<1>6. RunsApart'
  <2>1. \A r \in Runs : Seen(r)' => Seen(r)
    BY <1>1, <1>2, <1>3, RunFacts DEF Seen
  <2>2. QED
    BY <1>1, <1>2, <1>3, <2>1, RunsKept DEF Storing
<1>7. Witnessed'
  BY <1>1, <1>2, <1>3 DEF DInv, Witnessed, NothingFabricated, Busy
<1>8. Removals'
  <2> SUFFICES ASSUME ~overlapped PROVE Removals'
    BY <1>2 DEF Removals
  <2>1. request[s].known = outcome[sent].details
    BY <1>1 DEF DInv, Removals
  <2>2. request'[s].pc \in {"capturing", "deleting"} => removed[sent] = 0
    BY <1>1, <1>3, <2>1, RunFacts DEF DInv, Removals
  <2>3. request'[s].pc = "deleting" => outcome[sent].details \in Runs
    BY <1>3, <2>1 DEF DInv, DrawerTypes
  <2>4. QED
    BY <1>1, <1>2, <1>3, <2>1, <2>2, <2>3 DEF DInv, Removals
<1>9. OneRow'
  BY <1>1, <1>2, <1>3 DEF DInv, OneRow
<1>10. Begins'
  BY <1>1, <1>2, <1>3, DrawerAssumption DEF DInv, Begins
<1>11. others' = 0 => Tells'
  <2>1. SUFFICES ASSUME others = 0 PROVE Tells'
    BY <1>2
  <2>2. AnyCommitted' => AnyCommitted
    BY <1>2 DEF AnyCommitted
  <2>3. request[s].known # NoRun => rows \subseteq {request[s].known}
    BY <1>1, <2>1 DEF DInv, Tells
  <2>4. request'[s].pc = "logging" => Landed(sent)
    BY <1>1, <1>3, <2>3 DEF Landed
  <2>5. request'[s].pc = "capturing" => rows \subseteq {request'[s].found}
    BY <1>3, <2>1 DEF DInv, OneRow
  <2>6. QED
    BY <1>2, <1>3, <2>1, <2>2, <2>4, <2>5, TellsKept
<1>12. QED
  BY <1>4, <1>5, <1>6, <1>7, <1>8, <1>9, <1>10, <1>11 DEF DInv

LEMMA CaptureDrawer ==
  ASSUME DInv, NEW s \in DrawerSlots, Capture(s)
  PROVE  DInv'
<1>1. request[s].pc = "capturing" /\ sent \notin DrawerAdds /\ request[s].found \in Runs
      /\ Busy(s) /\ request[s].op = sent /\ sent \in DrawerOps /\ OpOf(s) = sent
  BY DEF DInv, Copies, Busy, OpOf, Is, Adding, Deleting, Capture
<1>2. UNCHANGED <<sent, acked, rows, ingest, logged, up, others, drawerFaults, witnessed, removed,
               overlapped>>
  BY DEF Capture, OnlyRequests
<1>3. /\ request' \in [DrawerSlots -> DrawerRequest]
      /\ \A t \in DrawerSlots : t # s => request'[t] = request[t]
      /\ request'[s].pc \in {"deleting", "idle"}
      /\ request'[s].pc = "deleting" =>
           request'[s].op = request[s].op /\ request'[s].known = request[s].known
      /\ request'[s].pc = "idle" => request'[s].op = 0
      /\ request'[s].found \in {request[s].found, NoRun}
      /\ outcome' \in [DrawerOps -> OutcomeRow]
      /\ \A o \in DrawerOps : o # sent => outcome'[o] = outcome[o]
      /\ outcome'[sent].status = outcome[sent].status
      /\ outcome'[sent].details \in {outcome[sent].details, request[s].found}
      /\ request'[s].pc = "deleting" => outcome'[sent].details = request[s].found
      /\ request'[s].pc = "idle" => outcome' = outcome
  <2>1. CASE outcome[sent].status = "pending"
    <3>1. GoTo(s, "deleting") /\ outcome' = [outcome EXCEPT ![sent].details = request[s].found]
      BY <1>1, <2>1 DEF Capture
    <3>2. /\ outcome' \in [DrawerOps -> OutcomeRow]
          /\ \A o \in DrawerOps : o # sent => outcome'[o] = outcome[o]
          /\ outcome'[sent].status = outcome[sent].status
          /\ outcome'[sent].details = request[s].found
      BY <1>1, <3>1 DEF DInv, DrawerTypes, OutcomeRow
    <3>3. QED
      BY <3>1, <3>2, Goes DEF DInv
  <2>2. CASE outcome[sent].status # "pending"
    <3>1. request' = [request EXCEPT ![s] = NoRequest] /\ UNCHANGED outcome
      BY <1>1, <2>2 DEF Capture
    <3>2. QED
      BY <3>1, Drops DEF DInv, DrawerTypes
  <2>3. QED
    BY <2>1, <2>2
<1>4. DrawerTypes'
  BY <1>1, <1>2, <1>3 DEF DInv, DrawerTypes
<1>5. Copies'
  BY <1>1, <1>2, <1>3, CopyKept DEF DInv, Adding, Deleting
<1>6. RunsApart'
  <2>1. \A r \in Runs : Seen(r)' => Seen(r)
    BY <1>1, <1>2, <1>3, RunFacts DEF Seen
  <2>2. QED
    BY <1>1, <1>2, <1>3, <2>1, RunsKept DEF Storing
<1>7. Witnessed'
  BY <1>1, <1>2, <1>3 DEF DInv, Witnessed, NothingFabricated, Busy
<1>8. Removals'
  <2> SUFFICES ASSUME ~overlapped PROVE Removals'
    BY <1>2 DEF Removals
  <2>1. removed[sent] = 0
    BY <1>1 DEF DInv, Removals
  <2>2. \A t \in DrawerSlots : t # s => request'[t].pc = "idle"
    BY <1>1, <1>3 DEF DInv, Copies, Busy
  <2>3. QED
    BY <1>1, <1>2, <1>3, <2>1, <2>2 DEF DInv, Removals
<1>9. OneRow'
  BY <1>1, <1>2, <1>3 DEF DInv, OneRow
<1>10. Begins'
  BY <1>1, <1>2, <1>3, DrawerAssumption DEF DInv, Begins
<1>11. others' = 0 => Tells'
  <2>1. AnyCommitted' => AnyCommitted
    BY <1>2, <1>3 DEF AnyCommitted
  <2>2. QED
    BY <1>1, <1>2, <1>3, <2>1 DEF DInv, Begins, Tells, Landed
<1>12. QED
  BY <1>4, <1>5, <1>6, <1>7, <1>8, <1>9, <1>10, <1>11 DEF DInv

\* A run that ends belongs to one request, and no longer to that.
LEMMA RunEnds ==
  ASSUME DInv, NEW s \in DrawerSlots, request[s].pc \in Storing, NEW x \in {"failed", "committed"},
         ingest' = [ingest EXCEPT ![request[s].run] = x],
         \A t \in DrawerSlots : t # s => request'[t] = request[t],
         request'[s].pc \notin Storing,
         \A r \in Runs : Seen(r)' => Seen(r)
  PROVE  /\ RunsApart'
         /\ ingest' \in [Runs -> {"none", "pending", "stale", "committed", "failed"}]
<1>1. request[s].run \in Runs
  BY DEF DInv, RunsApart
<1>2. /\ ingest' \in [Runs -> {"none", "pending", "stale", "committed", "failed"}]
      /\ ingest'[request[s].run] = x
      /\ \A r \in Runs : r # request[s].run => ingest'[r] = ingest[r]
  BY <1>1 DEF DInv, DrawerTypes
<1>3. ASSUME NEW t \in DrawerSlots, request'[t].pc \in Storing
      PROVE  t # s /\ request'[t] = request[t] /\ request[t].run # request[s].run
             /\ request[t].run \in Runs /\ ingest[request[t].run] = "pending"
  BY <1>3 DEF DInv, RunsApart
<1>4. \A t \in DrawerSlots :
        request'[t].pc \in Storing => request'[t].run \in Runs /\ ingest'[request'[t].run] = "pending"
  BY <1>2, <1>3
<1>5. \A t, u \in DrawerSlots : t # u /\ request'[t].pc \in Storing /\ request'[u].pc \in Storing =>
        request'[t].run # request'[u].run
  BY <1>3 DEF DInv, RunsApart
<1>6. \A r \in Runs : Seen(r)' =>
        /\ ingest'[r] # "none"
        /\ \A t \in DrawerSlots : request'[t].pc \in {"existing", "adding"} => request'[t].run # r
  <2>1. \A t \in DrawerSlots : request'[t].pc \in {"existing", "adding"} => request'[t].pc \in Storing
    BY DEF Storing
  <2>2. QED
    BY <1>2, <1>3, <2>1 DEF DInv, RunsApart
<1>7. QED
  BY <1>2, <1>4, <1>5, <1>6 DEF RunsApart

LEMMA CheckIdDrawer ==
  ASSUME DInv, NEW s \in DrawerSlots, CheckExisting(s)
  PROVE  DInv'
<1>1. request[s].pc = "existing" /\ sent \in DrawerAdds
      /\ Busy(s) /\ request[s].op = sent /\ sent \in DrawerOps /\ OpOf(s) = sent
  BY DEF DInv, Copies, Busy, OpOf, Is, Adding, Deleting, CheckExisting
<1>2. UNCHANGED <<sent, acked, outcome, rows, logged, up, others, drawerFaults, witnessed,
               removed, overlapped>>
  BY DEF CheckExisting, OnlyRequests
<1>3. /\ request' \in [DrawerSlots -> DrawerRequest]
      /\ \A t \in DrawerSlots : t # s => request'[t] = request[t]
      /\ request'[s].pc \in {"adding", "idle"}
      /\ request'[s].pc = "idle" => request'[s].op = 0
      /\ request'[s].pc # "idle" =>
           request'[s].op = request[s].op /\ request'[s].known = request[s].known
      /\ request'[s].found \in {request[s].found, NoRun}
      /\ request'[s].pc = "adding" => rows = {} /\ request'[s].run = request[s].run /\ ingest' = ingest
      /\ request'[s].pc = "idle" => ingest' = [ingest EXCEPT ![request[s].run] = "failed"]
  <2>1. CASE rows = {}
    <3>1. GoTo(s, "adding") /\ UNCHANGED ingest
      BY <2>1 DEF CheckExisting
    <3>2. QED
      BY <2>1, <3>1, Goes DEF DInv
  <2>2. CASE rows # {}
    <3>1. /\ request' = [request EXCEPT ![s] = NoRequest]
          /\ ingest' = [ingest EXCEPT ![request[s].run] = "failed"]
      BY <2>2 DEF CheckExisting
    <3>2. QED
      BY <3>1, Drops DEF DInv
  <2>3. QED
    BY <2>1, <2>2
<1>4. DrawerTypes'
  BY <1>1, <1>2, <1>3 DEF DInv, DrawerTypes
<1>5. Copies'
  BY <1>1, <1>2, <1>3, CopyKept DEF DInv, Adding, Deleting
<1>6. RunsApart'
  <2>1. \A r \in Runs : Seen(r)' => Seen(r)
    BY <1>1, <1>2, <1>3, RunFacts DEF Seen
  <2>2. CASE request'[s].pc = "adding"
    BY <1>1, <1>2, <1>3, <2>1, <2>2, RunsKept DEF Storing
  <2>3. CASE request'[s].pc = "idle"
    BY <1>1, <1>3, <2>1, <2>3, RunEnds DEF Storing
  <2>4. QED
    BY <1>3, <2>2, <2>3
<1>7. Witnessed'
  BY <1>1, <1>2, <1>3 DEF DInv, Witnessed, NothingFabricated, Busy
<1>8. Removals'
  BY <1>1, <1>2, <1>3 DEF DInv, Removals
<1>9. OneRow'
  BY <1>1, <1>2, <1>3 DEF DInv, OneRow
<1>10. Begins'
  BY <1>1, <1>2, <1>3, DrawerAssumption DEF DInv, Begins
<1>11. others' = 0 => Tells'
  <2>1. SUFFICES ASSUME others = 0 PROVE Tells'
    BY <1>2
  <2>2. \A r \in Runs : ingest'[r] = "committed" => ingest[r] = "committed"
    BY <1>3 DEF DInv, DrawerTypes
  <2>3. AnyCommitted' => AnyCommitted
    BY <2>2 DEF AnyCommitted
  <2>4. QED
    BY <1>2, <1>3, <2>1, <2>3, TellsKept
<1>12. QED
  BY <1>4, <1>5, <1>6, <1>7, <1>8, <1>9, <1>10, <1>11 DEF DInv

LEMMA AddRowDrawer ==
  ASSUME DInv, DrawerOverlapping \cap DrawerAdds = {}, NEW s \in DrawerSlots, AddRow(s)
  PROVE  DInv'
<1>1. request[s].pc = "adding" /\ sent \in DrawerAdds
      /\ Busy(s) /\ request[s].op = sent /\ sent \in DrawerOps /\ OpOf(s) = sent
  BY DEF DInv, Copies, Busy, OpOf, Is, Adding, Deleting, AddRow
<1>2. UNCHANGED <<sent, acked, outcome, ingest, logged, up, others, drawerFaults, removed,
               overlapped>>
  BY DEF AddRow, OnlyRequests
<1>3. /\ request' \in [DrawerSlots -> DrawerRequest]
      /\ \A t \in DrawerSlots : t # s => request'[t] = request[t]
      /\ request'[s].op = request[s].op /\ request'[s].run = request[s].run
      /\ request'[s].pc = "committing" /\ request'[s].known = request[s].known
      /\ request'[s].found = request[s].found
      /\ rows' = rows \cup {request[s].run} /\ witnessed' = witnessed \cup {sent}
      /\ request[s].run \in Runs
  <2>1. request[s].run \in Runs
    BY <1>1 DEF DInv, RunsApart, Storing
  <2>2. QED
    BY <1>1, <2>1, Goes DEF AddRow, DInv
<1>4. DrawerTypes'
  BY <1>1, <1>2, <1>3 DEF DInv, DrawerTypes
<1>5. Copies'
  BY <1>1, <1>2, <1>3, CopyKept DEF DInv, Adding, Deleting
<1>6. RunsApart'
  <2>1. \A r \in Runs : Seen(r)' => Seen(r) \/ r = request[s].run
    BY <1>1, <1>2, <1>3 DEF Seen
  <2>2. request[s].pc \in Storing /\ ingest[request[s].run] = "pending"
    BY <1>1 DEF DInv, RunsApart, Storing
  <2>3. \A t \in DrawerSlots :
          request'[t].pc \in Storing => request[t].pc \in Storing /\ request'[t].run = request[t].run
    BY <1>3, <2>2
  <2>4. \A t \in DrawerSlots : request'[t].pc \in {"existing", "adding"} =>
          t # s /\ request'[t] = request[t] /\ request[t].pc \in Storing
    BY <1>3 DEF Storing
  <2>5. \A t \in DrawerSlots :
          request'[t].pc \in Storing => request'[t].run \in Runs /\ ingest'[request'[t].run] = "pending"
    BY <1>2, <2>3 DEF DInv, RunsApart
  <2>6. \A t, u \in DrawerSlots : t # u /\ request'[t].pc \in Storing /\ request'[u].pc \in Storing =>
          request'[t].run # request'[u].run
    BY <2>3 DEF DInv, RunsApart
  <2>7. \A r \in Runs : Seen(r)' =>
          /\ ingest'[r] # "none"
          /\ \A t \in DrawerSlots : request'[t].pc \in {"existing", "adding"} => request'[t].run # r
    BY <1>2, <1>3, <2>1, <2>2, <2>4 DEF DInv, RunsApart
  <2>8. QED
    BY <2>5, <2>6, <2>7 DEF RunsApart
<1>7. Witnessed'
  BY <1>1, <1>2, <1>3 DEF DInv, Witnessed, NothingFabricated, Busy
<1>8. Removals'
  <2>1. ~Seen(request[s].run)
    BY <1>1, <1>3 DEF DInv, RunsApart
  <2>2. \A o \in DrawerOps : outcome[o].details \in rows' => outcome[o].details \in rows
    BY <1>3, <2>1 DEF Seen
  <2>3. QED
    BY <1>1, <1>2, <1>3, <2>2 DEF DInv, Removals
<1>9. OneRow'
  <2>1. \A t \in DrawerSlots : t # s => ~Busy(t)
    BY <1>1 DEF DInv, Copies
  <2>2. \A t \in DrawerSlots : request'[t].pc # "adding"
    BY <1>3, <2>1 DEF Busy
  <2>3. others = 0 => rows' = {request[s].run}
    BY <1>1, <1>3 DEF DInv, OneRow
  <2>4. QED
    BY <1>2, <2>2, <2>3 DEF OneRow
<1>10. Begins'
  BY <1>1, <1>2, <1>3, DrawerAssumption DEF DInv, Begins
<1>11. others' = 0 => Tells'
  <2>1. SUFFICES ASSUME others = 0 PROVE Tells'
    BY <1>2
  <2>2. rows' # {}
    BY <1>3
  <2>3. outcome[sent].status # "none"
    BY <1>1 DEF DInv, Begins
  <2>4. \A t \in DrawerSlots : t # s => ~Busy(t)
    BY <1>1 DEF DInv, Copies
  <2>5. QED
    BY <1>1, <1>2, <1>3, <2>2, <2>3, <2>4 DEF Tells, Landed, Busy
<1>12. QED
  BY <1>4, <1>5, <1>6, <1>7, <1>8, <1>9, <1>10, <1>11 DEF DInv

LEMMA CommitDrawer ==
  ASSUME DInv, DrawerOverlapping \cap DrawerAdds = {}, NEW s \in DrawerSlots, CommitRun(s)
  PROVE  DInv'
<1>1. request[s].pc = "committing" /\ sent \in DrawerAdds
      /\ Busy(s) /\ request[s].op = sent /\ sent \in DrawerOps /\ OpOf(s) = sent
  BY DEF DInv, Copies, Busy, OpOf, Is, Adding, Deleting, CommitRun
<1>2. UNCHANGED <<sent, acked, outcome, rows, logged, up, others, witnessed, removed, overlapped>>
  BY DEF CommitRun, OnlyRequests
<1>3. /\ request' \in [DrawerSlots -> DrawerRequest]
      /\ \A t \in DrawerSlots : t # s => request'[t] = request[t]
      /\ request'[s].pc \in {"logging", "idle"}
      /\ request'[s].pc = "idle" => request'[s].op = 0
      /\ request'[s].pc # "idle" =>
           request'[s].op = request[s].op /\ request'[s].known = request[s].known
      /\ request'[s].found \in {request[s].found, NoRun}
      /\ \E x \in {"failed", "committed"} : ingest' = [ingest EXCEPT ![request[s].run] = x]
      /\ drawerFaults' \in 0..MaxDrawerFaults
  <2>1. drawerFaults' \in 0..MaxDrawerFaults
    BY DrawerAssumption DEF CommitRun, DInv, DrawerTypes
  <2>2. CASE GoTo(s, "logging") /\ ingest' = [ingest EXCEPT ![request[s].run] = "committed"]
    BY <2>1, <2>2, Goes DEF DInv
  <2>3. CASE /\ ingest' = [ingest EXCEPT ![request[s].run] = "failed"]
             /\ request' = [request EXCEPT ![s] = NoRequest]
    BY <2>1, <2>3, Drops DEF DInv
  <2>4. QED
    BY <2>2, <2>3 DEF CommitRun
<1>4. DrawerTypes'
  BY <1>1, <1>2, <1>3 DEF DInv, DrawerTypes
<1>5. Copies'
  BY <1>1, <1>2, <1>3, CopyKept DEF DInv, Adding, Deleting
<1>6. RunsApart'
  <2>1. \A r \in Runs : Seen(r)' => Seen(r)
    BY <1>1, <1>2, <1>3, RunFacts DEF Seen
  <2>2. QED
    BY <1>1, <1>3, <2>1, RunEnds DEF Storing
<1>7. Witnessed'
  BY <1>1, <1>2, <1>3 DEF DInv, Witnessed, NothingFabricated, Busy
<1>8. Removals'
  BY <1>1, <1>2, <1>3 DEF DInv, Removals
<1>9. OneRow'
  BY <1>1, <1>2, <1>3 DEF DInv, OneRow
<1>10. Begins'
  BY <1>1, <1>2, <1>3, DrawerAssumption DEF DInv, Begins
<1>11. others' = 0 => Tells'
  <2>1. SUFFICES ASSUME others = 0 PROVE Tells'
    BY <1>2
  <2>2. rows' # {}
    BY <1>1, <1>2, <2>1 DEF DInv, Tells
  <2>3. outcome[sent].status # "none"
    BY <1>1 DEF DInv, Begins
  <2>4. \A t \in DrawerSlots : t # s => ~Busy(t)
    BY <1>1 DEF DInv, Copies
  <2>5. QED
    BY <1>1, <1>2, <1>3, <2>2, <2>3, <2>4 DEF Tells, Landed, Busy
<1>12. QED
  BY <1>4, <1>5, <1>6, <1>7, <1>8, <1>9, <1>10, <1>11 DEF DInv

LEMMA FailDrawer ==
  ASSUME DInv, NEW s \in DrawerSlots, FailCall(s)
  PROVE  DInv'
<1>1. request[s].pc \notin {"idle", "answering", "committing"}
      /\ Busy(s) /\ request[s].op = sent /\ sent \in DrawerOps /\ OpOf(s) = sent
  BY DEF DInv, Copies, Busy, OpOf, Is, Adding, Deleting, FailCall
<1>2. UNCHANGED <<sent, acked, outcome, rows, logged, up, others, witnessed, removed, overlapped>>
  BY DEF FailCall, OnlyRequests
<1>3. /\ request' \in [DrawerSlots -> DrawerRequest]
      /\ \A t \in DrawerSlots : t # s => request'[t] = request[t]
      /\ request'[s].pc = "idle" /\ request'[s].op = 0 /\ request'[s].found = NoRun
      /\ drawerFaults' \in 0..MaxDrawerFaults
      /\ ingest' \in [Runs -> {"none", "pending", "stale", "committed", "failed"}]
  <2>1. drawerFaults' \in 0..MaxDrawerFaults
    BY DrawerAssumption DEF FailCall, DInv, DrawerTypes
  <2>2. ingest' \in [Runs -> {"none", "pending", "stale", "committed", "failed"}]
    BY DEF FailCall, DInv, DrawerTypes
  <2>3. QED
    BY <2>1, <2>2, Drops DEF FailCall, DInv
<1>4. DrawerTypes'
  BY <1>1, <1>2, <1>3 DEF DInv, DrawerTypes
<1>5. Copies'
  BY <1>1, <1>2, <1>3, CopyKept DEF DInv, Adding, Deleting
<1>6. RunsApart'
  <2>1. \A r \in Runs : Seen(r)' => Seen(r)
    BY <1>1, <1>2, <1>3, RunFacts DEF Seen
  <2>2. CASE request[s].pc \in {"existing", "adding"}
    BY <1>1, <1>3, <2>1, <2>2, RunEnds DEF Storing, FailCall
  <2>3. CASE request[s].pc \notin {"existing", "adding"}
    <3>1. UNCHANGED ingest
      BY <2>3 DEF FailCall
    <3>2. QED
      BY <1>1, <1>3, <2>1, <3>1, RunsKept DEF Storing
  <2>4. QED
    BY <2>2, <2>3
<1>7. Witnessed'
  BY <1>1, <1>2, <1>3 DEF DInv, Witnessed, NothingFabricated, Busy
<1>8. Removals'
  BY <1>1, <1>2, <1>3 DEF DInv, Removals
<1>9. OneRow'
  BY <1>1, <1>2, <1>3 DEF DInv, OneRow
<1>10. Begins'
  BY <1>1, <1>2, <1>3, DrawerAssumption DEF DInv, Begins
<1>11. others' = 0 => Tells'
  <2>1. SUFFICES ASSUME others = 0 PROVE Tells'
    BY <1>2
  <2>2. \A r \in Runs : ingest'[r] = "committed" => ingest[r] = "committed"
    BY DEF DInv, DrawerTypes, FailCall
  <2>3. AnyCommitted' => AnyCommitted
    BY <2>2 DEF AnyCommitted
  <2>4. QED
    BY <1>2, <1>3, <2>1, <2>3, TellsKept
<1>12. QED
  BY <1>4, <1>5, <1>6, <1>7, <1>8, <1>9, <1>10, <1>11 DEF DInv

LEMMA CreateDrawer ==
  ASSUME DInv, NEW s \in DrawerSlots, CreateRun(s)
  PROVE  DInv'
<1>1. request[s].pc = "creating" /\ sent \in DrawerAdds
      /\ Busy(s) /\ request[s].op = sent /\ sent \in DrawerOps /\ OpOf(s) = sent
  BY DEF DInv, Copies, Busy, OpOf, Is, Adding, Deleting, CreateRun
<1>2. UNCHANGED <<sent, acked, outcome, rows, logged, up, others, drawerFaults, witnessed,
               removed, overlapped>>
  BY DEF CreateRun, OnlyRequests
<1>3. /\ request' \in [DrawerSlots -> DrawerRequest]
      /\ \A t \in DrawerSlots : t # s => request'[t] = request[t]
      /\ request'[s].op = request[s].op
      /\ request'[s].pc = "existing" /\ request'[s].known = request[s].known
      /\ request'[s].found = request[s].found
      /\ \E r \in Runs : /\ request'[s].run = r /\ ingest[r] = "none"
                         /\ ingest' = [ingest EXCEPT ![r] = "pending"]
  <2>1. PICK r \in Runs :
          /\ request' = [request EXCEPT ![s].pc = "existing", ![s].run = r]
          /\ ingest[r] = "none" /\ ingest' = [ingest EXCEPT ![r] = "pending"]
    BY DEF CreateRun, NewRuns
  <2> DEFINE row == [request[s] EXCEPT !.pc = "existing", !.run = r]
  <2>2. request' = [request EXCEPT ![s] = row]
    BY <2>1 DEF DInv, DrawerTypes
  <2>3. request[s] \in DrawerRequest
    BY DEF DInv, DrawerTypes
  <2>4. row \in DrawerRequest /\ row.pc = "existing" /\ row.op = request[s].op /\ row.run = r
        /\ row.known = request[s].known /\ row.found = request[s].found
    BY <2>3 DEF DrawerRequest
  <2> HIDE DEF row
  <2>5. request' \in [DrawerSlots -> DrawerRequest] /\ request'[s] = row
        /\ \A t \in DrawerSlots : t # s => request'[t] = request[t]
    BY <2>2, <2>4, Becomes DEF DInv
  <2>6. QED
    BY <2>1, <2>4, <2>5
<1>4. DrawerTypes'
  BY <1>1, <1>2, <1>3 DEF DInv, DrawerTypes
<1>5. Copies'
  BY <1>1, <1>2, <1>3, CopyKept DEF DInv, Adding, Deleting
<1>6. RunsApart'
  <2>1. PICK r \in Runs : /\ request'[s].run = r /\ ingest[r] = "none"
                          /\ ingest' = [ingest EXCEPT ![r] = "pending"]
    BY <1>3
  <2>2. ingest'[r] = "pending" /\ \A q \in Runs : q # r => ingest'[q] = ingest[q]
    BY <2>1 DEF DInv, DrawerTypes
  <2>3. \A q \in Runs : Seen(q)' => Seen(q)
    BY <1>1, <1>2, <1>3 DEF Seen
  <2>4. \A q \in Runs : Seen(q)' => q # r
    BY <2>1, <2>3 DEF DInv, RunsApart
  <2>5. \A t \in DrawerSlots : t # s /\ request'[t].pc \in Storing =>
          request'[t] = request[t] /\ request'[t].run \in Runs /\ request'[t].run # r
          /\ ingest[request'[t].run] = "pending"
    BY <1>3, <2>1 DEF DInv, RunsApart
  <2>6. \A t \in DrawerSlots :
          request'[t].pc \in Storing => request'[t].run \in Runs /\ ingest'[request'[t].run] = "pending"
    BY <2>1, <2>2, <2>5
  <2>7. ASSUME NEW t \in DrawerSlots, NEW u \in DrawerSlots, t # u, request'[t].pc \in Storing,
               request'[u].pc \in Storing
        PROVE  request'[t].run # request'[u].run
    <3>1. CASE t = s \/ u = s
      BY <2>1, <2>5, <2>7, <3>1
    <3>2. CASE t # s /\ u # s
      BY <2>5, <2>7, <3>2 DEF DInv, RunsApart
    <3>3. QED
      BY <3>1, <3>2
  <2>8. ASSUME NEW q \in Runs, Seen(q)'
        PROVE  /\ ingest'[q] # "none"
               /\ \A t \in DrawerSlots : request'[t].pc \in {"existing", "adding"} => request'[t].run # q
    BY <1>3, <2>1, <2>2, <2>3, <2>4, <2>8 DEF DInv, RunsApart
  <2>9. QED
    BY <2>6, <2>7, <2>8 DEF RunsApart
<1>7. Witnessed'
  BY <1>1, <1>2, <1>3 DEF DInv, Witnessed, NothingFabricated, Busy
<1>8. Removals'
  BY <1>1, <1>2, <1>3 DEF DInv, Removals
<1>9. OneRow'
  BY <1>1, <1>2, <1>3 DEF DInv, OneRow
<1>10. Begins'
  BY <1>1, <1>2, <1>3, DrawerAssumption DEF DInv, Begins
<1>11. others' = 0 => Tells'
  <2>1. SUFFICES ASSUME others = 0 PROVE Tells'
    BY <1>2
  <2>2. \A r \in Runs : ingest'[r] = "committed" => ingest[r] = "committed"
    BY <1>3 DEF DInv, DrawerTypes
  <2>3. AnyCommitted' => AnyCommitted
    BY <2>2 DEF AnyCommitted
  <2>4. QED
    BY <1>2, <1>3, <2>1, <2>3, TellsKept
<1>12. QED
  BY <1>4, <1>5, <1>6, <1>7, <1>8, <1>9, <1>10, <1>11 DEF DInv

LEMMA SendDrawer ==
  ASSUME DInv, NEW s \in DrawerSlots, DrawerSend(s)
  PROVE  DInv'
<1>1. request[s].pc = "idle" /\ up /\ sent \in DrawerOps
      /\ UNCHANGED <<sent, acked, outcome, rows, ingest, logged, up, others, drawerFaults, witnessed,
                     removed>>
      /\ overlapped' = (overlapped \/ InServer(sent)) /\ overlapped' \in BOOLEAN
  BY DEF DrawerSend, Is, DInv, DrawerTypes
<1>2. /\ request' \in [DrawerSlots -> DrawerRequest]
      /\ \A t \in DrawerSlots : t # s => request'[t] = request[t]
      /\ request'[s].pc = "beginning" /\ request'[s].op = sent /\ request'[s].known = NoRun
      /\ request'[s].found = NoRun
  <2> DEFINE row == [NoRequest EXCEPT !.pc = "beginning", !.op = sent]
  <2>1. row \in DrawerRequest /\ row.pc = "beginning" /\ row.op = sent /\ row.known = NoRun
        /\ row.found = NoRun
    BY <1>1 DEF NoRequest, DrawerRequest
  <2>2. request' = [request EXCEPT ![s] = row]
    BY DEF DrawerSend
  <2> HIDE DEF row
  <2>3. QED
    BY <2>1, <2>2, Becomes DEF DInv
<1>3. DrawerTypes'
  BY <1>1, <1>2 DEF DInv, DrawerTypes
<1>4. Copies'
  <2>1. InServer(sent) \/ \A t \in DrawerSlots : ~Busy(t)
    BY DEF DInv, Copies, InServer
  <2>2. InServer(sent) => sent \in DrawerOverlapping
    BY DEF DrawerSend
  <2>3. ASSUME sent' \notin DrawerOverlapping \/ ~overlapped'
        PROVE  \A t \in DrawerSlots : ~Busy(t)
    BY <1>1, <2>1, <2>2, <2>3
  <2>4. \A t \in DrawerSlots : t # s => (Busy(t)' <=> Busy(t))
    BY <1>2 DEF Busy
  <2>5. sent' \notin DrawerOverlapping \/ ~overlapped' =>
          \A t, u \in DrawerSlots : Busy(t)' /\ Busy(u)' => t = u
    BY <2>3, <2>4
  <2>6. ASSUME NEW t \in DrawerSlots
        PROVE  /\ ~Busy(t)' => request'[t].op = 0
               /\ Busy(t)' => up' /\ sent' \in DrawerOps /\ request'[t].op = sent'
               /\ request'[t].pc \in Adding => sent' \in DrawerAdds
               /\ request'[t].pc \in Deleting => sent' \notin DrawerAdds
               /\ request'[t].pc = "capturing" => request'[t].found \in Runs
    BY <1>1, <1>2 DEF DInv, Copies, Busy, Adding, Deleting
  <2>7. QED
    BY <2>5, <2>6 DEF Copies
<1>5. RunsApart'
  <2>1. \A r \in Runs : Seen(r)' => Seen(r)
    BY <1>1, <1>2, RunFacts DEF Seen
  <2>2. QED
    BY <1>1, <1>2, <2>1, RunsKept DEF Storing
<1>6. Witnessed'
  BY <1>1, <1>2 DEF DInv, Witnessed, NothingFabricated, Busy
<1>7. Removals'
  BY <1>1, <1>2 DEF DInv, Removals
<1>8. OneRow'
  BY <1>1, <1>2 DEF DInv, OneRow
<1>9. Begins'
  BY <1>1, <1>2 DEF DInv, Begins
<1>10. others' = 0 => Tells'
  <2>1. SUFFICES ASSUME others = 0 PROVE Tells'
    BY <1>1
  <2>2. AnyCommitted' => AnyCommitted
    BY <1>1 DEF AnyCommitted
  <2>3. QED
    BY <1>1, <1>2, <2>1, <2>2, TellsKept
<1>11. QED
  BY <1>3, <1>4, <1>5, <1>6, <1>7, <1>8, <1>9, <1>10 DEF DInv

LEMMA AnswerDrawer ==
  ASSUME DInv, NEW s \in DrawerSlots, DrawerAnswer(s)
  PROVE  DInv'
<1>1. request[s].pc = "answering" /\ Busy(s) /\ sent \in DrawerOps /\ request[s].op = sent
      /\ UNCHANGED <<outcome, rows, ingest, logged, up, others, witnessed, removed, overlapped>>
  BY DEF DInv, Copies, Busy, Is, DrawerAnswer
<1>2. /\ request' \in [DrawerSlots -> DrawerRequest]
      /\ \A t \in DrawerSlots : t # s => request'[t] = request[t]
      /\ request'[s].pc = "idle" /\ request'[s].op = 0 /\ request'[s].found = NoRun
      /\ request'[s].known = NoRun
  BY Drops DEF DrawerAnswer, DInv
<1>3. \/ sent' = sent /\ acked' = acked
      \/ /\ sent' = sent + 1 /\ \A t \in DrawerSlots \ {s} : request[t].op # sent
         /\ acked' = IF request[s].ok THEN acked \cup {sent} ELSE acked
  BY DEF DrawerAnswer
<1>4. sent' = sent + 1 => \A t \in DrawerSlots : request'[t].pc = "idle"
  <2>1. SUFFICES ASSUME sent' = sent + 1 PROVE \A t \in DrawerSlots : request'[t].pc = "idle"
    OBVIOUS
  <2>2. sent' # sent
    BY <1>1, <2>1, DrawerAssumption DEF DrawerOps
  <2>3. \A t \in DrawerSlots : t # s => ~Busy(t)
    BY <1>3, <2>2 DEF DInv, Copies
  <2>4. QED
    BY <1>2, <2>3 DEF Busy
<1>5. DrawerTypes'
  <2>1. sent' \in 1..(DrawerLast + 1)
    <3>1. sent \in 1..DrawerLast
      BY <1>1 DEF DrawerOps
    <3>2. QED
      BY <1>3, <3>1, DrawerAssumption
  <2>2. acked' \subseteq DrawerOps
    BY <1>1, <1>3 DEF DInv, DrawerTypes
  <2>3. drawerFaults' \in 0..MaxDrawerFaults
    BY DrawerAssumption DEF DrawerAnswer, DInv, DrawerTypes
  <2>4. QED
    BY <1>1, <1>2, <2>1, <2>2, <2>3 DEF DInv, DrawerTypes
<1>6. Copies'
  <2>1. CASE sent' = sent
    BY <1>1, <1>2, <2>1, CopyKept DEF Adding, Deleting
  <2>2. CASE sent' = sent + 1
    <3>1. \A t \in DrawerSlots : request'[t].op = 0
      BY <1>2, <1>4, <2>2 DEF DInv, Copies, Busy
    <3>2. QED
      BY <1>4, <2>2, <3>1 DEF Copies, Busy, Adding, Deleting
  <2>3. QED
    BY <1>3, <2>1, <2>2
<1>7. RunsApart'
  <2>1. \A r \in Runs : Seen(r)' => Seen(r)
    BY <1>1, <1>2, RunFacts DEF Seen
  <2>2. QED
    BY <1>1, <1>2, <2>1, RunsKept DEF Storing
<1>8. Witnessed'
  BY <1>1, <1>2, <1>3, <1>4 DEF DInv, Witnessed, NothingFabricated, Busy
<1>9. Removals'
  BY <1>1, <1>2, <1>3, <1>4 DEF DInv, Removals
<1>10. OneRow'
  BY <1>1, <1>2 DEF DInv, OneRow
<1>11. sent \in Int /\ sent \notin acked
  BY <1>1 DEF DInv, Begins, DrawerOps
<1>12. Begins'
  <2>1. CASE sent' = sent /\ acked' = acked
    BY <1>1, <1>2, <2>1 DEF DInv, Begins
  <2>2. CASE sent' = sent + 1
    <3>1. \A o \in DrawerOps : o > sent + 1 => outcome[o].status = "none"
      BY <1>11 DEF DInv, Begins, DrawerOps
    <3>2. \A o \in acked' : o < sent + 1
      <4>1. ASSUME NEW o \in acked' PROVE o < sent + 1
        <5>1. o = sent \/ o \in acked
          BY <1>3
        <5>2. o \in acked => o < sent /\ o \in Int
          BY DEF DInv, Begins, DrawerTypes, DrawerOps
        <5>3. QED
          BY <1>11, <5>1, <5>2
      <4>2. QED
        BY <4>1
    <3>3. QED
      BY <1>1, <1>4, <2>2, <3>1, <3>2 DEF DInv, Begins
  <2>3. QED
    BY <1>3, <2>1, <2>2
<1>13. others' = 0 => Tells'
  <2>1. SUFFICES ASSUME others = 0 PROVE Tells'
    BY <1>1
  <2>2. AnyCommitted' => AnyCommitted
    BY <1>1 DEF AnyCommitted
  <2>3. CASE sent' = sent /\ acked' = acked
    BY <1>1, <1>2, <2>1, <2>2, <2>3, TellsKept
  <2>4. CASE sent' = sent + 1 /\ acked' = IF request[s].ok THEN acked \cup {sent} ELSE acked
    <3>1. sent' \in DrawerOps => outcome[sent'].status = "none" /\ outcome[sent'].details = NoRun
      BY <1>11, <2>4 DEF DInv, Begins
    <3>2. sent' - 1 = sent
      BY <1>11, <2>4
    <3>3. sent \in acked' => outcome[sent].status = "completed"
      BY <1>1, <1>11, <2>4 DEF DInv, Begins
    <3>4. sent \in acked' /\ AnyCommitted => Landed(sent)
      BY <1>1, <2>1, <3>3 DEF DInv, Tells
    <3>5. sent' - 1 \in acked' /\ AnyCommitted' => (rows' # {} <=> sent' - 1 \in DrawerAdds)
      BY <1>1, <2>2, <3>2, <3>4 DEF Landed
    <3>6. QED
      BY <1>1, <1>4, <2>4, <3>1, <3>5 DEF Tells, Landed
  <2>5. QED
    BY <1>3, <2>3, <2>4
<1>14. QED
  BY <1>5, <1>6, <1>7, <1>8, <1>9, <1>10, <1>12, <1>13 DEF DInv

\* The other client's row has a run nobody saw before.
LEMMA OtherAddDrawer ==
  ASSUME DInv, OtherAdd
  PROVE  DInv'
<1>1. UNCHANGED <<sent, acked, outcome, logged, request, up, drawerFaults, witnessed, removed,
                  overlapped>>
      /\ others' = others + 1 /\ others < MaxOthers /\ others \in Nat
  BY DEF OtherAdd, DInv, DrawerTypes
<1>2. PICK r \in Runs : ingest[r] = "none" /\ rows' = {r} /\ ingest' = [ingest EXCEPT ![r] = "committed"]
  BY DEF OtherAdd, NewRuns
<1>3. ingest'[r] = "committed" /\ \A q \in Runs : q # r => ingest'[q] = ingest[q]
  BY <1>2 DEF DInv, DrawerTypes
<1>4. ~Seen(r)
  BY <1>2 DEF DInv, RunsApart
<1>5. DrawerTypes'
  <2>1. others' \in 0..MaxOthers
    BY <1>1, DrawerAssumption
  <2>2. QED
    BY <1>1, <1>2, <2>1 DEF DInv, DrawerTypes
<1>6. Copies'
  BY <1>1 DEF DInv, Copies, Busy
<1>7. RunsApart'
  <2>1. \A q \in Runs : Seen(q)' => Seen(q) \/ q = r
    BY <1>1, <1>2 DEF Seen
  <2>2. \A t \in DrawerSlots : request[t].pc \in Storing =>
          request[t].run \in Runs /\ ingest[request[t].run] = "pending" /\ request[t].run # r
    BY <1>2 DEF DInv, RunsApart
  <2>3. \A t \in DrawerSlots : request[t].pc \in {"existing", "adding"} => request[t].pc \in Storing
    BY DEF Storing
  <2>4. \A t \in DrawerSlots :
          request'[t].pc \in Storing => request'[t].run \in Runs /\ ingest'[request'[t].run] = "pending"
    BY <1>1, <1>3, <2>2
  <2>5. \A t, u \in DrawerSlots : t # u /\ request'[t].pc \in Storing /\ request'[u].pc \in Storing =>
          request'[t].run # request'[u].run
    BY <1>1 DEF DInv, RunsApart
  <2>6. ASSUME NEW q \in Runs, Seen(q)'
        PROVE  /\ ingest'[q] # "none"
               /\ \A t \in DrawerSlots : request'[t].pc \in {"existing", "adding"} => request'[t].run # q
    BY <1>1, <1>3, <2>1, <2>2, <2>3, <2>6 DEF DInv, RunsApart
  <2>7. QED
    BY <2>4, <2>5, <2>6 DEF RunsApart
<1>8. Witnessed'
  BY <1>1 DEF DInv, Witnessed, NothingFabricated, Busy
<1>9. Removals'
  <2>1. \A o \in DrawerOps : outcome[o].details \notin rows'
    BY <1>2, <1>4 DEF Seen
  <2>2. QED
    BY <1>1, <2>1 DEF DInv, Removals
<1>10. OneRow'
  BY <1>1 DEF OneRow
<1>11. Begins' /\ others' # 0
  BY <1>1 DEF DInv, Begins
<1>12. QED
  BY <1>5, <1>6, <1>7, <1>8, <1>9, <1>10, <1>11 DEF DInv

LEMMA OtherDeleteDrawer ==
  ASSUME DInv, OtherDelete
  PROVE  DInv'
<1>1. UNCHANGED <<sent, acked, outcome, ingest, logged, request, up, drawerFaults, witnessed, removed,
                  overlapped>>
      /\ others' = others + 1 /\ others < MaxOthers /\ others \in Nat /\ rows' = {}
  BY DEF OtherDelete, DInv, DrawerTypes
<1>2. others' \in 0..MaxOthers
  BY <1>1, DrawerAssumption
<1>3. DrawerTypes' /\ Copies'
  BY <1>1, <1>2 DEF DInv, DrawerTypes, Copies, Busy
<1>4. RunsApart'
  <2>1. \A r \in Runs : Seen(r)' => Seen(r)
    BY <1>1 DEF Seen
  <2>2. QED
    BY <1>1, <2>1 DEF DInv, RunsApart
<1>5. Witnessed' /\ Removals' /\ OneRow'
  BY <1>1 DEF DInv, Witnessed, NothingFabricated, Busy, Removals, OneRow
<1>6. Begins' /\ others' # 0
  BY <1>1 DEF DInv, Begins
<1>7. QED
  BY <1>3, <1>4, <1>5, <1>6 DEF DInv

LEMMA CrashDrawer ==
  ASSUME DInv, DrawerCrash
  PROVE  DInv'
<1>1. UNCHANGED <<sent, acked, outcome, rows, ingest, logged, others, witnessed, removed, overlapped>>
      /\ up' = FALSE /\ drawerFaults' \in 0..MaxDrawerFaults
  BY DrawerAssumption DEF DrawerCrash, DInv, DrawerTypes
<1>2. request' \in [DrawerSlots -> DrawerRequest]
      /\ \A s \in DrawerSlots : /\ request'[s].pc = "idle" /\ request'[s].op = 0
                                /\ request'[s].found = NoRun
  BY Idle DEF DrawerCrash
<1>3. DrawerTypes' /\ Copies'
  BY <1>1, <1>2 DEF DInv, DrawerTypes, Copies, Busy, Adding, Deleting
<1>4. RunsApart'
  <2>1. \A r \in Runs : Seen(r)' => Seen(r)
    BY <1>1, <1>2, RunFacts DEF Seen
  <2>2. QED
    BY <1>1, <1>2, <2>1 DEF DInv, RunsApart, Storing
<1>5. Witnessed' /\ Removals' /\ OneRow'
  BY <1>1, <1>2 DEF DInv, Witnessed, NothingFabricated, Busy, Removals, OneRow
<1>6. Begins'
  BY <1>1, <1>2 DEF DInv, Begins
<1>7. others' = 0 => Tells'
  BY <1>1, <1>2 DEF DInv, Tells, Landed, AnyCommitted
<1>8. QED
  BY <1>3, <1>4, <1>5, <1>6, <1>7 DEF DInv

\* Only runs nobody works on get stale.
LEMMA HourDrawer ==
  ASSUME DInv, HourPasses
  PROVE  DInv'
<1>1. UNCHANGED <<sent, acked, outcome, rows, logged, request, up, others, drawerFaults, witnessed,
                  removed, overlapped>>
  BY DEF HourPasses
<1>2. /\ ingest' \in [Runs -> {"none", "pending", "stale", "committed", "failed"}]
      /\ \A r \in Runs : ingest'[r] = "none" => ingest[r] = "none"
      /\ \A r \in Runs : (\E s \in DrawerSlots : request[s].run = r) => ingest'[r] = ingest[r]
  BY DEF HourPasses, DInv, DrawerTypes
<1>3. DrawerTypes' /\ Copies'
  BY <1>1, <1>2 DEF DInv, DrawerTypes, Copies, Busy
<1>4. RunsApart'
  <2>1. \A r \in Runs : Seen(r)' => Seen(r)
    BY <1>1 DEF Seen
  <2>2. QED
    BY <1>1, <1>2, <2>1 DEF DInv, RunsApart
<1>5. Witnessed' /\ Removals' /\ OneRow'
  BY <1>1 DEF DInv, Witnessed, NothingFabricated, Busy, Removals, OneRow
<1>6. Begins'
  BY <1>1 DEF DInv, Begins
<1>7. others' = 0 => Tells'
  <2>1. \A r \in Runs : ingest'[r] = "committed" => ingest[r] = "committed"
    BY DEF HourPasses
  <2>2. AnyCommitted' => AnyCommitted
    BY <2>1 DEF AnyCommitted
  <2>3. QED
    BY <1>1, <2>2 DEF DInv, Tells, Landed
<1>8. QED
  BY <1>3, <1>4, <1>5, <1>6, <1>7 DEF DInv

LEMMA RestartDrawer ==
  ASSUME DInv, DrawerRestart
  PROVE  DInv'
<1>1. UNCHANGED <<sent, acked, outcome, logged, request, others, drawerFaults, witnessed, removed,
                  overlapped>>
      /\ up' = TRUE /\ rows' \in {rows, {}}
  BY DEF DrawerRestart
<1>2. /\ ingest' \in [Runs -> {"none", "pending", "stale", "committed", "failed"}]
      /\ \A r \in Runs : ingest'[r] = "none" => ingest[r] = "none"
  BY DEF DrawerRestart, DInv, DrawerTypes
<1>3. \A s \in DrawerSlots : request[s].pc = "idle"
  BY DEF DInv, Copies, Busy, DrawerRestart
<1>4. DrawerTypes' /\ Copies'
  BY <1>1, <1>2, <1>3 DEF DInv, DrawerTypes, Copies, Busy, Adding, Deleting
<1>5. RunsApart'
  <2>1. \A r \in Runs : Seen(r)' => Seen(r)
    BY <1>1 DEF Seen
  <2>2. QED
    BY <1>1, <1>2, <1>3, <2>1 DEF DInv, RunsApart, Storing
<1>6. Witnessed' /\ Removals' /\ OneRow'
  BY <1>1, <1>3 DEF DInv, Witnessed, NothingFabricated, Busy, Removals, OneRow
<1>7. Begins'
  BY <1>1 DEF DInv, Begins
<1>8. others' = 0 => Tells'
  <2>1. SUFFICES ASSUME others = 0 PROVE Tells'
    BY <1>1
  <2>2. \A r \in Runs : ingest'[r] = "committed" => ingest[r] = "committed"
    BY DEF DrawerRestart
  <2>3. AnyCommitted' => AnyCommitted /\ rows' = rows
    BY <2>2 DEF AnyCommitted, DrawerRestart, Orphaned
  <2>4. sent \in DrawerOps /\ outcome[sent].status = "completed" /\ sent \notin DrawerAdds =>
          rows' = {} /\ Landed(sent)
    BY <1>1, <2>1 DEF DInv, Tells, Landed
  <2>5. QED
    BY <1>1, <1>3, <2>1, <2>3, <2>4 DEF DInv, Tells, Landed
<1>9. QED
  BY <1>4, <1>5, <1>6, <1>7, <1>8 DEF DInv

-----------------------------------------------------------------------------

LEMMA DInvInit == DrawerInit => DInv
<1> SUFFICES ASSUME DrawerInit PROVE DInv
  OBVIOUS
<1>1. request \in [DrawerSlots -> DrawerRequest]
      /\ \A s \in DrawerSlots : /\ request[s].pc = "idle" /\ request[s].op = 0
                                /\ request[s].found = NoRun
  BY Idle DEF DrawerInit
<1>2. outcome \in [DrawerOps -> OutcomeRow] /\ \A o \in DrawerOps : outcome[o].details = NoRun
      /\ outcome[o].status = "none"
  BY DEF DrawerInit, OutcomeRow
<1>3. DrawerTypes
  <2>1. sent \in 1..(DrawerLast + 1) /\ others \in 0..MaxOthers /\ drawerFaults \in 0..MaxDrawerFaults
    BY DrawerAssumption DEF DrawerInit
  <2>2. QED
    BY <1>1, <1>2, <2>1 DEF DrawerInit, DrawerTypes
<1>4. Copies
  BY <1>1 DEF DrawerInit, Copies, Busy, Adding, Deleting
<1>5. RunsApart
  <2>1. \A r \in Runs : ~Seen(r)
    BY <1>1, <1>2, RunFacts DEF DrawerInit, Seen
  <2>2. QED
    BY <1>1, <2>1 DEF RunsApart, Storing
<1>6. Witnessed
  BY <1>1, <1>2 DEF DrawerInit, Witnessed, NothingFabricated, Busy
<1>7. Removals /\ OneRow
  BY <1>1 DEF DrawerInit, Removals, OneRow
<1>8. Begins
  BY <1>1, <1>2 DEF DrawerInit, Begins
<1>9. Tells
  BY <1>1, <1>2 DEF DrawerInit, Tells
<1>10. QED
  BY <1>3, <1>4, <1>5, <1>6, <1>7, <1>8, <1>9 DEF DInv

LEMMA DInvNext ==
  ASSUME DrawerOverlapping \cap DrawerAdds = {}, DInv, [DrawerNext]_drawerVars
  PROVE  DInv'
<1>1. CASE UNCHANGED drawerVars
  <2>1. DrawerTypes' /\ Copies'
    BY <1>1 DEF drawerVars, DInv, DrawerTypes, Copies, Busy
  <2>2. RunsApart'
    <3>1. \A r \in Runs : Seen(r)' => Seen(r)
      BY <1>1 DEF drawerVars, Seen
    <3>2. QED
      BY <1>1, <3>1 DEF drawerVars, DInv, RunsApart
  <2>3. Witnessed' /\ Removals' /\ OneRow'
    BY <1>1 DEF drawerVars, DInv, Witnessed, NothingFabricated, Busy, Removals, OneRow
  <2>4. Begins' /\ (others' = 0 => Tells')
    BY <1>1 DEF drawerVars, DInv, Begins, Tells, Landed, AnyCommitted
  <2>5. QED
    BY <2>1, <2>2, <2>3, <2>4 DEF DInv
<1>2. ASSUME NEW s \in DrawerSlots,
             DrawerSend(s) \/ DrawerAnswer(s) \/ DrawerBegin(s) \/ DrawerLog(s) \/ DrawerComplete(s)
      PROVE  DInv'
  BY <1>2, SendDrawer, AnswerDrawer, BeginDrawer, LogDrawer, CompleteDrawer
<1>3. ASSUME NEW s \in DrawerSlots, AddRequest(s)
      PROVE  DInv'
  BY <1>3, RecoverDrawer, CheckDrawer, CreateDrawer, CheckIdDrawer, AddRowDrawer, CommitDrawer
  DEF AddRequest
<1>4. ASSUME NEW s \in DrawerSlots, DeleteRequest(s) \/ FailCall(s)
      PROVE  DInv'
  BY <1>4, LookUpDrawer, RereadDrawer, CaptureDrawer, DeleteDrawer, FailDrawer DEF DeleteRequest
<1>5. QED
  BY <1>1, <1>2, <1>3, <1>4, OtherAddDrawer, OtherDeleteDrawer, CrashDrawer, HourDrawer,
     RestartDrawer
  DEF DrawerNext

\* The inductive invariant of the drawer routes, if no addition is sent while a copy of it still runs:
\* who works on what, whose run is whose, what was found before it is told, what was removed.
THEOREM DInvHolds ==
  ASSUME DrawerOverlapping \cap DrawerAdds = {}
  PROVE  DrawerSpec => []DInv
<1>1. DInv /\ [DrawerNext]_drawerVars => DInv'
  BY DInvNext
<1>2. QED
  BY DInvInit, <1>1, PTL DEF DrawerSpec

\* Whatever fails, is repeated and recovered, a deletion removes the drawer once and spares its
\* replacement, and no success and no event is made up (route_drawers_add, route_drawers_delete).
THEOREM DrawersHold ==
  ASSUME DrawerOverlapping \cap DrawerAdds = {}
  PROVE  DrawerSpec => []DrawerInv
<1>1. DInv => DrawerInv
  <2> SUFFICES ASSUME DInv PROVE DrawerInv
    OBVIOUS
  <2>1. DrawerTypeOK
    BY DEF DInv, DrawerTypes, RunsApart, Storing, DrawerTypeOK, OutcomeRow
  <2>2. ~overlapped => DeletesOnce
    <3> SUFFICES ASSUME ~overlapped, NEW o \in DrawerOps PROVE removed[o] <= 1
      BY DEF DeletesOnce
    <3>1. removed[o] = 0 \/ removed[o] = 1
      BY DEF DInv, Removals
    <3>2. QED
      BY <3>1
  <2>3. others = 0 => Cardinality(rows) <= 1
    <3> SUFFICES ASSUME others = 0 PROVE Cardinality(rows) <= 1
      OBVIOUS
    <3>1. \A a, b \in rows : a = b
      BY DEF DInv, OneRow
    <3>2. CASE rows = {}
      BY <3>2, FS_EmptySet
    <3>3. CASE rows # {}
      <4>1. PICK a \in rows : TRUE
        BY <3>3
      <4>2. rows = {a}
        BY <3>1, <4>1
      <4>3. Cardinality(rows) = 1
        BY <4>2, FS_Singleton
      <4>4. QED
        BY <4>3
    <3>4. QED
      BY <3>2, <3>3
  <2>4. QED
    BY <2>1, <2>2, <2>3 DEF DInv, Witnessed, DrawerInv, DrawerLandsOnce
<1>2. QED
  BY DInvHolds, <1>1, PTL

\* Between deliveries, and left alone by the other client, the drawer is there exactly if the operation
\* acknowledged last was an addition, once a committed run has the id in its manifest
\* (prune_orphaned_rows spares it, whatever stale runs are reconciled).
THEOREM AckedOperationStays ==
  ASSUME DrawerOverlapping \cap DrawerAdds = {}
  PROVE  DrawerSpec => []CommittedAddStays
<1>1. DInv => CommittedAddStays
  <2> SUFFICES ASSUME DInv, Settled, AnyCommitted PROVE LastAnswerHolds
    BY DEF CommittedAddStays, AnyCommitted
  <2>1. Landed(sent - 1)
    BY DEF DInv, Tells, Settled
  <2>2. QED
    BY <2>1 DEF Landed, LastAnswerHolds
<1>2. QED
  BY DInvHolds, <1>1, PTL
=============================================================================
