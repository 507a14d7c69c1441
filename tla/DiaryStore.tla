----------------------------- MODULE DiaryStore -----------------------------
(***************************************************************************)
(* One diary entry of a palace: diary_write, diary_update and the deletion *)
(* of its drawer (agentpalace-mcp/src/lib.rs) over commit_diary_ingest,    *)
(* update_diary_entry and reconcile (agentpalace-storage/src/engine.rs).   *)
(* The body is a row of LanceDB, its summary and its ingest runs are in    *)
(* SQLite.  Several processes share the palace; a step is one transaction  *)
(* of one of the two stores, and a process may stop after any of them.     *)
(*                                                                         *)
(* Every write and update has a number of its own for its body and summary.*)
(* Writers of one id race as in the tests of commit_diary_ingest; the      *)
(* tools generate a new id for each write.                                 *)
(***************************************************************************)
EXTENDS Integers, FiniteSets

CONSTANTS
  Diarists,        \* processes
  MaxTexts,        \* bound on the writes and updates
  MaxDiaryFaults   \* bound on crashes and failed calls

Texts  == 1..MaxTexts
NoText == 0

ASSUME DiaryAssumption == MaxTexts \in Nat /\ MaxDiaryFaults \in Nat

VARIABLES
  body,         \* the entry's rows in LanceDB, by text
  summary,      \* the text of the diary_summaries row, or none
  diaryRun,     \* ingest runs of the entry, numbered by the text they write
  lastText,     \* the last number given out
  diarist,      \* the processes
  diaryFaults,  \* faults so far
  written,      \* history: a write was acknowledged, and nobody deleted the entry since
  racing,       \* history: an update or delete overlapped another call or a reconciliation
  spoiled       \* history: an update or delete was interrupted

diaryVars == <<body, summary, diaryRun, lastText, diarist, diaryFaults, written, racing, spoiled>>

DiaristState ==
  [pc    : {"down", "listing", "pruning", "forgetting", "finishing", "ready",
            "gating", "checking", "adding", "committing", "undoing", "failing",
            "touching", "replacing", "retracting", "erasing", "cleaning"},
   text  : Texts \cup {NoText},
   whole : BOOLEAN,              \* the update has a body, not only a summary
   stale : SUBSET Texts]         \* reconcile: the runs listed

Absent      == [pc |-> "down", text |-> NoText, whole |-> FALSE, stale |-> {}]
IdleDiarist == [Absent EXCEPT !.pc = "ready"]

DiaryTypeOK ==
  /\ body \subseteq Texts
  /\ summary \in Texts \cup {NoText}
  /\ diaryRun \in [Texts -> [status : {"none", "pending", "committed", "failed"},
                               old : BOOLEAN,      \* stale_after has passed
                               swept : BOOLEAN]]   \* history: a reconciliation has handled it
  /\ lastText \in 0..MaxTexts
  /\ diarist \in [Diarists -> DiaristState]
  /\ diaryFaults \in 0..MaxDiaryFaults
  /\ written \in BOOLEAN /\ racing \in BOOLEAN /\ spoiled \in BOOLEAN

DiaryInit ==
  /\ body = {} /\ summary = NoText
  /\ diaryRun = [t \in Texts |-> [status |-> "none", old |-> FALSE, swept |-> FALSE]]
  /\ lastText = 0
  /\ diarist = [d \in Diarists |-> Absent]
  /\ diaryFaults = 0
  /\ written = FALSE /\ racing = FALSE /\ spoiled = FALSE

-----------------------------------------------------------------------------
(* Helpers.                                                                *)

Doing(d, pc)   == diarist[d].pc = pc
Text(d)        == diarist[d].text
MoveTo(d, pc)   == diarist' = [diarist EXCEPT ![d].pc = pc]
Done(d)        == diarist' = [diarist EXCEPT ![d] = IdleDiarist]
RunsIn(status) == {t \in Texts : diaryRun[t].status = status}
Writing(d)     == diarist[d].pc \in {"gating", "checking", "adding", "committing", "undoing", "failing"}
Changing(d)    == diarist[d].pc \in {"touching", "replacing", "retracting", "erasing", "cleaning"}

Sweeping(d)    == diarist[d].pc \in {"pruning", "forgetting", "finishing"}

Enters(d, pc, text, whole) ==
  /\ diarist' = [diarist EXCEPT ![d] = [IdleDiarist EXCEPT !.pc = pc, !.text = text,
                                                          !.whole = whole]]
  /\ racing' = (racing \/ \E e \in Diarists \ {d} :
                           Changing(e) \/ (pc # "gating" /\ (Writing(e) \/ Sweeping(e))))

-----------------------------------------------------------------------------
(* StorageEngine::open: reconcile.                                         *)

\* Old pending runs, and old failed ones, which every later open lists again.
OldRuns == {t \in RunsIn("pending") \cup RunsIn("failed") : diaryRun[t].old}

OpenPalace(d) ==
  /\ Doing(d, "down")
  /\ MoveTo(d, "listing")
  /\ UNCHANGED <<body, summary, diaryRun, lastText, diaryFaults, written, racing, spoiled>>

ListOldRuns(d) ==
  /\ Doing(d, "listing")
  /\ diarist' = [diarist EXCEPT ![d].stale = OldRuns,
                                ![d].pc = IF OldRuns = {} THEN "ready" ELSE "pruning"]
  /\ racing' = (racing \/ (OldRuns # {} /\ \E e \in Diarists : Changing(e)))
  /\ UNCHANGED <<body, summary, diaryRun, lastText, diaryFaults, written, spoiled>>

CommittedUnlessFailed == RunsIn("committed") # {} /\ RunsIn("failed") = {}

\* A committed run of the entry, whichever, protects it.
CommittedSome == RunsIn("committed") # {}

PruneEntry(d) ==
  /\ Doing(d, "pruning")
  /\ body' = IF CommittedSome THEN body ELSE {}
  /\ MoveTo(d, "forgetting")
  /\ UNCHANGED <<summary, diaryRun, lastText, diaryFaults, written, racing, spoiled>>

ForgetWithBody(d) ==
  /\ Doing(d, "forgetting")
  /\ summary' = IF CommittedSome \/ body = {} THEN summary ELSE NoText
  /\ MoveTo(d, "finishing")
  /\ UNCHANGED <<body, diaryRun, lastText, diaryFaults, written, racing, spoiled>>

ForgetSummary(d) ==
  /\ Doing(d, "forgetting")
  /\ summary' = IF CommittedSome THEN summary ELSE NoText
  /\ MoveTo(d, "finishing")
  /\ UNCHANGED <<body, diaryRun, lastText, diaryFaults, written, racing, spoiled>>

FinishReconcile(d) ==
  /\ Doing(d, "finishing")
  /\ diaryRun' = [t \in Texts |->
                    IF t \in diarist[d].stale
                      THEN [diaryRun[t] EXCEPT !.status = "failed", !.swept = TRUE]
                      ELSE diaryRun[t]]
  /\ Done(d)
  /\ UNCHANGED <<body, summary, lastText, diaryFaults, written, racing, spoiled>>

-----------------------------------------------------------------------------
(* commit_diary_ingest.                                                    *)

\* The fast check for an entry that is already there.  Only writers that race write one id.
BeginWrite(d) ==
  /\ Doing(d, "ready") /\ body = {}
  /\ RunsIn("none") = Texts
  /\ lastText < MaxTexts
  /\ lastText' = lastText + 1
  /\ Enters(d, "gating", lastText', FALSE)
  /\ UNCHANGED <<body, summary, diaryRun, diaryFaults, written, spoiled>>

\* create_pending_diary_run: the insert of the summary lets one writer through.
GateOpen(d) ==
  /\ Doing(d, "gating")
  /\ summary' = Text(d)
  /\ diaryRun' = [diaryRun EXCEPT ![Text(d)].status = "pending"]
  /\ MoveTo(d, "checking")
  /\ UNCHANGED <<body, lastText, diaryFaults, written, racing, spoiled>>

Gate(d) ==
  /\ Doing(d, "gating")
  /\ IF summary = NoText
       THEN /\ summary' = Text(d)
            /\ diaryRun' = [diaryRun EXCEPT ![Text(d)].status = "pending"]
            /\ MoveTo(d, "checking")
       ELSE Done(d) /\ UNCHANGED <<summary, diaryRun>>
  /\ UNCHANGED <<body, lastText, diaryFaults, written, racing, spoiled>>

\* put_drawers, DuplicateStrategy::Error.
CheckBody(d) ==
  /\ Doing(d, "checking")
  /\ MoveTo(d, IF body = {} THEN "adding" ELSE "undoing")
  /\ UNCHANGED <<body, summary, diaryRun, lastText, diaryFaults, written, racing, spoiled>>

\* The row is added; or the call fails, before that or after it (ensure_indices).
AddBody(d) ==
  /\ Doing(d, "adding")
  /\ \/ /\ body' = body \cup {Text(d)}
        /\ MoveTo(d, "committing")
        /\ UNCHANGED diaryFaults
     \/ /\ diaryFaults < MaxDiaryFaults
        /\ diaryFaults' = diaryFaults + 1
        /\ body' \in {body, body \cup {Text(d)}}
        /\ MoveTo(d, "undoing")
  /\ UNCHANGED <<summary, diaryRun, lastText, written, racing, spoiled>>

CommitEntry(d) ==
  /\ Doing(d, "committing")
  /\ diaryRun' = [diaryRun EXCEPT ![Text(d)].status = "committed"]
  /\ Done(d)
  /\ written' = TRUE
  /\ UNCHANGED <<body, summary, lastText, diaryFaults, racing, spoiled>>

\* A failed put: the summary goes, the row, if any, stays; the run is marked failed.
UndoSummary(d) ==
  /\ Doing(d, "undoing")
  /\ summary' = NoText
  /\ MoveTo(d, "failing")
  /\ UNCHANGED <<body, diaryRun, lastText, diaryFaults, written, racing, spoiled>>

FailRun(d) ==
  /\ Doing(d, "failing")
  /\ diaryRun' = [diaryRun EXCEPT ![Text(d)].status = "failed"]
  /\ Done(d)
  /\ UNCHANGED <<body, summary, lastText, diaryFaults, written, racing, spoiled>>

-----------------------------------------------------------------------------
(* tool_diary_update and the deletion of the entry's drawer.               *)

\* The entry is loaded, so it is there.
BeginUpdate(d) ==
  /\ Doing(d, "ready") /\ body # {}
  /\ lastText < MaxTexts
  /\ lastText' = lastText + 1
  /\ \E whole \in BOOLEAN : Enters(d, "touching", lastText', whole)
  /\ UNCHANGED <<body, summary, diaryRun, diaryFaults, written, spoiled>>

\* touch_diary_entry, which also inserts a missing summary.
TouchAfter(d) ==
  /\ Doing(d, "touching")
  /\ IF diarist[d].whole THEN MoveTo(d, "replacing") /\ UNCHANGED summary
                         ELSE Done(d) /\ summary' = Text(d)
  /\ UNCHANGED <<body, diaryRun, lastText, diaryFaults, written, racing, spoiled>>

Touch(d) ==
  /\ Doing(d, "touching")
  /\ summary' = Text(d)
  /\ IF diarist[d].whole THEN MoveTo(d, "replacing") ELSE Done(d)
  /\ UNCHANGED <<body, diaryRun, lastText, diaryFaults, written, racing, spoiled>>

\* replace_drawer updates in one commit and inserts nothing.
Replace(d) ==
  /\ Doing(d, "replacing")
  /\ IF body = {} THEN MoveTo(d, "retracting") /\ UNCHANGED body
                  ELSE Done(d) /\ body' = {Text(d)}
  /\ UNCHANGED <<summary, diaryRun, lastText, diaryFaults, written, racing, spoiled>>

Retract(d) ==
  /\ Doing(d, "retracting")
  /\ summary' = NoText
  /\ Done(d)
  /\ UNCHANGED <<body, diaryRun, lastText, diaryFaults, written, racing, spoiled>>

BeginErase(d) ==
  /\ Doing(d, "ready") /\ body # {}
  /\ Enters(d, "erasing", NoText, FALSE)
  /\ UNCHANGED <<body, summary, diaryRun, lastText, diaryFaults, written, spoiled>>

Erase(d) ==
  /\ Doing(d, "erasing")
  /\ body' = {}
  /\ written' = FALSE
  /\ IF body = {} THEN Done(d) ELSE MoveTo(d, "cleaning")
  /\ UNCHANGED <<summary, diaryRun, lastText, diaryFaults, racing, spoiled>>

\* Only a warning if it fails.
CleanSummary(d) ==
  /\ Doing(d, "cleaning")
  /\ \/ summary' = NoText /\ UNCHANGED <<diaryFaults, spoiled>>
     \/ /\ diaryFaults < MaxDiaryFaults
        /\ diaryFaults' = diaryFaults + 1
        /\ spoiled' = TRUE
        /\ UNCHANGED summary
  /\ Done(d)
  /\ UNCHANGED <<body, diaryRun, lastText, written, racing>>

-----------------------------------------------------------------------------
(* Faults and the clock.                                                   *)

\* A crash or a failed open, or a call that fails and ends the tool with an error where it is.
Interrupt(d) ==
  /\ ~Doing(d, "down") /\ ~Doing(d, "ready")
  /\ diaryFaults < MaxDiaryFaults
  /\ diaryFaults' = diaryFaults + 1
  /\ \/ diarist' = [diarist EXCEPT ![d] = Absent]
     \/ (Writing(d) \/ Changing(d)) /\ Done(d)
  /\ spoiled' = (spoiled \/ Changing(d))
  /\ UNCHANGED <<body, summary, diaryRun, lastText, written, racing>>

\* stale_after (an hour) passes for a run; no call lasts that long.
RunGetsOld(t) ==
  /\ diaryRun[t].status \in {"pending", "failed"} /\ ~diaryRun[t].old
  /\ \A d \in Diarists : ~Writing(d) /\ ~Changing(d)
  /\ diaryRun' = [diaryRun EXCEPT ![t].old = TRUE]
  /\ UNCHANGED <<body, summary, lastText, diarist, diaryFaults, written, racing, spoiled>>

ClosePalace(d) ==
  /\ Doing(d, "ready")
  /\ diarist' = [diarist EXCEPT ![d] = Absent]
  /\ UNCHANGED <<body, summary, diaryRun, lastText, diaryFaults, written, racing, spoiled>>

DiaryReconcile(d) == ListOldRuns(d) \/ PruneEntry(d) \/ ForgetSummary(d) \/ FinishReconcile(d)

DiaryWrite(d) ==
  Gate(d) \/ CheckBody(d) \/ AddBody(d) \/ CommitEntry(d) \/ UndoSummary(d) \/ FailRun(d)

DiaryChange(d) == Touch(d) \/ Replace(d) \/ Retract(d) \/ Erase(d) \/ CleanSummary(d)

DiaryNext ==
  \/ \E d \in Diarists :
       \/ OpenPalace(d) \/ ClosePalace(d) \/ Interrupt(d) \/ DiaryReconcile(d)
       \/ BeginWrite(d) \/ BeginUpdate(d) \/ BeginErase(d) \/ DiaryWrite(d) \/ DiaryChange(d)
  \/ \E t \in Texts : RunGetsOld(t)

DiarySpec == DiaryInit /\ [][DiaryNext]_diaryVars

-----------------------------------------------------------------------------
(* Safety.                                                                 *)

\* An acknowledged entry stays until somebody deletes it: no racing writer's cleanup and no later
\* reconciliation of an older failed attempt takes it (the comment on the error path of
\* commit_diary_ingest: "never delete a drawer because it may belong to another writer").
WrittenStays == written /\ ~racing => body # {}

\* An update never leaves its new body under an older summary, so that repeating an interrupted
\* update repairs the entry (update_diary_entry: "the other order would leave the new body with stale
\* metadata, and a retry would see an unchanged body and do nothing").  Concurrent changes may mix.
Updated == {t \in body : diaryRun[t].status = "none"}
BodyNeverAhead == ~racing => \A t \in Updated : summary # NoText => t <= summary

\* At rest an entry has both its parts or neither, whatever stopped its writers: reconciliation
\* removes what an unfinished write left (the comment in reconcile: "A crash before the Lance write
\* leaves no drawer ... but the summary must still be removed").  Interrupted or mixed updates and
\* deletions are repaired by repeating them, not by reconciliation.
EntryWhole ==
  /\ \A d \in Diarists : ~Writing(d) /\ ~Changing(d)
  /\ \A t \in RunsIn("pending") \cup RunsIn("failed") : diaryRun[t].swept
  /\ ~racing /\ ~spoiled
  => (body = {} <=> summary = NoText)

\* The id has one row, unless deletions overlapped the writers: the gate keeps racing writers apart,
\* but a late cleanup of the summary opens it for a second one (put_drawers refuses a row that is
\* there, not one that is being added).
OneBody == ~racing => Cardinality(body) <= 1

\* The types and the four promises above together: what commit_diary_ingest, update_diary_entry and
\* reconcile keep about one entry in two stores.
EntryConsistent == DiaryTypeOK /\ WrittenStays /\ BodyNeverAhead /\ EntryWhole /\ OneBody
=============================================================================
