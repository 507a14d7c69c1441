--------------------------- MODULE DelegationSpans ---------------------------
(***************************************************************************)
(* Delegation-loop telemetry (crates/agentpalace-storage/src/delegation.rs)*)
(* : spans form trees, gain checkpoints while they run, and are closed     *)
(* once; trace() rebuilds a tree from the rows.                            *)
(*                                                                         *)
(* The writing operations are immediate SQLite transactions, one step      *)
(* each; a start or append repeated under its key returns the committed    *)
(* row and is a stuttering step.  trace() opens no transaction: each of    *)
(* its queries sees the database at its own moment, so a reader takes one  *)
(* step per query and the writers go on in between.                        *)
(*                                                                         *)
(* The four closing statuses and their stop reasons are one value, closed; *)
(* close_span compares a revision that is zero while the span runs and one *)
(* after, so the comparison and its terminal test are one guard.           *)
(***************************************************************************)
EXTENDS Naturals, Sequences, FiniteSets

CONSTANTS
  SpanTasks,        \* coordination tasks spans refer to
  Summaries,        \* sizes of checkpoint summaries: records of bytes and characters
  SpanCap,          \* MAX_SPAN_SUMMARY_BYTES, in the unit of those sizes
  MaxSpans,         \* bound: spans
  MaxCheckpoints    \* bound: checkpoints of all spans

ASSUME SpanAssumption ==
  /\ Summaries \subseteq [bytes : Nat, characters : Nat]
  /\ SpanCap \in Nat /\ MaxSpans \in Nat /\ MaxCheckpoints \in Nat

VARIABLES
  spans,         \* table delegation_spans: id -> row, ids in order of their start
  checkpoints,   \* table delegation_checkpoints by sequence
  trace          \* one reader's progress through trace()

spanVars == <<spans, checkpoints, trace>>

NoParent == 0
NoArtifact == "none"

SpanRow ==
  [task : SpanTasks, parent : 0..MaxSpans, depth : 0..MaxSpans-1, fan_out_index : 0..MaxSpans-1,
   closed : BOOLEAN]

(* An artifact is known by the task it belongs to. *)
CheckpointRow ==
  [span : 1..MaxSpans, size : Summaries, artifact : SpanTasks \cup {NoArtifact}]

Spans == DOMAIN spans
ChildrenOf(id) == {c \in Spans : spans[c].parent = id}
Roots(task) == {c \in Spans : spans[c].parent = NoParent /\ spans[c].task = task}
CheckpointsOf(id) == {k \in DOMAIN checkpoints : checkpoints[k].span = id}

(***************************************************************************)
(* start_span: depth and fan-out index are derived from the rows.          *)
(***************************************************************************)

(* Mutant: children are counted while they run. *)
SiblingsRunning(task, parent) ==
  IF parent = NoParent THEN Roots(task) ELSE {c \in ChildrenOf(parent) : ~spans[c].closed}

Siblings(task, parent) == IF parent = NoParent THEN Roots(task) ELSE ChildrenOf(parent)

(* Mutant: a closed span still gains children. *)
MayHaveChildClosed(parent, task) == parent \in Spans /\ spans[parent].task = task

(* Mutant: a child may work on another task than its parent. *)
MayHaveChildAnyTask(parent, task) == parent \in Spans /\ ~spans[parent].closed

MayHaveChild(parent, task) ==
  /\ parent \in Spans
  /\ spans[parent].task = task
  /\ ~spans[parent].closed

StartSpan(task, parent) ==
  /\ Len(spans) < MaxSpans
  /\ parent # NoParent => MayHaveChild(parent, task)
  /\ spans' = Append(spans,
       [task |-> task, parent |-> parent, closed |-> FALSE,
        depth |-> IF parent = NoParent THEN 0 ELSE spans[parent].depth + 1,
        fan_out_index |-> Cardinality(Siblings(task, parent))])
  /\ UNCHANGED <<checkpoints, trace>>

(***************************************************************************)
(* append_checkpoint.  The cap adds the bytes of the new summary to        *)
(* LENGTH(summary) of the stored ones, and SQLite's LENGTH of a text       *)
(* counts characters.                                                      *)
(***************************************************************************)
CharactersOf(id) == UNION {{k} \X (1..checkpoints[k].size.characters) : k \in CheckpointsOf(id)}
StoredLength(id) == Cardinality(CharactersOf(id))

(* Mutant: the cap forgets the summary being added. *)
FitsBefore(id, size) == StoredLength(id) <= SpanCap

Fits(id, size) == StoredLength(id) + size.bytes <= SpanCap

AppendCheckpoint(id, size, artifact) ==
  /\ Len(checkpoints) < MaxCheckpoints
  /\ ~spans[id].closed
  /\ artifact \in {NoArtifact, spans[id].task}
  /\ Fits(id, size)
  /\ checkpoints' = Append(checkpoints, [span |-> id, size |-> size, artifact |-> artifact])
  /\ UNCHANGED <<spans, trace>>

(* A span may be closed while its children run. *)
CloseSpan(id) ==
  /\ ~spans[id].closed
  /\ spans' = [spans EXCEPT ![id].closed = TRUE]
  /\ UNCHANGED <<checkpoints, trace>>

(***************************************************************************)
(* trace(): the root row; then, until the frontier is empty, pop a row,    *)
(* query its children, query its checkpoints.  The row in a node is the    *)
(* one read with its siblings, before its own children and checkpoints.    *)
(***************************************************************************)
RowRead(id) == [id |-> id, closed |-> spans[id].closed]

RowsInOrder(ids) ==
  LET order == CHOOSE s \in [1..Cardinality(ids) -> ids] :
                 \A i, j \in DOMAIN s : i < j => spans[s[i]].fan_out_index < spans[s[j]].fan_out_index
  IN  [i \in DOMAIN order |-> RowRead(order[i])]

(* The row on top of the frontier, and those below it.                     *)
Popped == trace.frontier[Len(trace.frontier)]
Below == SubSeq(trace.frontier, 1, Len(trace.frontier) - 1)

NoTrace == [phase |-> "idle", frontier |-> <<>>, children |-> <<>>, nodes |-> {}]

BeginTrace(root) ==
  /\ trace.phase \in {"idle", "done"}
  /\ trace' = [NoTrace EXCEPT !.phase = "children", !.frontier = <<RowRead(root)>>]
  /\ UNCHANGED <<spans, checkpoints>>

ReadChildren ==
  /\ trace.phase = "children"
  /\ trace' = [trace EXCEPT !.phase = "checkpoints",
                            !.children = RowsInOrder(ChildrenOf(Popped.id))]
  /\ UNCHANGED <<spans, checkpoints>>

(* Mutant: the trace ends with the first leaf it meets. *)
PhaseAfterLeaf(rest) == IF trace.children = <<>> THEN "done" ELSE "children"

PhaseAfter(rest) == IF rest = <<>> THEN "done" ELSE "children"

ReadCheckpoints ==
  /\ trace.phase = "checkpoints"
  /\ LET row  == Popped
         rest == Below \o trace.children
         node == [id |-> row.id, closed |-> row.closed, notes |-> CheckpointsOf(row.id)]
     IN  trace' = [phase    |-> PhaseAfter(rest),
                   frontier |-> rest,
                   children |-> <<>>,
                   nodes    |-> trace.nodes \cup {node}]
  /\ UNCHANGED <<spans, checkpoints>>

(***************************************************************************)
SpanInit == spans = <<>> /\ checkpoints = <<>> /\ trace = NoTrace

SpanNext ==
  \/ \E t \in SpanTasks, p \in {NoParent} \cup Spans : StartSpan(t, p)
  \/ \E id \in Spans :
       \/ \E size \in Summaries, a \in SpanTasks \cup {NoArtifact} : AppendCheckpoint(id, size, a)
       \/ CloseSpan(id)
       \/ BeginTrace(id)
  \/ ReadChildren
  \/ ReadCheckpoints

SpanSpec == SpanInit /\ [][SpanNext]_spanVars

(***************************************************************************)
(* Properties                                                              *)
(***************************************************************************)

(* Rows and the reader's progress have their types. *)
SpansTypeOK ==
  /\ spans \in Seq(SpanRow) /\ Len(spans) <= MaxSpans
  /\ checkpoints \in Seq(CheckpointRow) /\ Len(checkpoints) <= MaxCheckpoints
  /\ trace.phase \in {"idle", "children", "checkpoints", "done"}
  /\ trace.phase \in {"children", "checkpoints"} <=> trace.frontier # <<>>
  /\ \A n \in trace.nodes : n.id \in Spans /\ n.closed \in BOOLEAN /\ n.notes \subseteq DOMAIN checkpoints

(* Fan-out and depth are what the finished tree says, whenever spans were  *)
(* started and closed: siblings are numbered from zero without gap, roots  *)
(* by task, and a child is one deeper than its parent (start_span).        *)
FanOutCounts ==
  \A id \in Spans :
    LET row == spans[id]
        family == IF row.parent = NoParent THEN Roots(row.task) ELSE ChildrenOf(row.parent)
    IN  /\ {spans[s].fan_out_index : s \in family} = 0..Cardinality(family)-1
        /\ row.depth = IF row.parent = NoParent THEN 0 ELSE spans[row.parent].depth + 1

(* A trace stays inside the task of its root and lists a span once,        *)
(* artifacts included, as the list of the task's spans does (trace walks   *)
(* parent_span_id and never looks at task_id).                             *)
TraceInsideTask ==
  \A m, n \in trace.nodes :
    /\ spans[m.id].task = spans[n.id].task
    /\ m.id = n.id => m = n
    /\ \A k \in n.notes : checkpoints[k].artifact \in {NoArtifact, spans[n.id].task}

(* trace() is no snapshot, yet a span it shows closed it shows whole: with *)
(* every checkpoint and every child the span will ever have.  It rests on  *)
(* the order of its queries and on the tests of start and append.          *)
ClosedIsShownWhole ==
  trace.phase = "done" =>
    \A n \in trace.nodes : n.closed =>
      /\ n.notes = CheckpointsOf(n.id)
      /\ ChildrenOf(n.id) \subseteq {m.id : m \in trace.nodes}

(* The summaries of a span never exceed the cumulative cap in bytes        *)
(* (append_checkpoint, MAX_SPAN_SUMMARY_BYTES), as long as a character is  *)
(* a byte.                                                                 *)
BytesOf(id) == UNION {{k} \X (1..checkpoints[k].size.bytes) : k \in CheckpointsOf(id)}

SummariesBounded == \A id \in Spans : Cardinality(BytesOf(id)) <= SpanCap

(* What start_span and append_checkpoint derive from the rows adds up.     *)
SpansAddUp == SpansTypeOK /\ FanOutCounts /\ SummariesBounded

(* What trace() returns belongs together, and what it shows closed is all  *)
(* there.                                                                  *)
TraceIsWhole == TraceInsideTask /\ ClosedIsShownWhole

(* Both, whatever spans are started and closed between two queries.        *)
SpansInv == SpansAddUp /\ TraceIsWhole
=============================================================================
