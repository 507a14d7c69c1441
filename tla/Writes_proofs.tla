---------------------------- MODULE Writes_proofs ----------------------------
(***************************************************************************)
(* Proofs about the local-first writes of the MCP server: of one fact      *)
(* (LocalFirstWrites), for any processes, operations, keys, dates and      *)
(* faults, and of drawers (DrawerWrites), for any operation ids, drawers,  *)
(* intents and faults.                                                     *)
(*                                                                         *)
(* That palace and remote agree when all is settled is not inductive.  Of  *)
(* a fact, the invariant says that while no known case of the write path   *)
(* going wrong was met, what is on its way makes the remote's fact the     *)
(* local one, but for a single mutation, the last of all, that is          *)
(* committed here and that its call or the next start sends.  Of a drawer  *)
(* it says what its rows still owe the remote: a drawer that is held has   *)
(* an addition and no deletion past staging; one that is gone but is at    *)
(* the remote, or will be, has a deletion behind every addition; and an    *)
(* addition not yet done is the only row of its drawer.                    *)
(***************************************************************************)
EXTENDS LocalFirstWrites, DrawerWrites, FiniteSetTheorems, TLAPS

-----------------------------------------------------------------------------
(* Local-first writes of a fact: the invariant.                            *)

\* Only the processes of the setting run, and the rows of two operations differ in their sequence.
WritesTypes ==
  /\ TypeOK /\ setup \in Setups
  /\ \A p \in Procs \ setup.procs : proc[p] = Down
  /\ \A o \in Ops : IF op[o].state = "absent" THEN op[o].seq = 0 ELSE op[o].seq \in 1..lastSeq
  /\ \A o, x \in Ops : op[o].seq = op[x].seq /\ op[o].seq # 0 => o = x

\* A call in progress has an intent of its own, and a pass has one entry for each place.
PassesAndCalls ==
  /\ \A p \in Procs : proc[p].pc \in {"staged", "committed"} =>
       proc[p].call.op \in Ops /\ op[proc[p].call.op].state # "absent"
  /\ \A p \in Procs : \A e \in proc[p].todo :
       /\ e.op \in Ops /\ op[e.op].state # "absent" /\ e.revision <= op[e.op].revision
       /\ \A f \in proc[p].todo : e.seq = f.seq => e = f

InCall(p, o) == proc[p].pc \in {"staged", "committed"} /\ proc[p].call.op = o

\* Several processes: no two are in a call of one operation, a young intent in a call is not
\* cancelled, and a verdict against an intent is about one that is old or was settled meanwhile.
OthersKeepIntents ==
  /\ \A p, q \in Procs : \A o \in Ops : InCall(p, o) /\ InCall(q, o) => p = q
  /\ \A p \in Procs : \A o \in fresh :
       InCall(p, o) /\ proc[p].owned => op[o].state # "cancelled"
  /\ \A p \in Procs : \A e \in proc[p].todo :
       At(p, "deciding") /\ Visiting(p, e) /\ ~proc[p].verdict =>
         e.op \notin fresh \/ e.revision < op[e.op].revision

\* The last of what is on its way to the remote makes the fact open exactly if v.
Tells(v) ==
  /\ (\A o \in Ops : op[o].state # "queued") => remote = v
  /\ \A o \in Ops :
       op[o].state = "queued" /\ (\A x \in Ops : op[x].state = "queued" => op[x].seq <= op[o].seq)
         => (o \in Adds) = v

\* Committed here and not yet on its way.
Unsent == {o \in committed : op[o].state = "staged"}

\* One process: its call holds a staged intent and its pass knows every row it lists as it is.
OneServes ==
  \A p \in setup.procs :
    /\ \A o \in Ops : InCall(p, o) /\ proc[p].owned => op[o].state = "staged" /\ Current(proc[p].call)
    /\ \A e \in proc[p].todo : op[e.op].state = "staged" /\ Current(e) /\ op[e.op].seq = e.seq
    /\ proc[p].todo # {} => At(p, "probing") \/ At(p, "deciding")

\* One process that has not strayed: a call that stages is the last to tell the remote, one that
\* found its addition past staging repeats what still holds, and a verdict is still right.
OneCallsInOrder ==
  \A p \in setup.procs :
    /\ \A o \in Ops : InCall(p, o) =>
         IF proc[p].owned THEN IsLast(o) /\ (At(p, "staged") <=> o \notin committed)
         ELSE o \in Adds /\ fact.open /\ op[o].state \in {"queued", "delivered"}
    /\ At(p, "deciding") =>
         /\ ~EndedToday
         /\ \A e \in proc[p].todo : Visiting(p, e) => proc[p].verdict = LooksCommitted(e.op)

\* What one process committed and did not send is the last to tell the remote, the fact is as it left
\* it, and its call or the next start sends it; otherwise what is on its way tells the remote what
\* the fact is.
SentOrRecovered ==
  /\ committed \subseteq Ops /\ \A o \in committed : op[o].state # "cancelled"
  /\ \A o \in Unsent :
       /\ IsLast(o) /\ fact.known /\ fact.open = (o \in Adds)
       /\ \A p \in setup.procs :
            \/ InCall(p, o) \/ At(p, "down")
            \/ proc[p].startup /\ (At(p, "listing") \/ \E e \in proc[p].todo : e.op = o)
  /\ Unsent = {} => Tells(fact.open)

WritesInv ==
  /\ WritesTypes /\ PassesAndCalls
  /\ IF ServedByOne THEN OneServes /\ (~strayed => OneCallsInOrder /\ SentOrRecovered)
     ELSE ~strayed => OthersKeepIntents

-----------------------------------------------------------------------------
(* Steps of one process and of one row.                                    *)

LEMMA SettingIs ==
  ASSUME WritesTypes
  PROVE  /\ setup \in Setup /\ setup.procs \subseteq Procs
         /\ setup.maxFaults \in Nat /\ setup.keyed \subseteq Ops /\ setup.endsToday \subseteq BOOLEAN
         /\ \A p \in setup.procs : p \in Procs /\ (ServedByOne => setup.procs = {p})
<1>1. /\ setup \in Setup /\ setup.procs \subseteq Procs /\ setup.maxFaults \in Nat
      /\ setup.keyed \subseteq Ops /\ setup.endsToday \subseteq BOOLEAN
  BY ConstantsAssumption DEF WritesTypes, Setup
<1>2. ASSUME NEW p \in setup.procs, ServedByOne
      PROVE  setup.procs = {p}
  <2>1. IsFiniteSet(setup.procs)
    BY <1>1, FS_Subset, ConstantsAssumption
  <2>2. PICK q : setup.procs = {q}
    BY <1>2, <2>1, FS_Singleton DEF ServedByOne
  <2>3. QED
    BY <2>2
<1>3. QED
  BY <1>1, <1>2

LEMMA RowsAre ==
  ASSUME TypeOK, NEW o \in Ops
  PROVE  /\ op[o] \in OpRow /\ op[o].revision \in Nat /\ op[o].seq \in Nat /\ op[o].endsToday \in BOOLEAN
         /\ op[o].state \in {"absent", "staged", "queued", "delivered", "cancelled"}
BY DEF TypeOK, OpRow

LEMMA ProcessIs ==
  ASSUME TypeOK, NEW p \in Procs
  PROVE  /\ proc[p] \in Process /\ proc[p].todo \subseteq Entry /\ proc[p].call \in Entry
         /\ proc[p].startup \in BOOLEAN /\ proc[p].settled \in BOOLEAN
         /\ proc[p].verdict \in BOOLEAN /\ proc[p].owned \in BOOLEAN
BY DEF TypeOK, Process

LEMMA EntryIs ==
  ASSUME NEW e \in Entry
  PROVE  e.op \in Ops \cup {NoOp} /\ e.revision \in Nat /\ e.seq \in Nat
BY DEF Entry

LEMMA IdleIs ==
  /\ Down \in Process /\ [Down EXCEPT !.pc = "ready"] \in Process
  /\ Down.pc = "down" /\ Down.todo = {} /\ ~Down.startup
  /\ [Down EXCEPT !.pc = "ready"].pc = "ready" /\ [Down EXCEPT !.pc = "ready"].todo = {}
  /\ ~[Down EXCEPT !.pc = "ready"].startup
BY ConstantsAssumption DEF Down, Process, Entry, NoEntry

\* One process takes a step.
OnlyProc(p) ==
  /\ DOMAIN proc' = Procs /\ proc'[p] \in Process
  /\ \A q \in Procs : q # p => proc'[q] = proc[q]

LEMMA OnlyProcSet ==
  ASSUME TypeOK, NEW p \in Procs, NEW r \in Process, proc' = [proc EXCEPT ![p] = r]
  PROVE  OnlyProc(p) /\ proc'[p] = r
BY DEF TypeOK, OnlyProc

\* What a step of one process must keep to.
LEMMA StepOfProc ==
  ASSUME WritesTypes, PassesAndCalls, NEW p \in setup.procs, OnlyProc(p),
         setup' = setup, faults' \in 0..setup.maxFaults, committed' \subseteq Ops, fresh' \subseteq Ops,
         fact' \in Fact, strayed' \in BOOLEAN, UNCHANGED <<op, lastSeq, remote>>,
         proc'[p].pc \in {"staged", "committed"} =>
           proc'[p].call.op \in Ops /\ op[proc'[p].call.op].state # "absent",
         \A e \in proc'[p].todo :
           /\ e.op \in Ops /\ op[e.op].state # "absent" /\ e.revision <= op[e.op].revision
           /\ \A f \in proc'[p].todo : e.seq = f.seq => e = f
  PROVE  WritesTypes' /\ PassesAndCalls'
<1>1. p \in Procs /\ setup \in Setups /\ setup' = setup
  BY SettingIs DEF WritesTypes
<1>2. TypeOK'
  BY <1>1 DEF TypeOK, WritesTypes, OnlyProc
<1>3. WritesTypes'
  BY <1>1, <1>2 DEF WritesTypes, OnlyProc
<1>4. PassesAndCalls'
  BY <1>1 DEF PassesAndCalls, OnlyProc
<1>5. QED
  BY <1>3, <1>4

\* One row changes its state.
RowSet(o, state) ==
  /\ op' \in [Ops -> OpRow] /\ op'[o].state = state /\ op'[o].revision = op[o].revision + 1
  /\ op'[o].seq = op[o].seq /\ op'[o].endsToday = op[o].endsToday
  /\ \A x \in Ops : x # o => op'[x] = op[x]

LEMMA RowWithState ==
  ASSUME NEW row \in OpRow, NEW state \in {"queued", "delivered", "cancelled"}
  PROVE  LET new == [row EXCEPT !.state = state, !.revision = @ + 1]
         IN  /\ new \in OpRow /\ new.state = state /\ new.revision = row.revision + 1
             /\ new.seq = row.seq /\ new.endsToday = row.endsToday
<1>1. row.revision \in Nat /\ row.revision + 1 \in Nat
  BY DEF OpRow
<1>2. QED
  BY <1>1 DEF OpRow

LEMMA SetsRow ==
  ASSUME TypeOK, NEW e, e.op \in Ops, NEW state \in {"queued", "delivered", "cancelled"},
         op' = Set(e, state)
  PROVE  RowSet(e.op, state)
<1>1. op \in [Ops -> OpRow]
  BY DEF TypeOK
<1>2. PICK old \in OpRow : old = op[e.op]
  BY <1>1
<1> DEFINE new == [old EXCEPT !.state = state, !.revision = @ + 1]
<1>3. /\ new \in OpRow /\ new.state = state /\ new.revision = old.revision + 1
      /\ new.seq = old.seq /\ new.endsToday = old.endsToday
  BY RowWithState
<1>4. op' = [op EXCEPT ![e.op] = new]
  BY <1>1, <1>2 DEF Set
<1> HIDE DEF new
<1>5. QED
  BY <1>1, <1>2, <1>3, <1>4 DEF RowSet

\* Processes stay as they are, or end a step with less to visit, outside of calls and decisions.
ProcsEndSteps ==
  /\ DOMAIN proc' = Procs
  /\ \A q \in Procs :
       /\ proc'[q] \in Process /\ proc'[q].todo \subseteq proc[q].todo
       /\ proc'[q] = proc[q] \/ (q \in setup.procs /\ proc'[q].pc \in {"down", "probing", "ready"})

LEMMA ProcEndsStep ==
  ASSUME TypeOK, NEW p \in Procs, p \in setup.procs, OnlyProc(p), proc'[p].todo \subseteq proc[p].todo,
         proc'[p].pc \in {"down", "probing", "ready"}
  PROVE  ProcsEndSteps
BY DEF ProcsEndSteps, OnlyProc, TypeOK

\* A row that is there changes its state.
LEMMA StepOfRow ==
  ASSUME WritesTypes, PassesAndCalls, NEW o \in Ops, NEW state \in {"queued", "delivered", "cancelled"},
         RowSet(o, state), op[o].state # "absent", setup' = setup, ProcsEndSteps, remote' \in BOOLEAN,
         UNCHANGED <<lastSeq, fact, fresh, committed, faults, strayed>>
  PROVE  WritesTypes' /\ PassesAndCalls'
<1>1. setup \in Setups /\ op \in [Ops -> OpRow]
  BY DEF WritesTypes, TypeOK
<1>2. \A x \in Ops : op[x].revision \in Nat
  BY RowsAre DEF WritesTypes
<1>3. TypeOK'
  BY <1>1 DEF TypeOK, WritesTypes, ProcsEndSteps, RowSet
<1>4. /\ \A x \in Ops : op'[x].state = IF x = o THEN state ELSE op[x].state
      /\ \A x \in Ops : op'[x].seq = op[x].seq
      /\ \A x \in Ops : op'[x].revision = IF x = o THEN op[x].revision + 1 ELSE op[x].revision
  BY DEF RowSet
<1>5. WritesTypes'
  BY <1>1, <1>3, <1>4 DEF WritesTypes, ProcsEndSteps
<1>6. \A q \in Procs : /\ proc'[q].todo \subseteq proc[q].todo /\ proc[q].todo \subseteq Entry
                       /\ proc'[q].pc \in {"staged", "committed"} => proc'[q] = proc[q]
  BY ProcessIs DEF ProcsEndSteps, WritesTypes
<1>7. PassesAndCalls'
  <2>1. ASSUME NEW q \in Procs, NEW e \in proc'[q].todo
        PROVE  /\ e.op \in Ops /\ op'[e.op].state # "absent" /\ e.revision <= op'[e.op].revision
               /\ \A f \in proc'[q].todo : e.seq = f.seq => e = f
    <3>1. e \in proc[q].todo /\ e \in Entry /\ proc'[q].todo \subseteq proc[q].todo
      BY <1>6, <2>1
    <3>2. /\ e.op \in Ops /\ op[e.op].state # "absent" /\ e.revision <= op[e.op].revision
          /\ \A f \in proc[q].todo : e.seq = f.seq => e = f
      BY <3>1 DEF PassesAndCalls
    <3>3. QED
      BY <1>2, <1>4, <3>1, <3>2, EntryIs
  <2>2. \A q \in Procs : proc'[q].pc \in {"staged", "committed"} =>
          proc'[q].call.op \in Ops /\ op'[proc'[q].call.op].state # "absent"
    BY <1>4, <1>6 DEF PassesAndCalls
  <2>3. QED
    BY <2>1, <2>2 DEF PassesAndCalls
<1>8. QED
  BY <1>5, <1>7

-----------------------------------------------------------------------------
(* Starting and reconciling.                                               *)

LEMMA SnapshotIs ==
  ASSUME WritesTypes, NEW e \in Snapshot
  PROVE  /\ e.op \in Ops /\ op[e.op].state = "staged" /\ e.revision = op[e.op].revision
         /\ e.seq = op[e.op].seq /\ \A f \in Snapshot : e.seq = f.seq => e = f
<1>1. PICK o \in Ops : op[o].state = "staged" /\ e = [op |-> o, revision |-> op[o].revision, seq |-> op[o].seq]
  BY DEF Snapshot
<1>2. ASSUME NEW f \in Snapshot, e.seq = f.seq
      PROVE  e = f
  <2>1. PICK x \in Ops : op[x].state = "staged" /\ f = [op |-> x, revision |-> op[x].revision, seq |-> op[x].seq]
    BY DEF Snapshot
  <2>2. op[o].seq # 0 /\ op[o].seq = op[x].seq
    BY <1>1, <1>2, <2>1 DEF WritesTypes
  <2>3. o = x
    BY <2>2 DEF WritesTypes
  <2>4. QED
    BY <1>1, <2>1, <2>3
<1>3. QED
  BY <1>1, <1>2

LEMMA OneIsVisited ==
  ASSUME WritesTypes, PassesAndCalls, NEW p \in Procs, NEW e, Visiting(p, e), NEW f, Visiting(p, f)
  PROVE  e = f
<1>1. e \in proc[p].todo /\ f \in proc[p].todo /\ e.seq <= f.seq /\ f.seq <= e.seq
  BY DEF Visiting
<1>2. e.seq \in Nat /\ f.seq \in Nat
  BY <1>1, ProcessIs, EntryIs DEF WritesTypes
<1>3. e.seq = f.seq
  BY <1>1, <1>2
<1>4. QED
  BY <1>1, <1>3 DEF PassesAndCalls

\* A process goes on outside of calls.
LEMMA ProcGoesOn ==
  ASSUME WritesInv, NEW p \in setup.procs, OnlyProc(p), setup' = setup, faults' \in 0..setup.maxFaults,
         strayed' \in BOOLEAN, strayed => strayed',
         UNCHANGED <<op, lastSeq, fact, remote, fresh, committed>>,
         proc'[p].pc \notin {"staged", "committed"},
         proc'[p].todo \subseteq proc[p].todo \/ proc'[p].todo = Snapshot,
         ServedByOne /\ proc'[p].todo # {} => proc'[p].pc \in {"probing", "deciding"},
         proc'[p].pc = "deciding" =>
           \E e \in proc[p].todo : /\ proc'[p].todo = proc[p].todo /\ Visiting(p, e) /\ MayDecide(e)
                                   /\ proc'[p].verdict = LooksCommitted(e.op),
         ServedByOne /\ proc'[p].pc = "deciding" /\ ~strayed' => ~EndedToday,
         ServedByOne /\ ~strayed' => \A o \in Unsent :
           \/ proc'[p].pc = "down"
           \/ proc'[p].startup /\ (proc'[p].pc = "listing" \/ \E e \in proc'[p].todo : e.op = o)
  PROVE  WritesInv'
<1>1. p \in Procs /\ \A e \in proc[p].todo : e.op \in Ops /\ e.revision \in Nat
  BY SettingIs, ProcessIs, EntryIs DEF WritesInv, WritesTypes, PassesAndCalls
<1>2. WritesTypes' /\ PassesAndCalls'
  <2>1. ASSUME NEW e \in proc'[p].todo
        PROVE  /\ e.op \in Ops /\ op[e.op].state # "absent" /\ e.revision <= op[e.op].revision
               /\ \A f \in proc'[p].todo : e.seq = f.seq => e = f
    <3>1. CASE proc'[p].todo \subseteq proc[p].todo
      BY <1>1, <3>1 DEF WritesInv, PassesAndCalls
    <3>2. CASE proc'[p].todo = Snapshot
      BY <3>2, SnapshotIs, RowsAre DEF WritesInv, WritesTypes
    <3>3. QED
      BY <3>1, <3>2
  <2>2. fact' \in Fact /\ committed' \subseteq Ops /\ fresh' \subseteq Ops
    BY DEF WritesInv, WritesTypes, TypeOK
  <2>3. QED
    BY <2>1, <2>2, StepOfProc DEF WritesInv
<1>3. \A e : At(p, "deciding")' /\ Visiting(p, e)' =>
        e \in proc[p].todo /\ MayDecide(e) /\ proc'[p].verdict = LooksCommitted(e.op)
  <2>1. ASSUME NEW e, At(p, "deciding")', Visiting(p, e)'
        PROVE  e \in proc[p].todo /\ MayDecide(e) /\ proc'[p].verdict = LooksCommitted(e.op)
    <3>1. PICK f \in proc[p].todo : /\ proc'[p].todo = proc[p].todo /\ Visiting(p, f) /\ MayDecide(f)
                                    /\ proc'[p].verdict = LooksCommitted(f.op)
      BY <2>1 DEF At
    <3>2. Visiting(p, e)
      BY <2>1, <3>1 DEF Visiting
    <3>3. e = f
      BY <1>1, <3>1, <3>2, OneIsVisited DEF WritesInv
    <3>4. QED
      BY <3>1, <3>3
  <2>2. QED
    BY <2>1
<1>4. CASE ServedByOne
  <2>1. setup.procs = {p} /\ ServedByOne' /\ OneServes
    BY <1>4, SettingIs DEF WritesInv, ServedByOne
  <2>2. OneServes'
    <3>1. \A e \in proc'[p].todo : op[e.op].state = "staged" /\ Current(e) /\ op[e.op].seq = e.seq
      BY <1>4, <2>1, SnapshotIs DEF WritesInv, OneServes, Current
    <3>2. QED
      BY <1>4, <2>1, <3>1 DEF OneServes, InCall, Current, At
  <2>3. ASSUME ~strayed'
        PROVE  OneCallsInOrder' /\ SentOrRecovered'
    <3>1. OneCallsInOrder /\ SentOrRecovered /\ ~strayed
      BY <1>4, <2>3 DEF WritesInv
    <3>2. OneCallsInOrder'
      <4>1. At(p, "deciding")' => ~EndedToday'
        BY <1>4, <2>3 DEF EndedToday, At
      <4>2. At(p, "deciding")' =>
              \A e \in proc'[p].todo : Visiting(p, e)' => proc'[p].verdict = LooksCommitted(e.op)'
        BY <1>3 DEF LooksCommitted, FactIsCurrent
      <4>3. \A o \in Ops : ~InCall(p, o)'
        BY DEF InCall
      <4>4. QED
        BY <2>1, <4>1, <4>2, <4>3 DEF OneCallsInOrder
    <3>3. SentOrRecovered'
      <4>1. Unsent' = Unsent /\ \A o \in Ops : IsLast(o)' = IsLast(o)
        BY DEF Unsent, IsLast
      <4>2. Tells(fact.open) => Tells(fact.open)'
        BY DEF Tells
      <4>3. QED
        BY <1>4, <2>1, <2>3, <3>1, <4>1, <4>2 DEF SentOrRecovered, At, Unsent
    <3>4. QED
      BY <3>2, <3>3
  <2>4. QED
    BY <1>2, <2>1, <2>2, <2>3 DEF WritesInv
<1>5. CASE ~ServedByOne
  <2>1. ASSUME ~strayed, OthersKeepIntents
        PROVE  OthersKeepIntents'
    <3>1. \A q \in Procs : \A o \in Ops : InCall(q, o)' => InCall(q, o) /\ proc'[q] = proc[q]
      BY DEF OnlyProc, InCall
    <3>2. ASSUME NEW q \in Procs, NEW e \in proc'[q].todo,
                 At(q, "deciding")', Visiting(q, e)', ~proc'[q].verdict
          PROVE  e.op \notin fresh \/ e.revision < op[e.op].revision
      <4>1. CASE q = p
        <5>1. e \in proc[p].todo /\ MayDecide(e) /\ ~LooksCommitted(e.op)
          BY <1>3, <3>2, <4>1
        <5>2. e.revision <= op[e.op].revision /\ e.op \in Ops /\ e.revision \in Nat
          BY <1>1, <5>1 DEF WritesInv, PassesAndCalls
        <5>3. QED
          BY <5>1, <5>2, RowsAre DEF MayDecide, Current, WritesInv, WritesTypes
      <4>2. CASE q # p
        BY <2>1, <3>2, <4>2 DEF OthersKeepIntents, OnlyProc, At, Visiting
      <4>3. QED
        BY <4>1, <4>2
    <3>3. \A o \in fresh : o \in Ops
      BY DEF WritesInv, WritesTypes, TypeOK
    <3>4. QED
      BY <2>1, <3>1, <3>2, <3>3 DEF OthersKeepIntents
  <2>2. QED
    BY <1>2, <1>5, <2>1 DEF WritesInv, ServedByOne
<1>6. QED
  BY <1>4, <1>5

LEMMA ProcIsIn ==
  ASSUME WritesInv, NEW p \in setup.procs
  PROVE  /\ p \in Procs /\ WritesTypes /\ PassesAndCalls /\ TypeOK /\ proc[p] \in Process
         /\ faults \in 0..setup.maxFaults /\ setup.maxFaults \in Nat /\ strayed \in BOOLEAN
         /\ ServedByOne => setup.procs = {p} /\ OneServes
         /\ ServedByOne /\ ~strayed => OneCallsInOrder /\ SentOrRecovered
BY SettingIs, ProcessIs DEF WritesInv, WritesTypes, TypeOK

\* Nothing is unsent while the one process is up and has recovered.
LEMMA NothingUnsent ==
  ASSUME WritesInv, NEW p \in setup.procs, ServedByOne, ~strayed, ~At(p, "down"),
         ~At(p, "committed") \/ ~proc[p].owned,
         ~proc[p].startup \/ (proc[p].todo = {} /\ ~At(p, "listing"))
  PROVE  Unsent = {}
<1>1. ASSUME NEW o \in Unsent
      PROVE  FALSE
  <2>1. o \in Ops /\ o \in committed /\ InCall(p, o) /\ op[o].state = "staged"
    BY <1>1, ProcIsIn DEF SentOrRecovered, Unsent
  <2>2. proc[p].owned /\ (At(p, "staged") <=> o \notin committed)
    BY <2>1, ProcIsIn DEF OneCallsInOrder
  <2>3. QED
    BY <2>1, <2>2 DEF InCall, At
<1>2. QED
  BY <1>1

LEMMA ProcessStarts ==
  ASSUME WritesInv, NEW p \in setup.procs, Start(p), setup' = setup
  PROVE  WritesInv'
<1> DEFINE r == [proc[p] EXCEPT !.pc = "listing", !.startup = TRUE]
<1>1. /\ r \in Process /\ r.pc = "listing" /\ r.startup /\ r.todo = proc[p].todo
      /\ proc' = [proc EXCEPT ![p] = r] /\ proc[p].pc = "down"
  BY ProcIsIn DEF Start, Process, At
<1> HIDE DEF r
<1>2. OnlyProc(p) /\ proc'[p] = r
  BY <1>1, ProcIsIn, OnlyProcSet
<1>3. ServedByOne => proc[p].todo = {}
  BY <1>1, ProcIsIn DEF OneServes, At
<1>4. QED
  BY <1>1, <1>2, <1>3, ProcIsIn, ProcGoesOn DEF Start

LEMMA PassBegins ==
  ASSUME WritesInv, NEW p \in setup.procs, BeginPeriodic(p), setup' = setup
  PROVE  WritesInv'
<1> DEFINE r == [proc[p] EXCEPT !.pc = "listing", !.startup = FALSE]
<1>1. /\ r \in Process /\ r.pc = "listing" /\ ~r.startup /\ r.todo = proc[p].todo
      /\ proc' = [proc EXCEPT ![p] = r] /\ proc[p].pc = "ready"
  BY ProcIsIn DEF BeginPeriodic, Process, At
<1> HIDE DEF r
<1>2. OnlyProc(p) /\ proc'[p] = r
  BY <1>1, ProcIsIn, OnlyProcSet
<1>3. ServedByOne => proc[p].todo = {}
  BY <1>1, ProcIsIn DEF OneServes, At
<1>4. ServedByOne /\ ~strayed => Unsent = {}
  BY <1>1, <1>3, NothingUnsent DEF At
<1>5. QED
  BY <1>1, <1>2, <1>3, <1>4, ProcIsIn, ProcGoesOn DEF BeginPeriodic

LEMMA StagedAreListed ==
  ASSUME WritesInv, NEW p \in setup.procs, ListStaged(p), setup' = setup
  PROVE  WritesInv'
<1>1. proc[p].pc = "listing"
  BY DEF ListStaged, At
<1>2. \A o \in Unsent : Snapshot # {} /\ \E e \in Snapshot : e.op = o
  <2>1. ASSUME NEW o \in Unsent
        PROVE  \E e \in Snapshot : e.op = o
    <3>1. o \in Ops /\ op[o].state = "staged"
      BY ProcIsIn DEF Unsent, WritesTypes, TypeOK
    <3>2. [op |-> o, revision |-> op[o].revision, seq |-> op[o].seq] \in Snapshot
      BY <3>1 DEF Snapshot
    <3>3. QED
      BY <3>2
  <2>2. QED
    BY <2>1
<1>3. CASE Snapshot = {}
  <2> DEFINE r == [Down EXCEPT !.pc = "ready"]
  <2>1. r \in Process /\ r.pc = "ready" /\ r.todo = {} /\ proc' = [proc EXCEPT ![p] = r]
    BY <1>3, IdleIs DEF ListStaged
  <2> HIDE DEF r
  <2>2. OnlyProc(p) /\ proc'[p] = r
    BY <2>1, ProcIsIn, OnlyProcSet
  <2>3. QED
    BY <1>1, <1>2, <1>3, <2>1, <2>2, ProcIsIn, ProcGoesOn DEF ListStaged
<1>4. CASE Snapshot # {}
  <2> DEFINE r == [proc[p] EXCEPT !.pc = "probing", !.todo = Snapshot, !.settled = FALSE]
  <2>1. Snapshot \subseteq Entry
    BY ProcIsIn, RowsAre DEF Snapshot, Entry
  <2>2. /\ r \in Process /\ r.pc = "probing" /\ r.todo = Snapshot /\ r.startup = proc[p].startup
        /\ proc' = [proc EXCEPT ![p] = r]
    BY <1>4, <2>1, ProcIsIn DEF ListStaged, Process
  <2> HIDE DEF r
  <2>3. OnlyProc(p) /\ proc'[p] = r
    BY <2>2, ProcIsIn, OnlyProcSet
  <2>4. ServedByOne /\ ~strayed => proc[p].startup \/ Unsent = {}
    BY <1>1, NothingUnsent DEF At
  <2>5. QED
    BY <1>1, <1>2, <1>4, <2>2, <2>3, <2>4, ProcIsIn, ProcGoesOn DEF ListStaged
<1>5. QED
  BY <1>3, <1>4

\* What is unsent looks committed, but on the day the fact ended, so that no pass passes it over.
LEMMA UnsentLooksCommitted ==
  ASSUME WritesInv, NEW p \in setup.procs, ServedByOne, ~strayed, NEW o \in Unsent, ~EndedToday
  PROVE  LooksCommitted(o)
<1>1. fact.known /\ fact.open = (o \in Adds) /\ fact.open \in BOOLEAN /\ fact.lingering \in BOOLEAN
  BY ProcIsIn DEF SentOrRecovered, TypeOK, Fact
<1>2. QED
  BY <1>1 DEF LooksCommitted, FactIsCurrent, EndedToday

LEMMA IntentIsProbed ==
  ASSUME WritesInv, NEW p \in setup.procs, NEW e \in proc[p].todo, ProbeIntent(p, e), setup' = setup
  PROVE  WritesInv'
<1>1. /\ proc[p].pc = "probing" /\ Visiting(p, e) /\ strayed' \in BOOLEAN /\ (strayed => strayed')
      /\ ServedByOne /\ ~strayed' => ~strayed /\ ~EndedToday
      /\ UNCHANGED <<op, lastSeq, fact, remote, fresh, committed, faults>>
  BY ProcIsIn DEF ProbeIntent, At
<1>2. ServedByOne /\ ~strayed' => \A o \in Unsent : /\ LooksCommitted(o) /\ proc[p].startup
                                                    /\ \E f \in proc[p].todo : f.op = o
  <2>1. ASSUME ServedByOne, ~strayed', NEW o \in Unsent
        PROVE  /\ LooksCommitted(o) /\ proc[p].startup
               /\ \E f \in proc[p].todo : f.op = o
    <3>1. LooksCommitted(o) /\ SentOrRecovered /\ setup.procs = {p}
      BY <1>1, <2>1, ProcIsIn, UnsentLooksCommitted
    <3>2. QED
      BY <1>1, <2>1, <3>1 DEF SentOrRecovered, At, InCall
  <2>2. QED
    BY <2>1
<1>3. CASE Defers(e) /\ proc' = [proc EXCEPT ![p].todo = @ \ {e}]
  <2> DEFINE r == [proc[p] EXCEPT !.todo = @ \ {e}]
  <2>1. /\ r \in Process /\ r.pc = "probing" /\ r.todo = proc[p].todo \ {e}
        /\ r.startup = proc[p].startup /\ proc' = [proc EXCEPT ![p] = r]
    BY <1>1, <1>3, ProcIsIn DEF Process
  <2> HIDE DEF r
  <2>2. OnlyProc(p) /\ proc'[p] = r
    BY <2>1, ProcIsIn, OnlyProcSet
  <2>3. ServedByOne /\ ~strayed' => \A o \in Unsent : \E f \in r.todo : f.op = o
    BY <1>2, <1>3, <2>1 DEF Defers
  <2>4. QED
    BY <1>1, <1>2, <2>1, <2>2, <2>3, ProcIsIn, ProcGoesOn
<1>4. CASE /\ MayDecide(e)
           /\ proc' = [proc EXCEPT ![p].pc = "deciding", ![p].verdict = LooksCommitted(e.op)]
  <2> DEFINE r == [proc[p] EXCEPT !.pc = "deciding", !.verdict = LooksCommitted(e.op)]
  <2>1. LooksCommitted(e.op) \in BOOLEAN
    BY ProcIsIn DEF LooksCommitted, FactIsCurrent, TypeOK, Fact
  <2>2. /\ r \in Process /\ r.pc = "deciding" /\ r.todo = proc[p].todo
        /\ r.startup = proc[p].startup /\ r.verdict = LooksCommitted(e.op)
        /\ proc' = [proc EXCEPT ![p] = r]
    BY <1>1, <1>4, <2>1, ProcIsIn DEF Process
  <2> HIDE DEF r
  <2>3. OnlyProc(p) /\ proc'[p] = r
    BY <2>2, ProcIsIn, OnlyProcSet
  <2>4. QED
    BY <1>1, <1>2, <1>4, <2>2, <2>3, ProcIsIn, ProcGoesOn
<1>5. QED
  BY <1>3, <1>4 DEF ProbeIntent

LEMMA PassEnds ==
  ASSUME WritesInv, NEW p \in setup.procs, EndPass(p), setup' = setup
  PROVE  WritesInv'
<1>1. proc[p].pc = "probing" /\ proc[p].todo = {}
  BY DEF EndPass, At
<1>2. ServedByOne /\ ~strayed => Unsent = {}
  BY <1>1, NothingUnsent DEF At
<1> DEFINE r == IF proc[p].settled THEN [proc[p] EXCEPT !.pc = "listing"] ELSE [Down EXCEPT !.pc = "ready"]
<1>3. r \in Process /\ r.pc \in {"listing", "ready"} /\ r.todo = {} /\ proc' = [proc EXCEPT ![p] = r]
  BY <1>1, IdleIs, ProcIsIn DEF EndPass, Process
<1> HIDE DEF r
<1>4. OnlyProc(p) /\ proc'[p] = r
  BY <1>3, ProcIsIn, OnlyProcSet
<1>5. QED
  BY <1>1, <1>2, <1>3, <1>4, ProcIsIn, ProcGoesOn DEF EndPass

\* One more fault is below the bound.
LEMMA FaultIsCounted ==
  ASSUME WritesInv, NEW p \in setup.procs, faults < setup.maxFaults
  PROVE  faults + 1 \in 0..setup.maxFaults
BY ProcIsIn

LEMMA ProcessCrashes ==
  ASSUME WritesInv, NEW p \in setup.procs, Crash(p), setup' = setup
  PROVE  WritesInv'
<1>1. OnlyProc(p) /\ proc'[p] = Down
  BY IdleIs, ProcIsIn, OnlyProcSet DEF Crash
<1>2. faults' \in 0..setup.maxFaults
  BY FaultIsCounted DEF Crash
<1>3. QED
  BY <1>1, <1>2, IdleIs, ProcIsIn, ProcGoesOn DEF Crash

LEMMA CancellationFails ==
  ASSUME WritesInv, NEW p \in setup.procs, FailCancel(p), setup' = setup
  PROVE  WritesInv'
<1>1. OnlyProc(p) /\ proc'[p] = [Down EXCEPT !.pc = "ready"]
  BY IdleIs, ProcIsIn, OnlyProcSet DEF FailCancel
<1>2. faults' \in 0..setup.maxFaults /\ proc[p].pc = "staged"
  BY FaultIsCounted DEF FailCancel, At
<1>3. ServedByOne => proc[p].todo = {}
  BY <1>2, ProcIsIn DEF OneServes, At
<1>4. ServedByOne /\ ~strayed => Unsent = {}
  BY <1>2, <1>3, NothingUnsent DEF At
<1>5. QED
  BY <1>1, <1>2, <1>4, IdleIs, ProcIsIn, ProcGoesOn DEF FailCancel

-----------------------------------------------------------------------------
(* Rows that change their state.                                           *)

LEMMA QueuedTells ==
  ASSUME WritesTypes, NEW o \in Ops, RowSet(o, "queued"), remote' = remote, op[o].state = "staged",
         NEW v \in BOOLEAN, (o \in Adds) = v, Tells(v) \/ IsLast(o)
  PROVE  Tells(v)'
<1>1. /\ \A x \in Ops : op'[x].seq = op[x].seq /\ op'[x].seq \in Nat
      /\ \A x \in Ops : op'[x].state = "queued" <=> x = o \/ op[x].state = "queued"
  BY RowsAre DEF RowSet, WritesTypes
<1>2. ASSUME NEW x \in Ops, op'[x].state = "queued",
             \A y \in Ops : op'[y].state = "queued" => op'[y].seq <= op'[x].seq
      PROVE  (x \in Adds) = v
  <2>1. CASE x = o
    BY <2>1
  <2>2. CASE x # o
    <3>1. op[o].seq <= op[x].seq /\ op[x].state = "queued"
      BY <1>1, <1>2, <2>2
    <3>2. ~IsLast(o)
      <4>1. /\ op[x].seq # op[o].seq /\ op[x].seq \in Nat /\ op[o].seq \in Nat
        BY <1>1, <2>2, <3>1 DEF WritesTypes
      <4>2. QED
        BY <3>1, <4>1 DEF IsLast
    <3>3. Tells(v)
      BY <3>2
    <3>4. QED
      BY <1>1, <1>2, <3>1, <3>3 DEF Tells
  <2>3. QED
    BY <2>1, <2>2
<1>3. QED
  BY <1>1, <1>2 DEF Tells

LEMMA CancelledTells ==
  ASSUME NEW o \in Ops, RowSet(o, "cancelled"), remote' = remote, op[o].state = "staged",
         NEW v \in BOOLEAN, Tells(v)
  PROVE  Tells(v)'
<1>1. /\ \A x \in Ops : op'[x].seq = op[x].seq
      /\ \A x \in Ops : op'[x].state = "queued" <=> op[x].state = "queued"
  BY DEF RowSet
<1>2. QED
  BY <1>1 DEF Tells

LEMMA DeliveredTells ==
  ASSUME WritesTypes, NEW o \in Ops, RowSet(o, "delivered"), remote' = (o \in Adds), Deliverable(o),
         NEW v \in BOOLEAN, Tells(v)
  PROVE  Tells(v)'
<1>1. /\ \A x \in Ops : op'[x].seq = op[x].seq /\ op[x].seq \in Nat
      /\ \A x \in Ops : op'[x].state = "queued" <=> x # o /\ op[x].state = "queued"
  BY RowsAre DEF RowSet, WritesTypes
<1>2. \A x \in Ops : op[x].state = "queued" => op[o].seq <= op[x].seq
  BY <1>1 DEF Deliverable
<1>3. CASE \A x \in Ops : op'[x].state # "queued"
  <2>1. \A x \in Ops : op[x].state = "queued" => x = o
    BY <1>1, <1>3
  <2>2. (o \in Adds) = v
    BY <1>1, <2>1 DEF Tells, Deliverable
  <2>3. QED
    BY <1>3, <2>2 DEF Tells
<1>4. CASE \E x \in Ops : op'[x].state = "queued"
  <2>1. ASSUME NEW x \in Ops, op'[x].state = "queued",
               \A y \in Ops : op'[y].state = "queued" => op'[y].seq <= op'[x].seq
        PROVE  (x \in Adds) = v
    <3>1. \A y \in Ops : op[y].state = "queued" => op[y].seq <= op[x].seq
      BY <1>1, <1>2, <2>1
    <3>2. QED
      BY <1>1, <2>1, <3>1 DEF Tells
  <2>2. QED
    BY <1>4, <2>1 DEF Tells
<1>5. QED
  BY <1>3, <1>4

\* The last stays the last whatever row is settled.
LEMMA LastStaysLast ==
  ASSUME NEW o \in Ops, NEW state \in {"queued", "delivered", "cancelled"}, RowSet(o, state),
         op[o].state # "cancelled", NEW x \in Ops, IsLast(x)
  PROVE  IsLast(x)'
BY DEF IsLast, RowSet

\* Several processes: a young intent in a call is cancelled by its call only.
LEMMA OthersAfterRow ==
  ASSUME WritesTypes, PassesAndCalls, OthersKeepIntents, NEW o \in Ops,
         NEW state \in {"queued", "delivered", "cancelled"}, RowSet(o, state), ProcsEndSteps,
         state = "cancelled" => o \notin fresh \/ \A q \in Procs : ~InCall(q, o)', fresh' = fresh
  PROVE  OthersKeepIntents'
<1>1. \A x \in Ops : /\ op'[x].state = IF x = o THEN state ELSE op[x].state
                     /\ op[x].revision <= op'[x].revision
                     /\ op[x].revision \in Nat /\ op'[x].revision \in Nat
  BY RowsAre DEF RowSet, WritesTypes
<1>2. \A q \in Procs : \A x \in Ops : InCall(q, x)' => InCall(q, x) /\ proc'[q] = proc[q]
  BY DEF ProcsEndSteps, InCall
<1>3. \A q \in Procs : At(q, "deciding")' => proc'[q] = proc[q]
  BY DEF ProcsEndSteps, At
<1>4. ASSUME NEW q \in Procs, NEW e \in proc'[q].todo,
             At(q, "deciding")', Visiting(q, e)', ~proc'[q].verdict
      PROVE  e.op \notin fresh' \/ e.revision < op'[e.op].revision
  <2>1. proc'[q] = proc[q] /\ e.op \in Ops /\ e \in Entry
    BY <1>3, <1>4, ProcessIs DEF PassesAndCalls, WritesTypes
  <2>2. e.op \notin fresh \/ e.revision < op[e.op].revision
    BY <1>4, <2>1 DEF OthersKeepIntents, At, Visiting
  <2>3. QED
    BY <1>1, <2>1, <2>2, EntryIs
<1>5. fresh \subseteq Ops
  BY DEF WritesTypes, TypeOK
<1>6. QED
  BY <1>1, <1>2, <1>4, <1>5 DEF OthersKeepIntents

\* One process: what a settled row leaves.
LEMMA UnsentAfterRow ==
  ASSUME NEW o \in Ops, NEW state \in {"queued", "delivered", "cancelled"}, RowSet(o, state),
         committed' = committed, committed \subseteq Ops
  PROVE  Unsent' = Unsent \ {o}
BY DEF Unsent, RowSet

LEMMA VerdictIsCarriedOut ==
  ASSUME WritesInv, NEW p \in setup.procs, NEW e \in proc[p].todo, Decide(p, e), Current(e),
         setup' = setup
  PROVE  WritesInv'
<1> DEFINE o == e.op
           state == IF proc[p].verdict THEN "queued" ELSE "cancelled"
           r == [proc[p] EXCEPT !.pc = "probing", !.todo = @ \ {e}, !.settled = TRUE]
<1>1. /\ o \in Ops /\ op[o].state # "absent" /\ e \in Entry /\ proc[p].todo \subseteq Entry
      /\ Visiting(p, e) /\ proc[p].pc = "deciding" /\ proc[p].verdict \in BOOLEAN
      /\ state \in {"queued", "cancelled"}
  BY ProcIsIn, ProcessIs DEF Decide, PassesAndCalls, At
<1>2. RowSet(o, state)
  BY <1>1, ProcIsIn, SetsRow DEF Decide
<1>3. /\ r \in Process /\ r.pc = "probing" /\ r.todo = proc[p].todo \ {e}
      /\ r.startup = proc[p].startup /\ proc' = [proc EXCEPT ![p] = r]
  BY <1>1, ProcIsIn DEF Process, Decide
<1> HIDE DEF r
<1>4. OnlyProc(p) /\ proc'[p] = r
  BY <1>3, ProcIsIn, OnlyProcSet
<1>5. ProcsEndSteps
  BY <1>3, <1>4, ProcIsIn, ProcEndsStep
<1>6. WritesTypes' /\ PassesAndCalls' /\ strayed' = strayed
  <2>1. remote' \in BOOLEAN /\ UNCHANGED <<lastSeq, fact, fresh, committed, faults, strayed>>
    BY ProcIsIn DEF Decide, TypeOK
  <2>2. QED
    BY <1>1, <1>2, <1>5, <2>1, ProcIsIn, StepOfRow
<1> HIDE DEF state
<1>7. CASE ServedByOne
  <2>1. setup.procs = {p} /\ ServedByOne' /\ OneServes
    BY <1>7, ProcIsIn DEF ServedByOne
  <2>2. /\ op[o].state = "staged" /\ op[o].seq = e.seq
        /\ \A f \in proc[p].todo : op[f.op].state = "staged" /\ Current(f) /\ op[f.op].seq = f.seq
    BY <2>1 DEF OneServes
  <2>3. \A f \in r.todo : f \in proc[p].todo /\ f.op \in Ops /\ f.op # o
    BY <1>3, <2>2, ProcIsIn DEF PassesAndCalls
  <2>4. OneServes'
    <3>1. \A f \in r.todo : op'[f.op].state = "staged" /\ Current(f)' /\ op'[f.op].seq = f.seq
      BY <1>2, <2>2, <2>3 DEF RowSet, Current
    <3>2. QED
      BY <1>3, <1>4, <2>1, <3>1 DEF OneServes, InCall, At
  <2>5. ASSUME ~strayed
        PROVE  OneCallsInOrder' /\ SentOrRecovered'
    <3>1. /\ OneCallsInOrder /\ SentOrRecovered /\ ~EndedToday
          /\ proc[p].verdict = LooksCommitted(o)
      BY <1>1, <1>7, <2>1, <2>5, ProcIsIn DEF OneCallsInOrder, At
    <3>2. OneCallsInOrder'
      BY <1>3, <1>4, <2>1 DEF OneCallsInOrder, InCall, At
    <3>3. Unsent' = Unsent \ {o} /\ UNCHANGED <<lastSeq, fact, committed, remote>>
      BY <1>1, <1>2, <3>1, UnsentAfterRow DEF Decide, SentOrRecovered
    <3>4. o \in committed => o \in Unsent /\ state = "queued"
      <4>1. o \in committed => o \in Unsent /\ LooksCommitted(o)
        BY <1>1, <1>7, <2>2, <2>5, <3>1, UnsentLooksCommitted DEF Unsent
      <4>2. QED
        BY <3>1, <4>1 DEF state
    <3>5. \A x \in committed : op'[x].state # "cancelled"
      BY <1>2, <3>1, <3>4 DEF SentOrRecovered, RowSet
    <3>6. ASSUME NEW x \in Unsent'
          PROVE  /\ IsLast(x)' /\ fact'.known /\ fact'.open = (x \in Adds)
                 /\ proc'[p].startup /\ \E f \in proc'[p].todo : f.op = x
      <4>1. x \in Unsent /\ x # o /\ x \in Ops
        BY <3>1, <3>3 DEF Unsent, SentOrRecovered
      <4>2. /\ IsLast(x) /\ fact.known /\ fact.open = (x \in Adds)
            /\ proc[p].startup /\ \E f \in proc[p].todo : f.op = x
        BY <1>1, <2>1, <3>1, <4>1 DEF SentOrRecovered, InCall, At
      <4>3. IsLast(x)'
        BY <1>1, <1>2, <2>2, <4>1, <4>2, LastStaysLast
      <4>4. QED
        BY <1>3, <1>4, <3>3, <4>1, <4>2, <4>3
    <3>7. ASSUME Unsent' = {}
          PROVE  Tells(fact.open)'
      <4>1. fact.open \in BOOLEAN /\ fact.lingering \in BOOLEAN /\ fact' = fact
        BY <3>3, ProcIsIn DEF TypeOK, Fact
      <4>2. CASE state = "queued"
        <5>1. LooksCommitted(o)
          BY <3>1, <4>2 DEF state
        <5>2. (o \in Adds) = fact.open
          BY <3>1, <4>1, <5>1 DEF LooksCommitted, FactIsCurrent, EndedToday
        <5>3. Tells(fact.open) \/ IsLast(o)
          <6>1. Unsent = {} \/ o \in Unsent
            BY <3>3, <3>7
          <6>2. QED
            BY <3>1, <6>1 DEF SentOrRecovered
        <5>4. QED
          BY <1>1, <1>2, <2>2, <3>3, <4>1, <4>2, <5>2, <5>3, ProcIsIn, QueuedTells
      <4>3. CASE state = "cancelled"
        <5>1. Unsent = {}
          BY <3>3, <3>4, <3>7, <4>3 DEF Unsent
        <5>2. QED
          BY <1>1, <1>2, <2>2, <3>1, <3>3, <4>1, <4>3, <5>1, CancelledTells DEF SentOrRecovered
      <4>4. QED
        BY <1>1, <4>2, <4>3
    <3>8. SentOrRecovered'
      BY <2>1, <3>1, <3>3, <3>5, <3>6, <3>7 DEF SentOrRecovered
    <3>9. QED
      BY <3>2, <3>8
  <2>6. QED
    BY <1>6, <2>1, <2>4, <2>5 DEF WritesInv
<1>8. CASE ~ServedByOne
  <2>1. ASSUME ~strayed, OthersKeepIntents
        PROVE  OthersKeepIntents'
    <3>1. state = "cancelled" => o \notin fresh
      <4>1. ASSUME state = "cancelled"
            PROVE  o \notin fresh
        <5>1. ~proc[p].verdict /\ e.revision = op[o].revision
          BY <4>1 DEF state, Current
        <5>2. QED
          BY <1>1, <2>1, <5>1, ProcIsIn, EntryIs DEF OthersKeepIntents, At
      <4>2. QED
        BY <4>1
    <3>2. fresh' = fresh
      BY DEF Decide
    <3>3. QED
      BY <1>1, <1>2, <1>5, <2>1, <3>1, <3>2, ProcIsIn, OthersAfterRow
  <2>2. QED
    BY <1>6, <1>8, <2>1 DEF WritesInv, ServedByOne
<1>9. QED
  BY <1>7, <1>8

LEMMA VerdictComesLate ==
  ASSUME WritesInv, NEW p \in setup.procs, NEW e \in proc[p].todo, Decide(p, e), ~Current(e),
         setup' = setup
  PROVE  WritesInv'
<1>1. ~ServedByOne /\ proc[p].pc = "deciding"
  BY ProcIsIn DEF OneServes, Decide, At
<1>2. UNCHANGED <<op, lastSeq, fact, remote, fresh, committed, faults, strayed>>
  BY DEF Decide
<1>3. CASE Compatible(e, proc[p].verdict)
  <2> DEFINE r == [proc[p] EXCEPT !.pc = "probing", !.todo = @ \ {e}, !.settled = TRUE]
  <2>1. /\ r \in Process /\ r.pc = "probing" /\ r.todo = proc[p].todo \ {e}
        /\ proc' = [proc EXCEPT ![p] = r]
    BY <1>3, ProcIsIn DEF Process, Decide
  <2> HIDE DEF r
  <2>2. OnlyProc(p) /\ proc'[p] = r
    BY <2>1, ProcIsIn, OnlyProcSet
  <2>3. QED
    BY <1>1, <1>2, <2>1, <2>2, ProcIsIn, ProcGoesOn
<1>4. CASE ~Compatible(e, proc[p].verdict)
  <2> DEFINE r == IF proc[p].startup THEN Down ELSE [Down EXCEPT !.pc = "ready"]
  <2>1. r \in Process /\ r.pc \in {"down", "ready"} /\ r.todo = {} /\ proc' = [proc EXCEPT ![p] = r]
    BY <1>4, IdleIs DEF Decide
  <2> HIDE DEF r
  <2>2. OnlyProc(p) /\ proc'[p] = r
    BY <2>1, ProcIsIn, OnlyProcSet
  <2>3. QED
    BY <1>1, <1>2, <2>1, <2>2, ProcIsIn, ProcGoesOn
<1>5. QED
  BY <1>3, <1>4

LEMMA CallIs ==
  ASSUME WritesInv, NEW p \in setup.procs, At(p, "staged") \/ At(p, "committed")
  PROVE  /\ proc[p].call.op \in Ops /\ op[proc[p].call.op].state # "absent" /\ proc[p].call \in Entry
         /\ InCall(p, proc[p].call.op)
         /\ ServedByOne =>
              /\ proc[p].todo = {}
              /\ proc[p].owned => op[proc[p].call.op].state = "staged" /\ Current(proc[p].call)
         /\ ServedByOne /\ ~strayed =>
              IF proc[p].owned
                THEN IsLast(proc[p].call.op) /\ (At(p, "staged") <=> proc[p].call.op \notin committed)
                ELSE /\ proc[p].call.op \in Adds /\ fact.open
                     /\ op[proc[p].call.op].state \in {"queued", "delivered"}
<1>1. /\ proc[p].call.op \in Ops /\ op[proc[p].call.op].state # "absent" /\ proc[p].call \in Entry
      /\ InCall(p, proc[p].call.op)
  BY ProcIsIn, ProcessIs DEF PassesAndCalls, At, InCall
<1>2. ASSUME ServedByOne
      PROVE  /\ proc[p].todo = {}
             /\ proc[p].owned => op[proc[p].call.op].state = "staged" /\ Current(proc[p].call)
  BY <1>1, <1>2, ProcIsIn DEF OneServes, At
<1>3. ASSUME ServedByOne, ~strayed
      PROVE  IF proc[p].owned
               THEN IsLast(proc[p].call.op) /\ (At(p, "staged") <=> proc[p].call.op \notin committed)
               ELSE /\ proc[p].call.op \in Adds /\ fact.open
                    /\ op[proc[p].call.op].state \in {"queued", "delivered"}
  BY <1>1, <1>3, ProcIsIn DEF OneCallsInOrder
<1>4. QED
  BY <1>1, <1>2, <1>3

\* A call ends with its row.
LEMMA CallEndsWithRow ==
  ASSUME WritesInv, NEW p \in setup.procs, At(p, "staged") \/ At(p, "committed"), setup' = setup,
         NEW state \in {"queued", "cancelled"}, RowSet(proc[p].call.op, state),
         proc' = [proc EXCEPT ![p] = [Down EXCEPT !.pc = "ready"]],
         UNCHANGED <<lastSeq, fact, remote, fresh, committed, faults, strayed>>,
         ServedByOne /\ ~strayed => proc[p].owned /\ (At(p, "committed") <=> state = "queued")
  PROVE  WritesInv'
<1> DEFINE r == [Down EXCEPT !.pc = "ready"]
<1>1. PICK o \in Ops : /\ o = proc[p].call.op /\ op[o].state # "absent" /\ InCall(p, o)
                       /\ RowSet(o, state)
  BY CallIs
<1>2. r \in Process /\ r.pc = "ready" /\ r.todo = {} /\ proc' = [proc EXCEPT ![p] = r]
  BY IdleIs
<1> HIDE DEF r
<1>3. OnlyProc(p) /\ proc'[p] = r
  BY <1>2, ProcIsIn, OnlyProcSet
<1>4. ProcsEndSteps
  BY <1>2, <1>3, ProcIsIn, ProcEndsStep
<1>5. WritesTypes' /\ PassesAndCalls'
  <2>1. remote' \in BOOLEAN
    BY ProcIsIn DEF TypeOK
  <2>2. QED
    BY <1>1, <1>4, <2>1, ProcIsIn, StepOfRow
<1>6. CASE ServedByOne
  <2>1. setup.procs = {p} /\ ServedByOne' /\ OneServes
    BY <1>6, ProcIsIn DEF ServedByOne
  <2>2. OneServes'
    BY <1>2, <1>3, <2>1 DEF OneServes, InCall, At
  <2>3. ASSUME ~strayed
        PROVE  OneCallsInOrder' /\ SentOrRecovered'
    <3>1. /\ SentOrRecovered /\ committed \subseteq Ops
          /\ proc[p].todo = {} /\ op[o].state = "staged" /\ IsLast(o)
          /\ At(p, "staged") <=> o \notin committed
      BY <1>1, <1>6, <2>3, CallIs, ProcIsIn DEF SentOrRecovered
    <3>2. OneCallsInOrder'
      BY <1>2, <1>3, <2>1 DEF OneCallsInOrder, InCall, At
    <3>3. Unsent' = Unsent \ {o} /\ \A x \in Unsent : x = o
      <4>1. Unsent' = Unsent \ {o}
        BY <1>1, <3>1, UnsentAfterRow
      <4>2. ASSUME NEW x \in Unsent
            PROVE  x = o
        <5>1. CASE InCall(p, x)
          BY <1>1, <5>1 DEF InCall
        <5>2. CASE ~InCall(p, x)
          BY <2>1, <3>1, <4>2, <5>2 DEF SentOrRecovered, At
        <5>3. QED
          BY <5>1, <5>2
      <4>3. QED
        BY <4>1, <4>2
    <3>4. fact.open \in BOOLEAN
      BY ProcIsIn DEF TypeOK, Fact
    <3>5. Tells(fact.open)' /\ \A x \in committed : op'[x].state # "cancelled"
      <4>1. CASE At(p, "committed")
        <5>1. state = "queued" /\ o \in Unsent
          BY <1>6, <2>3, <3>1, <4>1 DEF Unsent, At
        <5>2. Tells(fact.open)'
          BY <1>1, <3>1, <3>4, <5>1, ProcIsIn, QueuedTells DEF SentOrRecovered
        <5>3. \A x \in committed : op'[x].state # "cancelled"
          BY <1>1, <3>1, <5>1 DEF RowSet, SentOrRecovered
        <5>4. QED
          BY <5>2, <5>3
      <4>2. CASE ~At(p, "committed")
        <5>1. state = "cancelled" /\ o \notin committed /\ Unsent = {}
          BY <1>1, <1>6, <2>3, <3>1, <3>3, <4>2 DEF Unsent, At
        <5>2. Tells(fact.open)'
          BY <1>1, <3>1, <3>4, <5>1, CancelledTells DEF SentOrRecovered
        <5>3. QED
          BY <1>1, <3>1, <5>1, <5>2 DEF RowSet, SentOrRecovered
      <4>3. QED
        BY <4>1, <4>2
    <3>6. Unsent' = {}
      BY <3>3
    <3>7. SentOrRecovered'
      BY <3>1, <3>5, <3>6 DEF SentOrRecovered
    <3>8. QED
      BY <3>2, <3>7
  <2>4. QED
    BY <1>5, <2>1, <2>2, <2>3 DEF WritesInv
<1>7. CASE ~ServedByOne
  <2>1. ASSUME ~strayed, OthersKeepIntents
        PROVE  OthersKeepIntents'
    <3>1. \A q \in Procs : ~InCall(q, o)'
      BY <1>1, <1>2, <1>3, <2>1, ProcIsIn DEF OthersKeepIntents, OnlyProc, InCall
    <3>2. QED
      BY <1>1, <1>4, <2>1, <3>1, ProcIsIn, OthersAfterRow
  <2>2. QED
    BY <1>5, <1>7, <2>1 DEF WritesInv, ServedByOne
<1>8. QED
  BY <1>6, <1>7

\* A call of one process that staged nothing, or of several that finds its row changed, ends without.
LEMMA CallEndsWithout ==
  ASSUME WritesInv, NEW p \in setup.procs, At(p, "staged") \/ At(p, "committed"), setup' = setup,
         ServedByOne => ~proc[p].owned, proc' = [proc EXCEPT ![p] = [Down EXCEPT !.pc = "ready"]],
         UNCHANGED <<op, lastSeq, fact, remote, fresh, committed, faults, strayed>>
  PROVE  WritesInv'
<1>1. OnlyProc(p) /\ proc'[p] = [Down EXCEPT !.pc = "ready"]
  BY IdleIs, ProcIsIn, OnlyProcSet
<1>2. ServedByOne /\ ~strayed => Unsent = {}
  BY CallIs, NothingUnsent DEF At
<1>3. QED
  BY <1>1, <1>2, IdleIs, ProcIsIn, ProcGoesOn

LEMMA WriteFailsHere ==
  ASSUME WritesInv, NEW p \in setup.procs, FailLocal(p), setup' = setup
  PROVE  WritesInv'
<1>1. At(p, "staged") /\ ~At(p, "committed") /\ proc[p].call.op \in Ops
  BY CallIs DEF FailLocal, At
<1>2. CASE Current(proc[p].call) /\ op[proc[p].call.op].state = "staged"
  <2>1. RowSet(proc[p].call.op, "cancelled")
    BY <1>1, <1>2, ProcIsIn, SetsRow DEF FailLocal
  <2>2. ServedByOne /\ ~strayed => proc[p].owned
    BY <1>1, <1>2, CallIs
  <2>3. QED
    BY <1>1, <2>1, <2>2, CallEndsWithRow DEF FailLocal
<1>3. CASE ~(Current(proc[p].call) /\ op[proc[p].call.op].state = "staged")
  <2>1. ServedByOne => ~proc[p].owned
    BY <1>1, <1>3, CallIs
  <2>2. QED
    BY <1>1, <1>3, <2>1, CallEndsWithout DEF FailLocal
<1>4. QED
  BY <1>2, <1>3

LEMMA CallFinishes ==
  ASSUME WritesInv, NEW p \in setup.procs, FinishCall(p), setup' = setup
  PROVE  WritesInv'
<1>1. At(p, "committed") /\ proc[p].call.op \in Ops
  BY CallIs DEF FinishCall
<1>2. CASE proc[p].owned /\ Current(proc[p].call)
  <2>1. RowSet(proc[p].call.op, "queued")
    BY <1>1, <1>2, ProcIsIn, SetsRow DEF FinishCall
  <2>2. QED
    BY <1>1, <1>2, <2>1, CallEndsWithRow DEF FinishCall
<1>3. CASE ~(proc[p].owned /\ Current(proc[p].call))
  <2>1. ServedByOne => ~proc[p].owned
    BY <1>1, <1>3, CallIs
  <2>2. QED
    BY <1>1, <1>3, <2>1, CallEndsWithout DEF FinishCall
<1>4. QED
  BY <1>2, <1>3

LEMMA OperationArrives ==
  ASSUME WritesInv, NEW o \in setup.ops, Deliver(o), setup' = setup
  PROVE  WritesInv'
<1>1. /\ WritesTypes /\ PassesAndCalls /\ TypeOK /\ o \in Ops /\ op[o].state = "queued"
      /\ Deliverable(o)
  BY SettingIs DEF WritesInv, WritesTypes, Setup, Deliver, Deliverable
<1>2. RowSet(o, "delivered")
  BY <1>1, SetsRow DEF Deliver
<1>3. /\ remote' = (o \in Adds) /\ remote' \in BOOLEAN /\ proc' = proc
      /\ UNCHANGED <<lastSeq, fact, fresh, committed, faults, strayed>>
  BY DEF Deliver
<1>4. ProcsEndSteps
  BY <1>1, <1>3 DEF ProcsEndSteps, TypeOK
<1>5. WritesTypes' /\ PassesAndCalls'
  BY <1>1, <1>2, <1>3, <1>4, StepOfRow
<1>6. CASE ServedByOne
  <2>1. ServedByOne' /\ OneServes
    BY <1>6 DEF WritesInv, ServedByOne
  <2>2. OneServes'
    <3>1. ASSUME NEW p \in setup.procs
          PROVE  /\ \A x \in Ops : InCall(p, x) /\ proc[p].owned => x # o
                 /\ \A e \in proc[p].todo : e.op \in Ops /\ e.op # o
      <4>1. p \in Procs
        BY <1>1, SettingIs
      <4>2. QED
        BY <1>1, <2>1, <4>1 DEF OneServes, PassesAndCalls
    <3>2. ASSUME NEW p \in setup.procs, NEW x \in Ops, InCall(p, x)', proc'[p].owned
          PROVE  op'[x].state = "staged" /\ Current(proc[p].call)'
      <4>1. InCall(p, x) /\ x # o /\ proc[p].call.op = x /\ proc[p].owned
        BY <1>3, <3>1, <3>2 DEF InCall
      <4>2. op'[x] = op[x]
        BY <1>2, <4>1 DEF RowSet
      <4>3. QED
        BY <1>3, <2>1, <4>1, <4>2 DEF OneServes, Current
    <3>3. ASSUME NEW p \in setup.procs, NEW e \in proc'[p].todo
          PROVE  op'[e.op].state = "staged" /\ Current(e)' /\ op'[e.op].seq = e.seq
      BY <1>2, <1>3, <2>1, <3>1, <3>3 DEF RowSet, OneServes, Current
    <3>4. \A p \in setup.procs : proc'[p].todo # {} => At(p, "probing")' \/ At(p, "deciding")'
      BY <1>3, <2>1 DEF OneServes, At
    <3>5. QED
      BY <3>2, <3>3, <3>4 DEF OneServes
  <2>3. ASSUME ~strayed
        PROVE  OneCallsInOrder' /\ SentOrRecovered'
    <3>1. OneCallsInOrder /\ SentOrRecovered /\ committed \subseteq Ops /\ fact.open \in BOOLEAN
      BY <1>1, <1>6, <2>3 DEF WritesInv, TypeOK, Fact
    <3>2. \A x \in Ops : IsLast(x) => IsLast(x)'
      BY <1>1, <1>2, LastStaysLast
    <3>3. OneCallsInOrder'
      <4>1. \A x \in Ops : op[x].state \in {"queued", "delivered"} =>
                           op'[x].state \in {"queued", "delivered"}
        BY <1>2 DEF RowSet
      <4>2. ASSUME NEW p \in setup.procs, NEW x \in Ops, InCall(p, x)'
            PROVE  IF proc'[p].owned THEN IsLast(x)' /\ (At(p, "staged")' <=> x \notin committed')
                   ELSE x \in Adds /\ fact'.open /\ op'[x].state \in {"queued", "delivered"}
        <5>1. InCall(p, x) /\ proc'[p] = proc[p]
          BY <1>3, <4>2 DEF InCall
        <5>2. IF proc[p].owned THEN IsLast(x) /\ (At(p, "staged") <=> x \notin committed)
              ELSE x \in Adds /\ fact.open /\ op[x].state \in {"queued", "delivered"}
          BY <3>1, <5>1 DEF OneCallsInOrder
        <5>3. QED
          BY <1>3, <3>2, <4>1, <5>1, <5>2 DEF At
      <4>3. ASSUME NEW p \in setup.procs, At(p, "deciding")'
            PROVE  /\ ~EndedToday'
                   /\ \A e \in proc'[p].todo :
                        Visiting(p, e)' => proc'[p].verdict = LooksCommitted(e.op)'
        BY <1>3, <3>1, <4>3
           DEF OneCallsInOrder, At, Visiting, LooksCommitted, FactIsCurrent, EndedToday
      <4>4. QED
        BY <1>3, <4>2, <4>3 DEF OneCallsInOrder
    <3>4. SentOrRecovered'
      <4>1. Unsent' = Unsent \ {o} /\ o \notin Unsent /\ Unsent \subseteq Ops
        BY <1>1, <1>2, <1>3, <3>1, UnsentAfterRow DEF Unsent
      <4>2. Unsent = {} => Tells(fact.open)'
        BY <1>1, <1>2, <1>3, <3>1, DeliveredTells DEF SentOrRecovered
      <4>3. \A x \in committed : op'[x].state # "cancelled"
        BY <1>2, <3>1 DEF RowSet, SentOrRecovered
      <4>4. \A x \in Unsent : IsLast(x)'
        BY <3>1, <3>2, <4>1 DEF SentOrRecovered
      <4>5. Unsent' = Unsent
        BY <4>1
      <4>6. QED
        BY <1>3, <3>1, <4>2, <4>3, <4>4, <4>5 DEF SentOrRecovered, InCall, At
    <3>5. QED
      BY <3>3, <3>4
  <2>4. QED
    BY <1>3, <1>5, <2>1, <2>2, <2>3 DEF WritesInv
<1>7. CASE ~ServedByOne
  BY <1>1, <1>2, <1>3, <1>4, <1>5, <1>7, OthersAfterRow DEF WritesInv, ServedByOne
<1>8. QED
  BY <1>6, <1>7

-----------------------------------------------------------------------------
(* Calls.                                                                  *)

LEMMA StagedAnew ==
  ASSUME WritesInv, NEW p \in setup.procs, NEW o \in setup.ops, StageIntent(p, o), setup' = setup
  PROVE  /\ o \in Ops /\ op' \in [Ops -> OpRow] /\ OnlyProc(p) /\ op[o].state \in {"absent", "cancelled"}
         /\ op'[o].state = "staged" /\ op'[o].seq = lastSeq + 1
         /\ op[o].state # "absent" => op[o].revision < op'[o].revision
         /\ \A x \in Ops : x # o => op'[x] = op[x]
         /\ proc'[p].pc = "staged" /\ proc'[p].owned /\ proc'[p].todo = proc[p].todo
         /\ proc'[p].call.op = o /\ proc'[p].call.revision = op'[o].revision
<1>1. /\ WritesTypes /\ TypeOK /\ p \in Procs /\ proc[p] \in Process /\ lastSeq \in Nat
      /\ setup.endsToday \subseteq BOOLEAN /\ op \in [Ops -> OpRow]
  BY ProcIsIn, SettingIs DEF TypeOK
<1>2. o \in Ops
  BY <1>1, SettingIs DEF Setup
<1>3. PICK today \in setup.endsToday :
        LET revived == op[o].state = "cancelled"
            row == [state     |-> "staged",
                    seq       |-> lastSeq + 1,
                    revision  |-> IF revived THEN op[o].revision + 1 ELSE 0,
                    endsToday |-> IF revived THEN op[o].endsToday ELSE o \in Invalidates /\ today]
        IN  op' = [op EXCEPT ![o] = row] /\ EnterCall(p, o, row.revision, TRUE)
  BY DEF StageIntent
<1> DEFINE revived == op[o].state = "cancelled"
           row == [state     |-> "staged",
                   seq       |-> lastSeq + 1,
                   revision  |-> IF revived THEN op[o].revision + 1 ELSE 0,
                   endsToday |-> IF revived THEN op[o].endsToday ELSE o \in Invalidates /\ today]
           r == [proc[p] EXCEPT !.pc = "staged", !.owned = TRUE,
                                !.call = [op |-> o, revision |-> row.revision, seq |-> 0]]
<1>4. op' = [op EXCEPT ![o] = row] /\ EnterCall(p, o, row.revision, TRUE)
  BY <1>3
<1>5. op[o].state \in {"absent", "cancelled"}
  BY DEF StageIntent
<1>6. op[o].revision \in Nat /\ op[o].endsToday \in BOOLEAN /\ (o \in Invalidates /\ today) \in BOOLEAN
  BY <1>1, <1>2, RowsAre
<1>7. row \in OpRow /\ row.revision \in Nat
  <2> DEFINE day == IF revived THEN op[o].endsToday ELSE o \in Invalidates /\ today
             revision == IF revived THEN op[o].revision + 1 ELSE 0
  <2>1. day \in BOOLEAN
    BY <1>6
  <2>2. revision \in Nat /\ lastSeq + 1 \in Nat
    BY <1>1, <1>6
  <2>3. row = [state |-> "staged", seq |-> lastSeq + 1, revision |-> revision, endsToday |-> day]
    OBVIOUS
  <2> HIDE DEF day, revision, row
  <2>4. QED
    BY <2>1, <2>2, <2>3 DEF OpRow
<1>8. op[o].state # "absent" => op[o].revision < row.revision
  BY <1>5, <1>6
<1>9. row.state = "staged" /\ row.seq = lastSeq + 1
  OBVIOUS
<1> HIDE DEF row
<1>10. /\ r \in Process /\ r.pc = "staged" /\ r.owned /\ r.todo = proc[p].todo
       /\ r.call.op = o /\ r.call.revision = row.revision /\ proc' = [proc EXCEPT ![p] = r]
  BY <1>1, <1>2, <1>4, <1>7 DEF EnterCall, Process, Entry
<1> HIDE DEF r
<1>11. OnlyProc(p) /\ proc'[p] = r
  BY <1>1, <1>10, OnlyProcSet
<1>12. op' \in [Ops -> OpRow] /\ op'[o] = row /\ \A x \in Ops : x # o => op'[x] = op[x]
  BY <1>1, <1>2, <1>4, <1>7
<1>13. QED
  BY <1>2, <1>5, <1>8, <1>9, <1>10, <1>11, <1>12

LEMMA CallStagesIntent ==
  ASSUME WritesInv, NEW p \in setup.procs, NEW o \in setup.ops, StageIntent(p, o), setup' = setup
  PROVE  WritesInv'
<1>1. /\ WritesTypes /\ PassesAndCalls /\ TypeOK /\ p \in Procs /\ o \in Ops /\ lastSeq \in Nat
      /\ setup \in Setups /\ OnlyProc(p) /\ At(p, "ready") /\ MayCall(o)
      /\ op[o].state \in {"absent", "cancelled"}
  <2>1. OnlyProc(p)
    BY StagedAnew
  <2>2. o \in Ops /\ setup \in Setups /\ lastSeq \in Nat
    BY ProcIsIn, SettingIs DEF WritesTypes, TypeOK, Setup
  <2>3. QED
    BY <2>1, <2>2, ProcIsIn DEF StageIntent, WritesTypes
<1>2. /\ lastSeq' = lastSeq + 1 /\ fresh' = fresh \cup {o} /\ committed' = committed \ {o}
      /\ strayed' = (strayed \/ Meets(p, o)) /\ strayed' \in BOOLEAN
      /\ UNCHANGED <<fact, remote, faults>>
  BY ProcIsIn DEF StageIntent
<1>3. /\ op' \in [Ops -> OpRow] /\ op'[o].state = "staged" /\ op'[o].seq = lastSeq + 1
      /\ op[o].state # "absent" => op[o].revision < op'[o].revision
      /\ \A x \in Ops : x # o => op'[x] = op[x]
      /\ proc'[p].owned /\ proc'[p].call.revision = op'[o].revision
  <2>1. /\ op' \in [Ops -> OpRow] /\ op'[o].state = "staged" /\ op'[o].seq = lastSeq + 1
        /\ op[o].state # "absent" => op[o].revision < op'[o].revision
    BY StagedAnew
  <2>2. \A x \in Ops : x # o => op'[x] = op[x]
    BY StagedAnew
  <2>3. proc'[p].owned /\ proc'[p].call.revision = op'[o].revision
    BY StagedAnew
  <2>4. QED
    BY <2>1, <2>2, <2>3
<1>4. \A x \in Ops : /\ op[x].seq \in Nat /\ op[x].revision \in Nat /\ op'[x].revision \in Nat
                     /\ op'[x].state = IF x = o THEN "staged" ELSE op[x].state
                     /\ op'[x].seq = IF x = o THEN lastSeq + 1 ELSE op[x].seq
                     /\ op[x].state # "absent" => op[x].revision <= op'[x].revision
  <2>1. ASSUME NEW x \in Ops
        PROVE  /\ op[x].seq \in Nat /\ op[x].revision \in Nat /\ op'[x].revision \in Nat
               /\ op'[x].state = IF x = o THEN "staged" ELSE op[x].state
               /\ op'[x].seq = IF x = o THEN lastSeq + 1 ELSE op[x].seq
               /\ op[x].state # "absent" => op[x].revision <= op'[x].revision
    <3>1. op[x].seq \in Nat /\ op[x].revision \in Nat
      BY <1>1, RowsAre
    <3>2. op'[x] \in OpRow
      BY <1>3
    <3>3. QED
      BY <1>3, <3>1, <3>2 DEF OpRow
  <2>2. QED
    BY <2>1
<1>5. /\ proc'[p].pc = "staged" /\ proc'[p].call.op = o /\ proc'[p].todo = proc[p].todo
      /\ \A q \in Procs : proc'[q].todo = proc[q].todo /\ (q # p => proc'[q] = proc[q])
  <2>1. proc'[p].pc = "staged" /\ proc'[p].call.op = o /\ proc'[p].todo = proc[p].todo
    BY StagedAnew
  <2>2. QED
    BY <1>1, <2>1 DEF OnlyProc
<1>6. WritesTypes'
  <2>1. TypeOK'
    <3>1. lastSeq' \in Nat /\ fact' \in Fact /\ remote' \in BOOLEAN /\ faults' \in 0..setup'.maxFaults
      BY <1>1, <1>2 DEF TypeOK
    <3>2. fresh' \subseteq Ops /\ committed' \subseteq Ops
      BY <1>1, <1>2 DEF TypeOK
    <3>3. DOMAIN proc' = Procs /\ \A q \in Procs : proc'[q] \in Process
      BY <1>1 DEF TypeOK, OnlyProc
    <3>4. QED
      BY <1>2, <1>3, <3>1, <3>2, <3>3 DEF TypeOK
  <2>2. \A q \in Procs \ setup'.procs : proc'[q] = Down
    BY <1>1, <1>5 DEF WritesTypes
  <2>3. /\ \A x \in Ops : IF op'[x].state = "absent" THEN op'[x].seq = 0 ELSE op'[x].seq \in 1..lastSeq'
        /\ \A x, y \in Ops : op'[x].seq = op'[y].seq /\ op'[x].seq # 0 => x = y
    <3>1. \A x \in Ops : op[x].seq <= lastSeq
      BY <1>1 DEF WritesTypes
    <3>2. QED
      BY <1>1, <1>2, <1>4, <3>1 DEF WritesTypes
  <2>4. QED
    BY <1>1, <2>1, <2>2, <2>3 DEF WritesTypes
<1>7. PassesAndCalls'
  <2>1. \A q \in Procs : proc'[q].pc \in {"staged", "committed"} =>
          proc'[q].call.op \in Ops /\ op'[proc'[q].call.op].state # "absent"
    BY <1>1, <1>4, <1>5 DEF PassesAndCalls
  <2>2. ASSUME NEW q \in Procs, NEW e \in proc'[q].todo
        PROVE  /\ e.op \in Ops /\ op'[e.op].state # "absent" /\ e.revision <= op'[e.op].revision
               /\ \A f \in proc'[q].todo : e.seq = f.seq => e = f
    <3>1. /\ e \in proc[q].todo /\ e.op \in Ops /\ op[e.op].state # "absent"
          /\ e.revision <= op[e.op].revision /\ e.revision \in Nat
          /\ \A f \in proc[q].todo : e.seq = f.seq => e = f
      BY <1>1, <1>5, <2>2, ProcessIs, EntryIs DEF PassesAndCalls
    <3>2. QED
      BY <1>4, <1>5, <3>1
  <2>3. QED
    BY <2>1, <2>2 DEF PassesAndCalls
<1>8. CASE ServedByOne
  <2>1. setup.procs = {p} /\ ServedByOne' /\ OneServes /\ proc[p].todo = {}
    <3>1. setup.procs = {p} /\ ServedByOne' /\ OneServes
      BY <1>8, ProcIsIn DEF ServedByOne
    <3>2. QED
      BY <1>1, <3>1 DEF OneServes, At
  <2>2. \A x \in Ops : InCall(p, x)' => x = o
    BY <1>5 DEF InCall
  <2>3. OneServes'
    <3>1. op'[o].state = "staged" /\ Current(proc[p].call)'
      BY <1>3, <1>5 DEF Current
    <3>2. proc'[p].todo = {}
      BY <1>5, <2>1
    <3>3. QED
      BY <2>1, <2>2, <3>1, <3>2 DEF OneServes
  <2>4. ASSUME ~strayed'
        PROVE  OneCallsInOrder' /\ SentOrRecovered'
    <3>1. ~strayed /\ SentOrRecovered /\ Unsent = {}
      BY <1>1, <1>2, <1>8, <2>1, <2>4, ProcIsIn, NothingUnsent DEF At
    <3>2. OneCallsInOrder'
      <4>1. IsLast(o)'
        <5>1. \A x \in Ops : op'[x].seq <= lastSeq + 1
          BY <1>1, <1>4 DEF WritesTypes
        <5>2. QED
          BY <1>1, <1>3, <1>4, <5>1 DEF IsLast
      <4>2. At(p, "staged")' /\ ~At(p, "deciding")' /\ o \notin committed'
        BY <1>2, <1>5 DEF At
      <4>3. QED
        BY <1>3, <2>1, <2>2, <4>1, <4>2 DEF OneCallsInOrder
    <3>3. Unsent' = {}
      BY <1>1, <1>2, <1>4, <3>1 DEF Unsent, TypeOK
    <3>4. \A x \in Ops : /\ op'[x].state = "queued" <=> op[x].state = "queued"
                         /\ op'[x].state = "queued" => op'[x].seq = op[x].seq
      BY <1>1, <1>4
    <3>5. Tells(fact.open)'
      BY <1>2, <3>1, <3>4 DEF SentOrRecovered, Tells
    <3>6. \A x \in committed' : x \in Ops /\ op'[x].state # "cancelled"
      BY <1>2, <1>4, <3>1 DEF SentOrRecovered
    <3>7. SentOrRecovered'
      BY <3>3, <3>5, <3>6 DEF SentOrRecovered
    <3>8. QED
      BY <3>2, <3>7
  <2>5. QED
    BY <1>6, <1>7, <2>1, <2>3, <2>4 DEF WritesInv
<1>9. CASE ~ServedByOne
  <2>1. ASSUME ~strayed', ~strayed => OthersKeepIntents
        PROVE  OthersKeepIntents'
    <3>1. OthersKeepIntents /\ \A q \in Procs : q # p => ~InCall(q, o)
      BY <1>2, <2>1 DEF Meets, InCall
    <3>2. \A q \in Procs : \A x \in Ops :
            InCall(q, x)' <=> IF q = p THEN x = o ELSE InCall(q, x)
      BY <1>5 DEF InCall
    <3>3. /\ \A q, t \in Procs : \A x \in Ops : InCall(q, x)' /\ InCall(t, x)' => q = t
          /\ \A q \in Procs : \A x \in fresh' :
               InCall(q, x)' /\ proc'[q].owned => op'[x].state # "cancelled"
      <4>1. fresh \subseteq Ops
        BY <1>1 DEF TypeOK
      <4>2. QED
        BY <1>1, <1>2, <1>4, <1>5, <3>1, <3>2, <4>1 DEF OthersKeepIntents
    <3>4. ASSUME NEW q \in Procs, NEW e \in proc'[q].todo,
                 At(q, "deciding")', Visiting(q, e)', ~proc'[q].verdict
          PROVE  e.op \notin fresh' \/ e.revision < op'[e.op].revision
      <4>1. q # p /\ proc'[q] = proc[q] /\ e \in proc[q].todo
        BY <1>5, <3>4 DEF At
      <4>2. /\ e.op \in Ops /\ op[e.op].state # "absent" /\ e.revision <= op[e.op].revision
            /\ e.revision \in Nat
        BY <1>1, <4>1, ProcessIs, EntryIs DEF PassesAndCalls
      <4>3. CASE e.op = o
        BY <1>3, <1>4, <4>2, <4>3
      <4>4. CASE e.op # o
        <5>1. e.op \notin fresh \/ e.revision < op[e.op].revision
          BY <3>1, <3>4, <4>1 DEF OthersKeepIntents, At, Visiting
        <5>2. op'[e.op] = op[e.op]
          BY <1>3, <4>2, <4>4
        <5>3. QED
          BY <1>2, <4>4, <5>1, <5>2
      <4>5. QED
        BY <4>3, <4>4
    <3>5. QED
      BY <3>3, <3>4 DEF OthersKeepIntents
  <2>2. QED
    BY <1>6, <1>7, <1>9, <2>1 DEF WritesInv, ServedByOne
<1>10. QED
  BY <1>8, <1>9

\* A repeat that finds its intent, staged or past staging.
LEMMA CallReusesIntent ==
  ASSUME WritesInv, NEW p \in setup.procs, NEW o \in setup.ops, ReuseIntent(p, o), setup' = setup
  PROVE  WritesInv'
<1>1. /\ WritesTypes /\ PassesAndCalls /\ TypeOK /\ p \in Procs /\ proc[p] \in Process
      /\ At(p, "ready") /\ MayCall(o) /\ op[o].state \in {"staged", "queued", "delivered"}
  BY ProcIsIn DEF ReuseIntent
<1>2. o \in Ops
  BY <1>1, SettingIs DEF Setup
<1>3. /\ UNCHANGED <<op, lastSeq, fact, remote, fresh, committed, faults>>
      /\ strayed' = (strayed \/ Meets(p, o) \/ (ServedByOne /\ RepeatsLate(o)))
      /\ strayed' \in BOOLEAN
  BY ProcIsIn DEF ReuseIntent
<1> DEFINE owned == op[o].state = "staged"
           r == [proc[p] EXCEPT !.pc = "staged", !.owned = owned,
                                !.call = [op |-> o, revision |-> op[o].revision, seq |-> 0]]
<1>4. op[o].revision \in Nat /\ owned \in BOOLEAN
  BY <1>1, <1>2, RowsAre
<1>5. /\ r \in Process /\ r.pc = "staged" /\ r.todo = proc[p].todo /\ r.call.op = o
      /\ r.call.revision = op[o].revision /\ r.owned = owned /\ proc' = [proc EXCEPT ![p] = r]
  BY <1>1, <1>2, <1>4 DEF ReuseIntent, EnterCall, Process, Entry
<1> HIDE DEF r
<1>6. OnlyProc(p) /\ proc'[p] = r
  BY <1>1, <1>5, OnlyProcSet
<1>7. WritesTypes' /\ PassesAndCalls'
  <2>1. /\ fact' \in Fact /\ committed' \subseteq Ops /\ fresh' \subseteq Ops
        /\ faults' \in 0..setup.maxFaults /\ UNCHANGED <<op, lastSeq, remote>>
    BY <1>1, <1>3 DEF TypeOK
  <2>2. /\ op[o].state # "absent"
        /\ \A e \in r.todo :
             /\ e.op \in Ops /\ op[e.op].state # "absent" /\ e.revision <= op[e.op].revision
             /\ \A f \in r.todo : e.seq = f.seq => e = f
    BY <1>1, <1>5 DEF PassesAndCalls
  <2>3. QED
    BY <1>1, <1>2, <1>3, <1>5, <1>6, <2>1, <2>2, StepOfProc
<1>8. \A q \in Procs : \A x \in Ops : InCall(q, x)' <=> IF q = p THEN x = o ELSE InCall(q, x)
  BY <1>5, <1>6 DEF OnlyProc, InCall
<1>9. CASE ServedByOne
  <2>1. setup.procs = {p} /\ ServedByOne' /\ OneServes /\ proc[p].todo = {}
    <3>1. setup.procs = {p} /\ ServedByOne' /\ OneServes
      BY <1>9, ProcIsIn DEF ServedByOne
    <3>2. QED
      BY <1>1, <3>1 DEF OneServes, At
  <2>2. OneServes'
    <3>1. proc'[p].owned => op'[o].state = "staged" /\ Current(proc[p].call)'
      BY <1>3, <1>5, <1>6 DEF Current
    <3>2. proc'[p].todo = {}
      BY <1>5, <1>6, <2>1
    <3>3. QED
      BY <1>1, <1>8, <2>1, <3>1, <3>2 DEF OneServes
  <2>3. ASSUME ~strayed'
        PROVE  OneCallsInOrder' /\ SentOrRecovered'
    <3>1. ~strayed /\ ~RepeatsLate(o) /\ SentOrRecovered /\ Unsent = {}
      BY <1>1, <1>3, <1>9, <2>1, <2>3, ProcIsIn, NothingUnsent DEF At
    <3>2. IF proc'[p].owned THEN IsLast(o)' /\ o \notin committed'
          ELSE o \in Adds /\ fact'.open /\ op'[o].state \in {"queued", "delivered"}
      <4>1. CASE owned
        <5>1. o \notin committed /\ IsLast(o) /\ proc'[p].owned
          BY <1>5, <1>6, <3>1, <4>1 DEF RepeatsLate, Unsent
        <5>2. QED
          BY <1>3, <5>1 DEF IsLast
      <4>2. CASE ~owned
        <5>1. fact.open /\ ~proc'[p].owned
          BY <1>5, <1>6, <3>1, <4>2 DEF RepeatsLate
        <5>2. o \in Adds /\ op[o].state \in {"queued", "delivered"}
          BY <1>1, <1>2, <4>2 DEF MayCall, Ops
        <5>3. QED
          BY <1>3, <5>1, <5>2
      <4>3. QED
        BY <4>1, <4>2
    <3>3. OneCallsInOrder'
      <4>1. At(p, "staged")' /\ ~At(p, "deciding")'
        BY <1>5, <1>6 DEF At
      <4>2. QED
        BY <1>1, <1>8, <2>1, <3>2, <4>1 DEF OneCallsInOrder
    <3>4. SentOrRecovered'
      BY <1>3, <3>1 DEF SentOrRecovered, Unsent, Tells
    <3>5. QED
      BY <3>3, <3>4
  <2>4. QED
    BY <1>7, <2>1, <2>2, <2>3 DEF WritesInv
<1>10. CASE ~ServedByOne
  <2>1. ASSUME ~strayed', ~strayed => OthersKeepIntents
        PROVE  OthersKeepIntents'
    <3>1. OthersKeepIntents /\ \A q \in Procs : q # p => ~InCall(q, o)
      BY <1>3, <2>1 DEF Meets, InCall
    <3>2. /\ \A q, t \in Procs : \A x \in Ops : InCall(q, x)' /\ InCall(t, x)' => q = t
          /\ \A q \in Procs : \A x \in fresh' :
               InCall(q, x)' /\ proc'[q].owned => op'[x].state # "cancelled"
      <4>1. fresh \subseteq Ops
        BY <1>1 DEF TypeOK
      <4>2. QED
        BY <1>1, <1>3, <1>6, <1>8, <3>1, <4>1 DEF OthersKeepIntents, OnlyProc
    <3>3. \A q \in Procs : At(q, "deciding")' => proc'[q] = proc[q]
      BY <1>5, <1>6 DEF OnlyProc, At
    <3>4. QED
      BY <1>3, <3>1, <3>2, <3>3 DEF OthersKeepIntents, At, Visiting
  <2>2. QED
    BY <1>7, <1>10, <2>1 DEF WritesInv, ServedByOne
<1>11. QED
  BY <1>9, <1>10

\* The fact changes in the middle of a call.
LEMMA StepOfFact ==
  ASSUME WritesInv, NEW p \in setup.procs, At(p, "staged"), OnlyProc(p), setup' = setup,
         fact' \in Fact, committed' \subseteq Ops,
         UNCHANGED <<op, lastSeq, remote, fresh, faults, strayed>>,
         proc'[p].call = proc[p].call, proc'[p].todo = proc[p].todo, proc'[p].owned = proc[p].owned,
         proc'[p].pc \in {"staged", "committed"}
  PROVE  /\ WritesTypes' /\ PassesAndCalls'
         /\ \A q \in Procs : \A x \in Ops : InCall(q, x)' <=> InCall(q, x)
         /\ OthersKeepIntents => OthersKeepIntents'
         /\ ServedByOne => OneServes'
<1>1. /\ p \in Procs /\ PassesAndCalls /\ TypeOK /\ setup.procs \subseteq Procs /\ strayed \in BOOLEAN
      /\ proc[p].call.op \in Ops /\ op[proc[p].call.op].state # "absent"
  BY ProcIsIn, CallIs, SettingIs
<1>2. WritesTypes' /\ PassesAndCalls'
  <2>1. \A e \in proc[p].todo :
          /\ e.op \in Ops /\ op[e.op].state # "absent" /\ e.revision <= op[e.op].revision
          /\ \A f \in proc[p].todo : e.seq = f.seq => e = f
    BY <1>1 DEF PassesAndCalls
  <2>2. fresh' \subseteq Ops /\ faults' \in 0..setup.maxFaults
    BY <1>1 DEF TypeOK
  <2>3. QED
    BY <1>1, <2>1, <2>2, ProcIsIn, StepOfProc
<1>3. \A q \in Procs : /\ \A x \in Ops : InCall(q, x)' <=> InCall(q, x)
                       /\ proc'[q].owned = proc[q].owned
  BY DEF OnlyProc, InCall, At
<1>4. \A q \in Procs : At(q, "deciding")' => proc'[q] = proc[q]
  BY DEF OnlyProc, At
<1>5. OthersKeepIntents => OthersKeepIntents'
  <2>1. fresh \subseteq Ops
    BY <1>1 DEF TypeOK
  <2>2. QED
    BY <1>3, <1>4, <2>1 DEF OthersKeepIntents, At, Visiting
<1>6. ServedByOne => OneServes'
  <2>1. ASSUME ServedByOne
        PROVE  OneServes'
    <3>1. setup.procs = {p} /\ OneServes /\ proc[p].todo = {}
      BY <2>1, ProcIsIn, CallIs
    <3>2. QED
      BY <1>1, <1>3, <3>1 DEF OneServes, Current
  <2>2. QED
    BY <2>1
<1>7. QED
  BY <1>2, <1>3, <1>5, <1>6

LEMMA EntitiesAreRegistered ==
  ASSUME WritesInv, NEW p \in setup.procs, RegisterEntities(p), setup' = setup
  PROVE  WritesInv'
<1>1. /\ At(p, "staged") /\ TypeOK /\ p \in Procs /\ proc[p] \in Process
      /\ UNCHANGED <<op, lastSeq, remote, proc, fresh, committed, faults, strayed>>
  BY ProcIsIn DEF RegisterEntities
<1>2. fact' \in Fact /\ fact'.open = fact.open /\ fact'.lingering = fact.lingering
  BY <1>1 DEF RegisterEntities, TypeOK, Fact
<1>3. OnlyProc(p) /\ committed' \subseteq Ops
  BY <1>1 DEF OnlyProc, TypeOK
<1>4. /\ WritesTypes' /\ PassesAndCalls'
      /\ \A q \in Procs : \A x \in Ops : InCall(q, x)' <=> InCall(q, x)
      /\ OthersKeepIntents => OthersKeepIntents'
      /\ ServedByOne => OneServes'
  BY <1>1, <1>2, <1>3, StepOfFact DEF At
<1>5. CASE ServedByOne
  <2>1. setup.procs = {p} /\ ServedByOne' /\ proc[p].todo = {}
    BY <1>1, <1>5, ProcIsIn, CallIs DEF ServedByOne
  <2>2. ASSUME ~strayed
        PROVE  OneCallsInOrder' /\ SentOrRecovered'
    <3>1. OneCallsInOrder /\ SentOrRecovered
      BY <1>5, <2>2, ProcIsIn
    <3>2. OneCallsInOrder'
      <4>1. ~At(p, "deciding")' /\ \A x \in Ops : IsLast(x)' = IsLast(x)
        BY <1>1 DEF At, IsLast
      <4>2. QED
        BY <1>1, <1>2, <1>4, <2>1, <3>1, <4>1 DEF OneCallsInOrder, At
    <3>3. Unsent = {} /\ Unsent' = {}
      BY <1>1, <1>5, <2>1, <2>2, NothingUnsent DEF At, Unsent
    <3>4. SentOrRecovered'
      BY <1>1, <1>2, <3>1, <3>3 DEF SentOrRecovered, Tells
    <3>5. QED
      BY <3>2, <3>4
  <2>3. QED
    BY <1>1, <1>4, <1>5, <2>1, <2>2 DEF WritesInv
<1>6. CASE ~ServedByOne
  BY <1>1, <1>4, <1>6 DEF WritesInv, ServedByOne
<1>7. QED
  BY <1>5, <1>6

LEMMA FactIsCommitted ==
  ASSUME WritesInv, NEW p \in setup.procs, CommitLocal(p), setup' = setup
  PROVE  WritesInv'
<1> DEFINE o == proc[p].call.op
           r == [proc[p] EXCEPT !.pc = "committed"]
<1>1. /\ At(p, "staged") /\ TypeOK /\ p \in Procs /\ proc[p] \in Process /\ o \in Ops /\ fact.known
      /\ op[o].endsToday \in BOOLEAN /\ committed' = committed \cup {o}
      /\ UNCHANGED <<op, lastSeq, remote, fresh, faults, strayed>>
  BY ProcIsIn, CallIs, RowsAre DEF CommitLocal
<1>2. fact' \in Fact /\ fact'.open = (o \in Adds) /\ fact'.known
  <2>1. fact \in Fact /\ fact' = Applied(o)
    BY <1>1 DEF CommitLocal, TypeOK
  <2>2. CASE o \in Adds
    BY <1>1, <2>1, <2>2 DEF Applied, Fact
  <2>3. CASE o \notin Adds
    <3> DEFINE lingers == fact.lingering \/ (fact.open /\ op[o].endsToday)
    <3>1. lingers \in BOOLEAN
      BY <1>1, <2>1 DEF Fact
    <3>2. fact' = [fact EXCEPT !.open = FALSE, !.lingering = lingers]
      BY <2>1, <2>3 DEF Applied, Fact
    <3> HIDE DEF lingers
    <3>3. fact' \in Fact /\ fact'.open = FALSE /\ fact'.known = fact.known
      BY <2>1, <3>1, <3>2 DEF Fact
    <3>4. fact'.open = (o \in Adds)
      <4>1. (o \in Adds) = FALSE
        BY <2>3
      <4>2. fact'.open = FALSE
        BY <3>3
      <4>3. QED
        BY ONLY <4>1, <4>2
    <3>5. QED
      BY <1>1, <3>3, <3>4
  <2>4. QED
    BY <2>2, <2>3
<1>3. /\ r \in Process /\ r.pc = "committed" /\ r.call = proc[p].call /\ r.todo = proc[p].todo
      /\ r.owned = proc[p].owned /\ proc' = [proc EXCEPT ![p] = r]
  BY <1>1 DEF CommitLocal, Process
<1> HIDE DEF r
<1>4. OnlyProc(p) /\ proc'[p] = r /\ committed' \subseteq Ops
  BY <1>1, <1>3, OnlyProcSet DEF TypeOK
<1>5. /\ WritesTypes' /\ PassesAndCalls'
      /\ \A q \in Procs : \A x \in Ops : InCall(q, x)' <=> InCall(q, x)
      /\ OthersKeepIntents => OthersKeepIntents'
      /\ ServedByOne => OneServes'
  BY <1>1, <1>2, <1>3, <1>4, StepOfFact
<1>6. CASE ServedByOne
  <2>1. setup.procs = {p} /\ ServedByOne' /\ proc[p].todo = {}
    BY <1>1, <1>6, ProcIsIn, CallIs DEF ServedByOne
  <2>2. \A x \in Ops : InCall(p, x)' <=> x = o
    BY <1>1, <1>3, <1>4 DEF InCall
  <2>3. ASSUME ~strayed
        PROVE  OneCallsInOrder' /\ SentOrRecovered'
    <3>1. SentOrRecovered /\ Unsent = {} /\ \A x \in Ops : IsLast(x)' = IsLast(x)
      BY <1>1, <1>6, <2>1, <2>3, ProcIsIn, NothingUnsent DEF At, IsLast
    <3>2. ~At(p, "staged")' /\ ~At(p, "deciding")' /\ o \in committed'
      BY <1>1, <1>3, <1>4 DEF At
    <3>3. CASE proc[p].owned
      <4>1. op[o].state = "staged" /\ IsLast(o)
        BY <1>1, <1>6, <2>3, <3>3, CallIs
      <4>2. OneCallsInOrder'
        BY <1>3, <1>4, <2>1, <2>2, <3>1, <3>2, <3>3, <4>1 DEF OneCallsInOrder
      <4>3. Unsent' = {o}
        BY <1>1, <3>1, <4>1 DEF Unsent
      <4>4. SentOrRecovered'
        BY <1>1, <1>2, <1>4, <2>1, <2>2, <3>1, <4>1, <4>3 DEF SentOrRecovered
      <4>5. QED
        BY <4>2, <4>4
    <3>4. CASE ~proc[p].owned
      <4>1. o \in Adds /\ fact.open /\ op[o].state \in {"queued", "delivered"}
        BY <1>1, <1>6, <2>3, <3>4, CallIs
      <4>2. fact'.open /\ fact'.open = fact.open
        BY <1>1, <1>2, <4>1 DEF TypeOK, Fact
      <4>3. OneCallsInOrder'
        BY <1>1, <1>3, <1>4, <2>1, <2>2, <3>2, <3>4, <4>1, <4>2 DEF OneCallsInOrder
      <4>4. Unsent' = {}
        BY <1>1, <3>1, <4>1 DEF Unsent
      <4>5. Tells(fact.open)'
        BY <1>1, <3>1, <4>2 DEF SentOrRecovered, Tells
      <4>6. SentOrRecovered'
        BY <1>1, <1>4, <3>1, <4>1, <4>4, <4>5 DEF SentOrRecovered
      <4>7. QED
        BY <4>3, <4>6
    <3>5. QED
      BY <3>3, <3>4
  <2>4. QED
    BY <1>1, <1>5, <1>6, <2>1, <2>3 DEF WritesInv
<1>7. CASE ~ServedByOne
  BY <1>1, <1>5, <1>7 DEF WritesInv, ServedByOne
<1>8. QED
  BY <1>6, <1>7

LEMMA IntentGrowsOld ==
  ASSUME WritesInv, NEW o \in setup.ops, GracePasses(o), setup' = setup
  PROVE  WritesInv'
<1>1. UNCHANGED <<op, lastSeq, fact, remote, proc, committed, faults, strayed>> /\ fresh' = fresh \ {o}
  BY DEF GracePasses
<1>2. WritesTypes' /\ PassesAndCalls'
  BY <1>1 DEF WritesInv, WritesTypes, TypeOK, PassesAndCalls
<1>3. /\ OneServes => OneServes'
      /\ OneCallsInOrder => OneCallsInOrder'
      /\ ServedByOne' = ServedByOne
  <2>1. OneServes => OneServes'
    BY <1>1 DEF OneServes, InCall, Current, At
  <2>2. OneCallsInOrder => OneCallsInOrder'
    BY <1>1 DEF OneCallsInOrder, InCall, IsLast, EndedToday, Visiting, LooksCommitted, FactIsCurrent, At
  <2>3. ServedByOne' = ServedByOne
    BY <1>1 DEF ServedByOne
  <2>4. QED
    BY <2>1, <2>2, <2>3
<1>4. SentOrRecovered => SentOrRecovered'
  BY <1>1 DEF SentOrRecovered, Unsent, IsLast, Tells, InCall, At
<1>5. OthersKeepIntents => OthersKeepIntents'
  BY <1>1 DEF OthersKeepIntents, InCall, At, Visiting
<1>6. QED
  BY <1>1, <1>2, <1>3, <1>4, <1>5 DEF WritesInv

LEMMA MidnightPasses ==
  ASSUME WritesInv, NewDay, setup' = setup
  PROVE  WritesInv'
<1>1. /\ WritesTypes /\ TypeOK /\ op \in [Ops -> OpRow] /\ fact \in Fact
      /\ UNCHANGED <<lastSeq, remote, proc, fresh, committed, faults, strayed>>
  BY DEF NewDay, WritesInv, WritesTypes, TypeOK
<1>2. /\ fact' \in Fact /\ fact'.known = fact.known /\ fact'.open = fact.open /\ ~fact'.lingering
      /\ op' \in [Ops -> OpRow]
      /\ \A x \in Ops : /\ op'[x].state = op[x].state /\ op'[x].seq = op[x].seq
                        /\ op'[x].revision = op[x].revision
  <2>1. fact' \in Fact /\ fact'.known = fact.known /\ fact'.open = fact.open /\ ~fact'.lingering
    BY <1>1 DEF NewDay, Fact
  <2>2. \A x \in Ops : op[x] \in OpRow
    BY <1>1
  <2>3. /\ op' \in [Ops -> OpRow]
        /\ \A x \in Ops : /\ op'[x].state = op[x].state /\ op'[x].seq = op[x].seq
                          /\ op'[x].revision = op[x].revision
    BY <2>2 DEF NewDay, OpRow
  <2>4. QED
    BY <2>1, <2>3
<1>3. WritesTypes'
  BY <1>1, <1>2 DEF WritesTypes, TypeOK
<1>4. PassesAndCalls'
  BY <1>1, <1>2 DEF WritesInv, PassesAndCalls
<1>5. CASE ServedByOne
  <2>1. ServedByOne' /\ OneServes /\ setup.procs \subseteq Procs
    BY <1>1, <1>5, SettingIs DEF WritesInv, ServedByOne
  <2>2. \A p \in setup.procs : \A e \in proc[p].todo : e.op \in Ops
    BY <2>1 DEF WritesInv, PassesAndCalls
  <2>3. OneServes'
    <3>1. ASSUME NEW p \in setup.procs, NEW x \in Ops, InCall(p, x)', proc'[p].owned
          PROVE  op'[x].state = "staged" /\ Current(proc[p].call)'
      BY <1>1, <1>2, <2>1, <3>1 DEF OneServes, Current, InCall
    <3>2. ASSUME NEW p \in setup.procs, NEW e \in proc'[p].todo
          PROVE  op'[e.op].state = "staged" /\ Current(e)' /\ op'[e.op].seq = e.seq
      BY <1>1, <1>2, <2>1, <2>2, <3>2 DEF OneServes, Current
    <3>3. \A p \in setup.procs : proc'[p].todo # {} => At(p, "probing")' \/ At(p, "deciding")'
      BY <1>1, <2>1 DEF OneServes, At
    <3>4. QED
      BY <3>1, <3>2, <3>3 DEF OneServes
  <2>4. ASSUME ~strayed
        PROVE  OneCallsInOrder' /\ SentOrRecovered'
    <3>1. OneCallsInOrder /\ SentOrRecovered /\ committed \subseteq Ops
      BY <1>1, <1>5, <2>4 DEF WritesInv, TypeOK
    <3>2. \A x \in Ops : IsLast(x)' = IsLast(x)
      BY <1>2 DEF IsLast
    <3>3. OneCallsInOrder'
      <4>1. ASSUME NEW p \in setup.procs, NEW x \in Ops, InCall(p, x)'
            PROVE  IF proc'[p].owned THEN IsLast(x)' /\ (At(p, "staged")' <=> x \notin committed')
                   ELSE x \in Adds /\ fact'.open /\ op'[x].state \in {"queued", "delivered"}
        BY <1>1, <1>2, <3>1, <3>2, <4>1 DEF OneCallsInOrder, InCall, At
      <4>2. ASSUME NEW p \in setup.procs, At(p, "deciding")'
            PROVE  /\ ~EndedToday'
                   /\ \A e \in proc'[p].todo :
                        Visiting(p, e)' => proc'[p].verdict = LooksCommitted(e.op)'
        <5>1. /\ ~EndedToday
              /\ \A e \in proc[p].todo : Visiting(p, e) => proc[p].verdict = LooksCommitted(e.op)
          BY <1>1, <3>1, <4>2 DEF OneCallsInOrder, At
        <5>2. \A x \in Ops : LooksCommitted(x)' = LooksCommitted(x)
          BY <1>1, <1>2, <5>1 DEF LooksCommitted, FactIsCurrent, EndedToday, Fact
        <5>3. QED
          BY <1>1, <1>2, <2>2, <5>1, <5>2 DEF EndedToday, Visiting
      <4>3. QED
        BY <1>1, <4>1, <4>2 DEF OneCallsInOrder
    <3>4. SentOrRecovered'
      <4>1. Unsent' = Unsent /\ Unsent \subseteq Ops
        BY <1>1, <1>2, <3>1 DEF Unsent
      <4>2. Tells(fact.open) => Tells(fact.open)'
        BY <1>1, <1>2 DEF Tells
      <4>3. \A x \in committed : op'[x].state # "cancelled"
        BY <1>2, <3>1 DEF SentOrRecovered
      <4>4. \A x \in Unsent : IsLast(x)'
        BY <3>1, <3>2, <4>1 DEF SentOrRecovered
      <4>5. QED
        BY <1>1, <1>2, <3>1, <4>1, <4>2, <4>3, <4>4 DEF SentOrRecovered, InCall, At
    <3>5. QED
      BY <3>3, <3>4
  <2>5. QED
    BY <1>1, <1>3, <1>4, <2>1, <2>3, <2>4 DEF WritesInv
<1>6. CASE ~ServedByOne
  <2>1. ASSUME OthersKeepIntents
        PROVE  OthersKeepIntents'
    <3>1. \A q \in Procs : \A x \in Ops : InCall(q, x)' <=> InCall(q, x)
      BY <1>1 DEF InCall
    <3>2. fresh \subseteq Ops /\ \A q \in Procs : \A e \in proc[q].todo : e.op \in Ops
      BY <1>1 DEF WritesInv, PassesAndCalls, TypeOK
    <3>3. QED
      BY <1>1, <1>2, <2>1, <3>1, <3>2 DEF OthersKeepIntents, At, Visiting
  <2>2. QED
    BY <1>1, <1>3, <1>4, <1>6, <2>1 DEF WritesInv, ServedByOne
<1>7. QED
  BY <1>5, <1>6

-----------------------------------------------------------------------------
(* Local-first writes of a fact: the theorems.                             *)

LEMMA WritesInitInv == Init => WritesInv
<1>1. SUFFICES ASSUME Init
               PROVE  WritesInv
  OBVIOUS
<1>2. setup \in Setups /\ setup \in Setup /\ setup.maxFaults \in Nat
  BY <1>1, ConstantsAssumption DEF Init, Setup
<1>3. /\ \A o \in Ops : op[o].state = "absent" /\ op[o].revision = 0 /\ op[o].seq = 0
      /\ op \in [Ops -> OpRow] /\ proc = [p \in Procs |-> Down] /\ committed = {} /\ fresh = {}
      /\ lastSeq = 0 /\ faults = 0 /\ fact \in Fact /\ remote = fact.open /\ strayed = FALSE
  BY <1>1 DEF Init, OpRow
<1>4. \A p \in Procs : proc[p] = Down /\ proc[p].pc = "down" /\ proc[p].todo = {}
  BY <1>3, IdleIs
<1>5. TypeOK
  <2>1. faults \in 0..setup.maxFaults /\ remote \in BOOLEAN
    BY <1>2, <1>3 DEF Fact
  <2>2. DOMAIN proc = Procs /\ \A p \in Procs : proc[p] \in Process
    BY <1>3, <1>4, IdleIs
  <2>3. strayed \in BOOLEAN
    BY <1>3, Zenon
  <2>4. QED
    BY <1>3, <2>1, <2>2, <2>3 DEF TypeOK
<1>6. WritesTypes
  BY <1>2, <1>3, <1>4, <1>5 DEF WritesTypes
<1>7. PassesAndCalls
  BY <1>4 DEF PassesAndCalls
<1>8. setup.procs \subseteq Procs
  BY <1>2 DEF Setup
<1>9. OneServes /\ OneCallsInOrder
  BY <1>4, <1>8 DEF OneServes, OneCallsInOrder, InCall, At
<1>10. SentOrRecovered
  BY <1>3 DEF SentOrRecovered, Unsent, Tells
<1>11. OthersKeepIntents
  BY <1>4 DEF OthersKeepIntents, InCall, At
<1>12. QED
  BY <1>6, <1>7, <1>9, <1>10, <1>11 DEF WritesInv

LEMMA WritesStepKeepsInv == WritesInv /\ [Next]_writeVars => WritesInv'
<1>1. ASSUME WritesInv, Next
      PROVE  WritesInv'
  <2>1. setup' = setup
    BY <1>1 DEF Next
  <2>2. ASSUME NEW p \in setup.procs, Start(p) \/ BeginPeriodic(p) \/ Serve(p) \/ Crash(p)
        PROVE  WritesInv'
    BY <1>1, <2>1, <2>2, ProcessStarts, PassBegins, ProcessCrashes, EntitiesAreRegistered,
       FactIsCommitted, WriteFailsHere, CancellationFails, CallFinishes DEF Serve
  <2>3. ASSUME NEW p \in setup.procs, Reconcile(p)
        PROVE  WritesInv'
    <3>1. CASE ListStaged(p) \/ EndPass(p)
      BY <1>1, <2>1, <3>1, StagedAreListed, PassEnds
    <3>2. ASSUME NEW e \in proc[p].todo, ProbeIntent(p, e) \/ Decide(p, e)
          PROVE  WritesInv'
      BY <1>1, <2>1, <3>2, IntentIsProbed, VerdictIsCarriedOut, VerdictComesLate
    <3>3. QED
      BY <2>3, <3>1, <3>2 DEF Reconcile
  <2>4. ASSUME NEW p \in setup.procs, NEW o \in setup.ops, StageIntent(p, o) \/ ReuseIntent(p, o)
        PROVE  WritesInv'
    BY <1>1, <2>1, <2>4, CallStagesIntent, CallReusesIntent
  <2>5. ASSUME NEW o \in setup.ops, Deliver(o) \/ GracePasses(o)
        PROVE  WritesInv'
    BY <1>1, <2>1, <2>5, OperationArrives, IntentGrowsOld
  <2>6. CASE NewDay
    BY <1>1, <2>1, <2>6, MidnightPasses
  <2>7. QED
    BY <1>1, <2>2, <2>3, <2>4, <2>5, <2>6 DEF Next
<1>2. ASSUME WritesInv, UNCHANGED writeVars
      PROVE  WritesInv'
  <2>1. UNCHANGED <<op, lastSeq, fact, remote, proc, fresh, committed, faults, strayed, setup>>
    BY <1>2 DEF writeVars
  <2>2. WritesTypes' /\ PassesAndCalls'
    BY <1>2, <2>1 DEF WritesInv, WritesTypes, TypeOK, PassesAndCalls
  <2>3. (OneServes => OneServes') /\ ServedByOne' = ServedByOne
    BY <2>1 DEF OneServes, ServedByOne, InCall, Current, At
  <2>4. OneCallsInOrder => OneCallsInOrder'
    BY <2>1 DEF OneCallsInOrder, InCall, IsLast, EndedToday, Visiting, LooksCommitted, FactIsCurrent, At
  <2>5. SentOrRecovered => SentOrRecovered'
    BY <2>1 DEF SentOrRecovered, Unsent, IsLast, Tells, InCall, At
  <2>6. OthersKeepIntents => OthersKeepIntents'
    BY <2>1 DEF OthersKeepIntents, InCall, At, Visiting
  <2>7. QED
    BY <1>2, <2>1, <2>2, <2>3, <2>4, <2>5, <2>6 DEF WritesInv
<1>3. QED
  BY <1>1, <1>2

\* Who committed what and whether it is on its way, between any two transactions of a call, a
\* reconciliation and a delivery (agentpalace-mcp/src/lib.rs, stage_replication to
\* reconcile_staged_replication), for any processes, operations, keys, dates and faults.
THEOREM WritesInvHolds == Spec => []WritesInv
<1>1. Init => WritesInv
  BY WritesInitInv
<1>2. QED
  BY <1>1, WritesStepKeepsInv, PTL DEF Spec

\* In a palace that one process serves, whenever nothing is staged, queued or half done, the remote
\* has the fact exactly if the palace has it, through any number of crashes, failed cancellations,
\* reconciliations, operations, keyed repeats and midnights (tool_kg_add, tool_kg_invalidate and
\* reconcile_staged_replication), unless the behaviour strayed: a key was called again behind later
\* intents or for an addition whose fact has ended, or a pass ran on the day the fact ended.
THEOREM WritesConverge == Spec => []Converged
<1>1. ASSUME WritesInv
      PROVE  Converged
  <2>1. SUFFICES ASSUME ServedByOne, Quiet, ~strayed
                 PROVE  remote = fact.open
    BY DEF Converged, ReplicasAgree
  <2>2. SentOrRecovered
    BY <1>1, <2>1 DEF WritesInv
  <2>3. \A o \in Ops : op[o].state # "staged" /\ op[o].state # "queued"
    BY <2>1 DEF Quiet
  <2>4. Unsent = {}
    BY <2>2, <2>3 DEF Unsent, SentOrRecovered
  <2>5. QED
    BY <2>2, <2>3, <2>4 DEF SentOrRecovered, Tells
<1>2. QED
  BY <1>1, WritesInvHolds, PTL

\* In a palace that one process serves, no intent of a call in progress is ever cancelled but by its
\* call, nor, until the behaviour strays, the intent of anything that committed.  Where several do,
\* no reconciliation cancels the intent of a call of another process inside the grace period, until
\* two calls of one key meet (STAGED_INTENT_RECONCILIATION_GRACE); nothing is said of their
\* committed mutations, which overtake each other.
THEOREM IntentsAreKept == Spec => []IntentsKept
<1>1. ASSUME WritesInv
      PROVE  IntentsKept
  <2>1. WritesTypes /\ PassesAndCalls /\ TypeOK
    BY <1>1 DEF WritesInv, WritesTypes
  <2>2. CommittedNotCancelled
    BY <1>1 DEF WritesInv, CommittedNotCancelled, SentOrRecovered
  <2>3. ASSUME NEW p \in Procs, proc[p].pc \in {"staged", "committed"}, proc[p].owned,
               ServedByOne \/ (~strayed /\ proc[p].call.op \in fresh)
        PROVE  op[proc[p].call.op].state # "cancelled"
    <3>1. p \in setup.procs
      BY <2>1, <2>3, IdleIs DEF WritesTypes
    <3>2. proc[p].call.op \in Ops /\ InCall(p, proc[p].call.op)
      BY <2>1, <2>3 DEF PassesAndCalls, InCall
    <3>3. CASE ServedByOne
      BY <1>1, <2>3, <3>1, <3>2, <3>3 DEF WritesInv, OneServes
    <3>4. CASE ~ServedByOne
      BY <1>1, <2>3, <3>2, <3>4 DEF WritesInv, OthersKeepIntents
    <3>5. QED
      BY <3>3, <3>4
  <2>4. QED
    BY <2>1, <2>2, <2>3 DEF IntentsKept, WriterKeepsIntent
<1>2. QED
  BY <1>1, WritesInvHolds, PTL

-----------------------------------------------------------------------------
(* Local-first writes of drawers.                                          *)

RowsAbout(d) == {i \in Rows : intents[i].drawer = d}
IsAdd(i)     == intents[i].kind = "add"

\* Drawers none of whose operations failed and that no exception is made of.
Good(d) ==
  /\ \A i \in RowsAbout(d) : intents[i].state # "failed"
  /\ d \notin pruned /\ d \notin spoiled /\ d \notin overtaken

\* What a key says of its row, and that a row not yet delivered has not landed.
RowsKeyed ==
  /\ \A i \in Rows :
       /\ intents[i].key \in RemoveKeys \cup {NewKey} <=> ~IsAdd(i)
       /\ intents[i].key \in DrawerIds => intents[i].key = intents[i].drawer
       /\ intents[i].drawer <= minted
       /\ intents[i].state \in {"staged", "cancelled"} => ~intents[i].landed
  /\ \A i, j \in Rows : intents[i].key = intents[j].key /\ intents[i].key # NewKey => i = j

\* The call in progress has a row; until it is committed the row is staged, and once it is, a row
\* that is still staged looks done.
CallInProgress ==
  /\ tool.pc \in {"adding", "stored", "removing", "committed"} => Mine \in Rows
  /\ tool.pc \in {"adding", "stored"} => IsAdd(Mine) /\ intents[Mine].state = "staged"
  /\ Doing("stored") => Target \in held
  /\ Doing("removing") =>
       /\ ~IsAdd(Mine) /\ intents[Mine].state = "staged" /\ Target \in held
       /\ Good(Target) => \A j \in RowsAbout(Target) : j <= Mine
  /\ Doing("committed") /\ intents[Mine].state = "staged" => LooksDone(Mine)

\* An addition not yet done is the only row of its drawer, which is nowhere; or the drawer is there
\* and the row is about to be activated, by its call or at the next start.
NewDrawers ==
  \A d \in 1..minted : Good(d) =>
    \A i \in RowsAbout(d) : IsAdd(i) /\ intents[i].state \in {"staged", "cancelled"} =>
      \/ d \notin held /\ d \notin stored /\ \A j \in RowsAbout(d) : j = i
      \/ /\ d \in held /\ intents[i].state = "staged"
         /\ tool.pc \in {"down", "starting"} \/ (tool.pc \in {"stored", "committed"} /\ Mine = i)

\* A drawer of the palace has an addition, and no deletion past staging; the remote has it once an
\* addition arrived.
HeldDrawers ==
  \A d \in 1..minted : Good(d) /\ d \in held =>
    /\ \E i \in RowsAbout(d) : IsAdd(i) /\ intents[i].state \in {"staged", "queued", "delivered"}
    /\ \A i \in RowsAbout(d) : ~IsAdd(i) => intents[i].state \in {"staged", "cancelled"}
    /\ (\E i \in RowsAbout(d) : IsAdd(i) /\ (intents[i].landed \/ intents[i].state = "delivered"))
         => d \in stored

\* A drawer the palace has no more, but the remote has or will get, has a deletion on its way behind
\* every addition.
GoneDrawers ==
  \A d \in 1..minted :
    /\ Good(d) /\ d \notin held
    /\ d \in stored \/ \E i \in RowsAbout(d) : IsAdd(i) /\ intents[i].state = "queued"
    => \E k \in RowsAbout(d) :
         /\ ~IsAdd(k) /\ intents[k].state \in {"staged", "queued"} /\ ~intents[k].landed
         /\ \A i \in RowsAbout(d) : IsAdd(i) => i < k

DrawersInv ==
  /\ DrawersTypeOK /\ RowsKeyed /\ CallInProgress /\ NewDrawers /\ HeldDrawers /\ GoneDrawers

LEMMA RowIs ==
  ASSUME DrawersTypeOK
  PROVE  /\ Rows = 1..Len(intents) /\ Len(intents) \in Nat
         /\ \A i \in Rows : /\ intents[i] \in Intent /\ intents[i].drawer \in DrawerIds
                            /\ intents[i].landed \in BOOLEAN /\ intents[i].key \in OutboxKeys
                            /\ intents[i].kind \in {"add", "delete"}
                            /\ intents[i].state \in {"staged", "queued", "delivered", "failed",
                                                     "cancelled"}
<1>1. Rows = 1..Len(intents) /\ Len(intents) \in Nat /\ \A i \in Rows : intents[i] \in Intent
  BY DEF DrawersTypeOK, Rows
<1>2. QED
  BY <1>1 DEF Intent

LEMMA StateIsSet ==
  ASSUME DrawersTypeOK, NEW i \in Rows,
         NEW state \in {"staged", "queued", "delivered", "failed", "cancelled"}, SetState(i, state)
  PROVE  /\ intents' \in Seq(Intent) /\ Len(intents') = Len(intents) /\ Rows' = Rows
         /\ \A j \in Rows : /\ intents'[j].kind = intents[j].kind /\ intents'[j].key = intents[j].key
                            /\ intents'[j].drawer = intents[j].drawer
                            /\ intents'[j].landed = intents[j].landed
                            /\ intents'[j].state = IF j = i THEN state ELSE intents[j].state
<1> DEFINE row == [intents[i] EXCEPT !.state = state]
<1>1. /\ intents \in Seq(Intent) /\ Rows = 1..Len(intents) /\ intents[i] \in Intent
      /\ \A j \in Rows : intents[j] \in Intent
  BY RowIs DEF DrawersTypeOK
<1>2. /\ row \in Intent /\ row.state = state /\ row.kind = intents[i].kind
      /\ row.key = intents[i].key /\ row.drawer = intents[i].drawer /\ row.landed = intents[i].landed
  BY <1>1 DEF Intent
<1>3. intents' = [intents EXCEPT ![i] = row] /\ DOMAIN intents = 1..Len(intents)
  BY <1>1 DEF SetState
<1> HIDE DEF row
<1>4. intents' = [j \in 1..Len(intents) |-> IF j = i THEN row ELSE intents[j]]
  BY <1>3
<1>5. intents' \in Seq(Intent) /\ Len(intents') = Len(intents)
  BY <1>1, <1>2, <1>4
<1>6. Rows' = Rows
  BY <1>1, <1>4 DEF Rows
<1>7. QED
  BY <1>1, <1>2, <1>4, <1>5, <1>6

LEMMA DrawersBound == 0 \in 0..MaxIntents
BY DrawerWritesAssumption

LEMMA DrawerIsStored ==
  ASSUME DrawersInv, StoreDrawer
  PROVE  DrawersInv'
<1>1. /\ Doing("adding") /\ Mine \in Rows /\ IsAdd(Mine) /\ intents[Mine].state = "staged"
      /\ Target \in 1..minted /\ Mine \in RowsAbout(Target)
  BY RowIs
  DEF StoreDrawer, Doing, DrawersInv, DrawersTypeOK, CallInProgress, RowsKeyed, Target, Mine,
      RowsAbout, DrawerIds
<1>2. UNCHANGED <<intents, vouched, stored, minted, drawerFaults, pruned, overtaken, spoiled>>
  BY DEF StoreDrawer
<1>3. /\ intents' = intents /\ Rows' = Rows
  BY <1>2 DEF Rows
<1>4. /\ tool' \in Tool /\ tool'.row <= Len(intents) /\ tool'.pc = "stored" /\ tool'.row = tool.row
      /\ held' = held \cup {Target} /\ pending' = pending \cup {Target}
  BY DEF StoreDrawer, Doing, DrawersInv, DrawersTypeOK, Tool
<1>5. /\ \A d \in 1..minted : RowsAbout(d)' = RowsAbout(d) /\ (Good(d)' => Good(d))
      /\ \A i \in Rows : IsAdd(i)' <=> IsAdd(i)
  <2>1. \A i \in Rows : IsAdd(i)' <=> IsAdd(i)
    BY <1>3 DEF IsAdd
  <2>2. \A d \in 1..minted : RowsAbout(d)' = RowsAbout(d)
    BY <1>3 DEF RowsAbout
  <2>3. \A d \in 1..minted : Good(d)' => Good(d)
    BY <1>1, <1>2, <1>3, <1>4, <2>2 DEF RowsAbout, Good
  <2>4. QED
    BY <2>1, <2>2, <2>3
<1>6. DrawersTypeOK'
  BY <1>1, <1>2, <1>3, <1>4 DEF DrawersInv, DrawersTypeOK
<1>7. RowsKeyed'
  BY <1>1, <1>2, <1>3, <1>4, <1>5 DEF DrawersInv, RowsKeyed
<1>8. CallInProgress'
  BY <1>1, <1>2, <1>3, <1>4, <1>5
  DEF DrawersInv, CallInProgress, Doing, Mine, Target, IsAdd, RowsAbout, Good, LooksDone
<1>9. NewDrawers'
  BY <1>1, <1>2, <1>3, <1>4, <1>5, RowIs DEF DrawersInv, NewDrawers, RowsAbout, Doing, Mine
<1>10. HeldDrawers'
  <2>1. ASSUME NEW d \in 1..minted, Good(d)', d \in held', d # Target
        PROVE  d \in held
    BY <1>4, <2>1
  <2>2. ASSUME NEW d \in 1..minted, d = Target, Good(d)
        PROVE  /\ \A j \in RowsAbout(d) : j = Mine
               /\ ~intents[Mine].landed
    BY <1>1, <2>2 DEF DrawersInv, NewDrawers, RowsKeyed, Doing
  <2>3. SUFFICES ASSUME NEW d \in 1..minted, Good(d)', d \in held'
               PROVE  /\ \E i \in RowsAbout(d) : IsAdd(i) /\ intents[i].state \in {"staged", "queued", "delivered"}
                      /\ \A i \in RowsAbout(d) : ~IsAdd(i) => intents[i].state \in {"staged", "cancelled"}
                      /\ (\E i \in RowsAbout(d) :
                            IsAdd(i) /\ (intents[i].landed \/ intents[i].state = "delivered"))
                           => d \in stored
    BY <1>2, <1>3, <1>5 DEF HeldDrawers, RowsAbout
  <2>4. CASE d = Target
    BY <1>1, <1>4, <1>5, <2>2, <2>3, <2>4 DEF RowsAbout
  <2>5. CASE d # Target
    BY <1>1, <1>4, <1>5, <2>1, <2>3, <2>5 DEF DrawersInv, HeldDrawers
  <2>6. QED
    BY <2>4, <2>5
<1>11. GoneDrawers'
  BY <1>1, <1>2, <1>3, <1>4, <1>5, RowIs DEF DrawersInv, GoneDrawers, RowsAbout
<1>12. QED
  BY <1>6, <1>7, <1>8, <1>9, <1>10, <1>11 DEF DrawersInv

LEMMA DrawerIsCommitted ==
  ASSUME DrawersInv, CommitDrawer
  PROVE  DrawersInv'
<1>1. /\ Doing("stored") /\ Mine \in Rows /\ Target \in 1..minted
  BY RowIs
  DEF CommitDrawer, Doing, DrawersInv, DrawersTypeOK, CallInProgress, RowsKeyed, Target, Mine,
      DrawerIds
<1>2. UNCHANGED <<intents, held, stored, minted, drawerFaults, pruned, overtaken, spoiled>>
  BY DEF CommitDrawer
<1>3. /\ intents' = intents /\ Rows' = Rows
  BY <1>2 DEF Rows
<1>4. /\ tool' \in Tool /\ tool'.row <= Len(intents) /\ tool'.pc = "committed" /\ tool'.row = tool.row
      /\ pending' = pending \ {Target} /\ vouched' = vouched \cup {Target}
  BY DEF CommitDrawer, Doing, DrawersInv, DrawersTypeOK, Tool
<1>5. /\ \A d \in 1..minted : RowsAbout(d)' = RowsAbout(d) /\ (Good(d)' => Good(d))
      /\ \A i \in Rows : IsAdd(i)' <=> IsAdd(i)
  <2>1. \A i \in Rows : IsAdd(i)' <=> IsAdd(i)
    BY <1>3 DEF IsAdd
  <2>2. \A d \in 1..minted : RowsAbout(d)' = RowsAbout(d)
    BY <1>3 DEF RowsAbout
  <2>3. \A d \in 1..minted : Good(d)' => Good(d)
    BY <1>1, <1>2, <1>3, <1>4, <2>2 DEF RowsAbout, Good
  <2>4. QED
    BY <2>1, <2>2, <2>3
<1>6. DrawersTypeOK'
  BY <1>1, <1>2, <1>3, <1>4 DEF DrawersInv, DrawersTypeOK
<1>7. RowsKeyed'
  BY <1>1, <1>2, <1>3, <1>4, <1>5 DEF DrawersInv, RowsKeyed
<1>8. CallInProgress'
  BY <1>1, <1>2, <1>3, <1>4, <1>5
  DEF DrawersInv, CallInProgress, Doing, Mine, Target, IsAdd, RowsAbout, Good, LooksDone
<1>9. NewDrawers'
  BY <1>1, <1>2, <1>3, <1>4, <1>5, RowIs DEF DrawersInv, NewDrawers, RowsAbout, Doing, Mine
<1>10. HeldDrawers'
  BY <1>1, <1>2, <1>3, <1>4, <1>5, RowIs DEF DrawersInv, HeldDrawers, RowsAbout
<1>11. GoneDrawers'
  BY <1>1, <1>2, <1>3, <1>4, <1>5, RowIs DEF DrawersInv, GoneDrawers, RowsAbout
<1>12. QED
  BY <1>6, <1>7, <1>8, <1>9, <1>10, <1>11 DEF DrawersInv

LEMMA DrawerIsRemoved ==
  ASSUME DrawersInv, RemoveDrawer
  PROVE  DrawersInv'
<1>1. /\ Doing("removing") /\ Mine \in Rows /\ ~IsAdd(Mine) /\ intents[Mine].state = "staged"
      /\ Target \in 1..minted /\ Mine \in RowsAbout(Target) /\ Target \in held
  BY RowIs
  DEF RemoveDrawer, Doing, DrawersInv, DrawersTypeOK, CallInProgress, RowsKeyed, Target, Mine,
      RowsAbout, DrawerIds
<1>2. UNCHANGED <<intents, pending, vouched, stored, minted, drawerFaults, pruned, overtaken, spoiled>>
  BY DEF RemoveDrawer
<1>3. /\ intents' = intents /\ Rows' = Rows
  BY <1>2 DEF Rows
<1>4. /\ tool' \in Tool /\ tool'.row <= Len(intents) /\ tool'.pc = "committed" /\ tool'.row = tool.row
      /\ held' = held \ {Target}
  BY DEF RemoveDrawer, Doing, DrawersInv, DrawersTypeOK, Tool
<1>5. /\ \A d \in 1..minted : RowsAbout(d)' = RowsAbout(d) /\ (Good(d)' => Good(d))
      /\ \A i \in Rows : IsAdd(i)' <=> IsAdd(i)
  <2>1. \A i \in Rows : IsAdd(i)' <=> IsAdd(i)
    BY <1>3 DEF IsAdd
  <2>2. \A d \in 1..minted : RowsAbout(d)' = RowsAbout(d)
    BY <1>3 DEF RowsAbout
  <2>3. \A d \in 1..minted : Good(d)' => Good(d)
    BY <1>1, <1>2, <1>3, <1>4, <2>2 DEF RowsAbout, Good
  <2>4. QED
    BY <2>1, <2>2, <2>3
<1>6. DrawersTypeOK'
  BY <1>1, <1>2, <1>3, <1>4 DEF DrawersInv, DrawersTypeOK
<1>7. RowsKeyed'
  BY <1>1, <1>2, <1>3, <1>4, <1>5 DEF DrawersInv, RowsKeyed
<1>8. CallInProgress'
  BY <1>1, <1>2, <1>3, <1>4, <1>5
  DEF DrawersInv, CallInProgress, Doing, Mine, Target, IsAdd, RowsAbout, Good, LooksDone
<1>9. NewDrawers'
  BY <1>1, <1>2, <1>3, <1>4, <1>5, RowIs DEF DrawersInv, NewDrawers, RowsAbout, Doing, Mine
<1>10. HeldDrawers'
  BY <1>1, <1>2, <1>3, <1>4, <1>5, RowIs DEF DrawersInv, HeldDrawers, RowsAbout
<1>11. GoneDrawers'
  <2>1. ASSUME NEW d \in 1..minted, Good(d)', d \notin held', d # Target
        PROVE  d \notin held
    BY <1>4, <2>1
  <2>2. ASSUME NEW d \in 1..minted, d = Target, Good(d)
        PROVE  /\ \A j \in RowsAbout(d) : IsAdd(j) => j < Mine
               /\ ~intents[Mine].landed
    <3>1. ASSUME NEW j \in RowsAbout(d), IsAdd(j)
          PROVE  j < Mine
      <4>1. j <= Mine /\ j # Mine
        BY <1>1, <2>2, <3>1 DEF DrawersInv, CallInProgress
      <4>2. j \in Nat /\ Mine \in Nat
        BY <1>1, RowIs DEF DrawersInv, RowsAbout
      <4>3. QED
        BY <4>1, <4>2
    <3>2. QED
      BY <1>1, <3>1 DEF DrawersInv, RowsKeyed
  <2>3. SUFFICES ASSUME NEW d \in 1..minted, Good(d)', d \notin held',
               d \in stored \/ \E i \in RowsAbout(d) : IsAdd(i) /\ intents[i].state = "queued"
               PROVE  \E k \in RowsAbout(d) :
                        /\ ~IsAdd(k) /\ intents[k].state \in {"staged", "queued"} /\ ~intents[k].landed
                        /\ \A i \in RowsAbout(d) : IsAdd(i) => i < k
    BY <1>2, <1>3, <1>5 DEF GoneDrawers, RowsAbout
  <2>4. CASE d = Target
    BY <1>1, <1>4, <1>5, <2>2, <2>3, <2>4 DEF RowsAbout
  <2>5. CASE d # Target
    BY <1>1, <1>4, <1>5, <2>1, <2>3, <2>5 DEF DrawersInv, GoneDrawers
  <2>6. QED
    BY <2>4, <2>5
<1>12. QED
  BY <1>6, <1>7, <1>8, <1>9, <1>10, <1>11 DEF DrawersInv

LEMMA PollBegins ==
  ASSUME DrawersInv, PollStaged
  PROVE  DrawersInv'
<1>1. Doing("ready")
  BY DEF PollStaged, Doing
<1>2. UNCHANGED <<intents, held, pending, vouched, stored, minted, drawerFaults, pruned, overtaken, spoiled>>
  BY DEF PollStaged
<1>3. /\ intents' = intents /\ Rows' = Rows
  BY <1>2 DEF Rows
<1>4. /\ tool' \in Tool /\ tool'.row <= Len(intents) /\ tool'.pc = "polling"
  BY DrawersBound, RowIs DEF PollStaged, Idle, DrawersInv, DrawersTypeOK, Tool
<1>5. /\ \A d \in 1..minted : RowsAbout(d)' = RowsAbout(d) /\ (Good(d)' => Good(d))
      /\ \A i \in Rows : IsAdd(i)' <=> IsAdd(i)
  <2>1. \A i \in Rows : IsAdd(i)' <=> IsAdd(i)
    BY <1>3 DEF IsAdd
  <2>2. \A d \in 1..minted : RowsAbout(d)' = RowsAbout(d)
    BY <1>3 DEF RowsAbout
  <2>3. \A d \in 1..minted : Good(d)' => Good(d)
    BY <1>1, <1>2, <1>3, <1>4, <2>2 DEF RowsAbout, Good
  <2>4. QED
    BY <2>1, <2>2, <2>3
<1>6. DrawersTypeOK'
  BY <1>1, <1>2, <1>3, <1>4 DEF DrawersInv, DrawersTypeOK
<1>7. RowsKeyed'
  BY <1>1, <1>2, <1>3, <1>4, <1>5 DEF DrawersInv, RowsKeyed
<1>8. CallInProgress'
  BY <1>1, <1>2, <1>3, <1>4, <1>5
  DEF DrawersInv, CallInProgress, Doing, Mine, Target, IsAdd, RowsAbout, Good, LooksDone
<1>9. NewDrawers'
  BY <1>1, <1>2, <1>3, <1>4, <1>5, RowIs DEF DrawersInv, NewDrawers, RowsAbout, Doing, Mine
<1>10. HeldDrawers'
  BY <1>1, <1>2, <1>3, <1>4, <1>5, RowIs DEF DrawersInv, HeldDrawers, RowsAbout
<1>11. GoneDrawers'
  BY <1>1, <1>2, <1>3, <1>4, <1>5, RowIs DEF DrawersInv, GoneDrawers, RowsAbout
<1>12. QED
  BY <1>6, <1>7, <1>8, <1>9, <1>10, <1>11 DEF DrawersInv

LEMMA ReconcileEnds ==
  ASSUME DrawersInv, EndReconcile
  PROVE  DrawersInv'
<1>1. (Doing("starting") \/ Doing("polling")) /\ \A i \in Rows : ~(intents[i].state = "staged" /\ LooksDone(i))
  BY DEF EndReconcile, Doing, Decidable
<1>2. UNCHANGED <<intents, held, pending, vouched, stored, minted, drawerFaults, pruned, overtaken, spoiled>>
  BY DEF EndReconcile
<1>3. /\ intents' = intents /\ Rows' = Rows
  BY <1>2 DEF Rows
<1>4. /\ tool' \in Tool /\ tool'.row <= Len(intents) /\ tool'.pc = "ready"
  BY DrawersBound, RowIs DEF EndReconcile, Idle, DrawersInv, DrawersTypeOK, Tool
<1>5. /\ \A d \in 1..minted : RowsAbout(d)' = RowsAbout(d) /\ (Good(d)' => Good(d))
      /\ \A i \in Rows : IsAdd(i)' <=> IsAdd(i)
  <2>1. \A i \in Rows : IsAdd(i)' <=> IsAdd(i)
    BY <1>3 DEF IsAdd
  <2>2. \A d \in 1..minted : RowsAbout(d)' = RowsAbout(d)
    BY <1>3 DEF RowsAbout
  <2>3. \A d \in 1..minted : Good(d)' => Good(d)
    BY <1>1, <1>2, <1>3, <1>4, <2>2 DEF RowsAbout, Good
  <2>4. QED
    BY <2>1, <2>2, <2>3
<1>6. DrawersTypeOK'
  BY <1>1, <1>2, <1>3, <1>4 DEF DrawersInv, DrawersTypeOK
<1>7. RowsKeyed'
  BY <1>1, <1>2, <1>3, <1>4, <1>5 DEF DrawersInv, RowsKeyed
<1>8. CallInProgress'
  BY <1>1, <1>2, <1>3, <1>4, <1>5
  DEF DrawersInv, CallInProgress, Doing, Mine, Target, IsAdd, RowsAbout, Good, LooksDone
<1>9. NewDrawers'
  BY <1>1, <1>2, <1>3, <1>4, <1>5, RowIs
  DEF DrawersInv, NewDrawers, RowsAbout, Doing, Mine, LooksDone, IsAdd
<1>10. HeldDrawers'
  BY <1>1, <1>2, <1>3, <1>4, <1>5, RowIs DEF DrawersInv, HeldDrawers, RowsAbout
<1>11. GoneDrawers'
  BY <1>1, <1>2, <1>3, <1>4, <1>5, RowIs DEF DrawersInv, GoneDrawers, RowsAbout
<1>12. QED
  BY <1>6, <1>7, <1>8, <1>9, <1>10, <1>11 DEF DrawersInv

LEMMA ToolCrashes ==
  ASSUME DrawersInv, CrashTool
  PROVE  DrawersInv'
<1>1. TRUE
  BY DEF CrashTool, Doing
<1>2. UNCHANGED <<intents, held, pending, vouched, stored, minted, pruned, overtaken, spoiled>>
  BY DEF CrashTool
<1>3. /\ intents' = intents /\ Rows' = Rows
  BY <1>2 DEF Rows
<1>4. /\ tool' \in Tool /\ tool'.row <= Len(intents) /\ tool'.pc = "down" /\ drawerFaults' \in 0..MaxDrawerFaults
  BY DrawersBound, RowIs, DrawerWritesAssumption
  DEF CrashTool, Idle, Faults, DrawersInv, DrawersTypeOK, Tool
<1>5. /\ \A d \in 1..minted : RowsAbout(d)' = RowsAbout(d) /\ (Good(d)' => Good(d))
      /\ \A i \in Rows : IsAdd(i)' <=> IsAdd(i)
  <2>1. \A i \in Rows : IsAdd(i)' <=> IsAdd(i)
    BY <1>3 DEF IsAdd
  <2>2. \A d \in 1..minted : RowsAbout(d)' = RowsAbout(d)
    BY <1>3 DEF RowsAbout
  <2>3. \A d \in 1..minted : Good(d)' => Good(d)
    BY <1>1, <1>2, <1>3, <1>4, <2>2 DEF RowsAbout, Good
  <2>4. QED
    BY <2>1, <2>2, <2>3
<1>6. DrawersTypeOK'
  BY <1>1, <1>2, <1>3, <1>4 DEF DrawersInv, DrawersTypeOK
<1>7. RowsKeyed'
  BY <1>1, <1>2, <1>3, <1>4, <1>5 DEF DrawersInv, RowsKeyed
<1>8. CallInProgress'
  BY <1>1, <1>2, <1>3, <1>4, <1>5
  DEF DrawersInv, CallInProgress, Doing, Mine, Target, IsAdd, RowsAbout, Good, LooksDone
<1>9. NewDrawers'
  BY <1>1, <1>2, <1>3, <1>4, <1>5, RowIs DEF DrawersInv, NewDrawers, RowsAbout, Doing, Mine
<1>10. HeldDrawers'
  BY <1>1, <1>2, <1>3, <1>4, <1>5, RowIs DEF DrawersInv, HeldDrawers, RowsAbout
<1>11. GoneDrawers'
  BY <1>1, <1>2, <1>3, <1>4, <1>5, RowIs DEF DrawersInv, GoneDrawers, RowsAbout
<1>12. QED
  BY <1>6, <1>7, <1>8, <1>9, <1>10, <1>11 DEF DrawersInv

LEMMA DeletionIsForwarded ==
  ASSUME DrawersInv, NEW key, NEW gone, ForwardDelete(key, gone)
  PROVE  DrawersInv'
<1>1. gone \notin held
  BY DEF ForwardDelete, Doing
<1>2. UNCHANGED <<intents, held, pending, vouched, minted, tool, drawerFaults, pruned, overtaken, spoiled>>
  BY DEF ForwardDelete
<1>3. /\ intents' = intents /\ Rows' = Rows
  BY <1>2 DEF Rows
<1>4. stored' = stored \ {gone}
  BY DEF ForwardDelete
<1>5. /\ \A d \in 1..minted : RowsAbout(d)' = RowsAbout(d) /\ (Good(d)' => Good(d))
      /\ \A i \in Rows : IsAdd(i)' <=> IsAdd(i)
  <2>1. \A i \in Rows : IsAdd(i)' <=> IsAdd(i)
    BY <1>3 DEF IsAdd
  <2>2. \A d \in 1..minted : RowsAbout(d)' = RowsAbout(d)
    BY <1>3 DEF RowsAbout
  <2>3. \A d \in 1..minted : Good(d)' => Good(d)
    BY <1>1, <1>2, <1>3, <1>4, <2>2 DEF RowsAbout, Good
  <2>4. QED
    BY <2>1, <2>2, <2>3
<1>6. DrawersTypeOK'
  BY <1>1, <1>2, <1>3, <1>4 DEF DrawersInv, DrawersTypeOK
<1>7. RowsKeyed'
  BY <1>1, <1>2, <1>3, <1>4, <1>5 DEF DrawersInv, RowsKeyed
<1>8. CallInProgress'
  BY <1>1, <1>2, <1>3, <1>4, <1>5
  DEF DrawersInv, CallInProgress, Doing, Mine, Target, IsAdd, RowsAbout, Good, LooksDone
<1>9. NewDrawers'
  BY <1>1, <1>2, <1>3, <1>4, <1>5, RowIs DEF DrawersInv, NewDrawers, RowsAbout, Doing, Mine
<1>10. HeldDrawers'
  BY <1>1, <1>2, <1>3, <1>4, <1>5, RowIs DEF DrawersInv, HeldDrawers, RowsAbout
<1>11. GoneDrawers'
  BY <1>1, <1>2, <1>3, <1>4, <1>5, RowIs DEF DrawersInv, GoneDrawers, RowsAbout
<1>12. QED
  BY <1>6, <1>7, <1>8, <1>9, <1>10, <1>11 DEF DrawersInv

LEMMA IntentIsActivated ==
  ASSUME DrawersInv, ActivateIntent
  PROVE  DrawersInv'
<1>1. Doing("committed") /\ Mine \in Rows
  BY DEF ActivateIntent, Doing, DrawersInv, CallInProgress
<1>2. UNCHANGED <<held, pending, vouched, stored, minted, drawerFaults, pruned, overtaken, spoiled>>
  BY DEF ActivateIntent
<1>3. /\ intents' \in Seq(Intent) /\ Len(intents') = Len(intents) /\ Rows' = Rows
      /\ \A j \in Rows : /\ intents'[j].kind = intents[j].kind /\ intents'[j].key = intents[j].key
                         /\ intents'[j].drawer = intents[j].drawer
                         /\ intents'[j].landed = intents[j].landed
                         /\ intents'[j].state = IF j = Mine /\ intents[j].state = "staged"
                                                THEN "queued" ELSE intents[j].state
  <2>1. CASE intents[Mine].state = "staged"
    <3>1. SetState(Mine, "queued")
      BY <2>1 DEF ActivateIntent
    <3>2. QED
      BY <1>1, <2>1, <3>1, StateIsSet DEF DrawersInv
  <2>2. CASE intents[Mine].state # "staged"
    BY <2>2 DEF ActivateIntent, DrawersInv, DrawersTypeOK, Rows
  <2>3. QED
    BY <2>1, <2>2
<1>4. /\ tool' \in Tool /\ tool'.row <= Len(intents) /\ tool'.pc = "ready"
  BY DrawersBound, RowIs DEF ActivateIntent, Idle, DrawersInv, DrawersTypeOK, Tool
<1>5. /\ \A d \in 1..minted : RowsAbout(d)' = RowsAbout(d) /\ (Good(d)' => Good(d))
      /\ \A i \in Rows : IsAdd(i)' <=> IsAdd(i)
  <2>1. \A i \in Rows : IsAdd(i)' <=> IsAdd(i)
    BY <1>3 DEF IsAdd
  <2>2. \A d \in 1..minted : RowsAbout(d)' = RowsAbout(d)
    BY <1>3 DEF RowsAbout
  <2>3. \A d \in 1..minted : Good(d)' => Good(d)
    BY <1>1, <1>2, <1>3, <1>4, <2>2 DEF RowsAbout, Good
  <2>4. QED
    BY <2>1, <2>2, <2>3
<1>6. DrawersTypeOK'
  BY <1>1, <1>2, <1>3, <1>4 DEF DrawersInv, DrawersTypeOK
<1>7. RowsKeyed'
  BY <1>1, <1>2, <1>3, <1>4, <1>5 DEF DrawersInv, RowsKeyed
<1>8. CallInProgress'
  BY <1>1, <1>2, <1>3, <1>4, <1>5
  DEF DrawersInv, CallInProgress, Doing, Mine, Target, IsAdd, RowsAbout, Good, LooksDone
<1>9. NewDrawers'
  BY <1>1, <1>2, <1>3, <1>4, <1>5, RowIs DEF DrawersInv, NewDrawers, RowsAbout, Doing, Mine
<1>10. HeldDrawers'
  <2>1. SUFFICES ASSUME NEW d \in 1..minted, Good(d), Good(d)', d \in held', d \in held
               PROVE  /\ \E i \in RowsAbout(d) :
                            IsAdd(i) /\ intents'[i].state \in {"staged", "queued", "delivered"}
                      /\ \A i \in RowsAbout(d) : ~IsAdd(i) => intents'[i].state \in {"staged", "cancelled"}
                      /\ (\E i \in RowsAbout(d) :
                            IsAdd(i) /\ (intents'[i].landed \/ intents'[i].state = "delivered"))
                           => d \in stored'
    BY <1>2, <1>3, <1>4, <1>5 DEF HeldDrawers, RowsAbout
  <2>2. PICK w \in RowsAbout(d) : IsAdd(w) /\ intents[w].state \in {"staged", "queued", "delivered"}
    BY <2>1 DEF DrawersInv, HeldDrawers
  <2>3. \A i \in RowsAbout(d) : ~IsAdd(i) => intents[i].state \in {"staged", "cancelled"}
    BY <2>1 DEF DrawersInv, HeldDrawers
  <2>4. (\E i \in RowsAbout(d) : IsAdd(i) /\ (intents[i].landed \/ intents[i].state = "delivered"))
          => d \in stored
    BY <2>1 DEF DrawersInv, HeldDrawers
  <2>5. \A i \in RowsAbout(d) : i \in Rows /\ intents[i].drawer = d
    BY DEF RowsAbout
<2>6. \A i \in RowsAbout(d) : ~IsAdd(i) /\ i = Mine => intents[i].state # "staged"
    BY <1>1, <2>1, <2>5 DEF DrawersInv, CallInProgress, LooksDone, IsAdd
  <2>7. QED
    BY <1>2, <1>3, <2>2, <2>3, <2>4, <2>5, <2>6
<1>11. GoneDrawers'
  <2>1. SUFFICES ASSUME NEW d \in 1..minted, Good(d), Good(d)', d \notin held', d \notin held,
                        d \in stored' \/ \E i \in RowsAbout(d) : IsAdd(i) /\ intents'[i].state = "queued"
               PROVE  \E k \in RowsAbout(d) :
                        /\ ~IsAdd(k) /\ intents'[k].state \in {"staged", "queued"} /\ ~intents'[k].landed
                        /\ \A i \in RowsAbout(d) : IsAdd(i) => i < k
    BY <1>2, <1>3, <1>4, <1>5 DEF GoneDrawers, RowsAbout, Good
  <2>2. \A i \in RowsAbout(d) : i \in Rows /\ intents[i].drawer = d
    BY DEF RowsAbout
<2>3. d \in stored \/ \E i \in RowsAbout(d) : IsAdd(i) /\ intents[i].state = "queued"
    BY <1>1, <1>2, <1>3, <2>1, <2>2 DEF DrawersInv, CallInProgress, LooksDone, IsAdd
  <2>4. PICK k \in RowsAbout(d) :
          /\ ~IsAdd(k) /\ intents[k].state \in {"staged", "queued"} /\ ~intents[k].landed
          /\ \A i \in RowsAbout(d) : IsAdd(i) => i < k
    BY <2>1, <2>3 DEF DrawersInv, GoneDrawers
  <2>5. QED
    BY <1>3, <2>2, <2>4
<1>12. QED
  BY <1>6, <1>7, <1>8, <1>9, <1>10, <1>11 DEF DrawersInv

LEMMA IntentsGrowOld ==
  ASSUME DrawersInv, IntentsAge
  PROVE  DrawersInv'
<1>1. TRUE
  BY DEF IntentsAge, Doing
<1>2. UNCHANGED <<held, pending, vouched, stored, minted, tool, drawerFaults, pruned, overtaken, spoiled>>
  BY DEF IntentsAge
<1>3. /\ intents' \in Seq(Intent) /\ Len(intents') = Len(intents) /\ Rows' = Rows
      /\ \A j \in Rows : /\ intents'[j].kind = intents[j].kind /\ intents'[j].key = intents[j].key
                         /\ intents'[j].drawer = intents[j].drawer
                         /\ intents'[j].landed = intents[j].landed
                         /\ intents'[j].state = intents[j].state
  <2>1. intents' = [i \in 1..Len(intents) |-> [intents[i] EXCEPT !.young = FALSE]]
    BY RowIs DEF IntentsAge, DrawersInv
  <2>2. \A i \in 1..Len(intents) :
          /\ [intents[i] EXCEPT !.young = FALSE] \in Intent
          /\ intents'[i].kind = intents[i].kind /\ intents'[i].key = intents[i].key
          /\ intents'[i].drawer = intents[i].drawer /\ intents'[i].landed = intents[i].landed
          /\ intents'[i].state = intents[i].state
    BY <2>1, RowIs DEF DrawersInv, Intent
  <2>3. intents' \in Seq(Intent) /\ Len(intents') = Len(intents)
    BY <2>1, <2>2, RowIs DEF DrawersInv
  <2>4. Rows' = Rows /\ Rows = 1..Len(intents)
    BY <2>1, RowIs DEF Rows, DrawersInv
  <2>5. QED
    BY <2>2, <2>3, <2>4
<1>4. TRUE
  OBVIOUS
<1>5. /\ \A d \in 1..minted : RowsAbout(d)' = RowsAbout(d) /\ (Good(d)' => Good(d))
      /\ \A i \in Rows : IsAdd(i)' <=> IsAdd(i)
  <2>1. \A i \in Rows : IsAdd(i)' <=> IsAdd(i)
    BY <1>3 DEF IsAdd
  <2>2. \A d \in 1..minted : RowsAbout(d)' = RowsAbout(d)
    BY <1>3 DEF RowsAbout
  <2>3. \A d \in 1..minted : Good(d)' => Good(d)
    BY <1>1, <1>2, <1>3, <1>4, <2>2 DEF RowsAbout, Good
  <2>4. QED
    BY <2>1, <2>2, <2>3
<1>6. DrawersTypeOK'
  BY <1>1, <1>2, <1>3, <1>4 DEF DrawersInv, DrawersTypeOK
<1>7. RowsKeyed'
  BY <1>1, <1>2, <1>3, <1>4, <1>5 DEF DrawersInv, RowsKeyed
<1>8. CallInProgress'
  BY <1>1, <1>2, <1>3, <1>4, <1>5
  DEF DrawersInv, CallInProgress, Doing, Mine, Target, IsAdd, RowsAbout, Good, LooksDone
<1>9. NewDrawers'
  BY <1>1, <1>2, <1>3, <1>4, <1>5, RowIs DEF DrawersInv, NewDrawers, RowsAbout, Doing, Mine
<1>10. HeldDrawers'
  <2>1. SUFFICES ASSUME NEW d \in 1..minted, Good(d), Good(d)', d \in held', d \in held
               PROVE  /\ \E i \in RowsAbout(d) :
                            IsAdd(i) /\ intents'[i].state \in {"staged", "queued", "delivered"}
                      /\ \A i \in RowsAbout(d) : ~IsAdd(i) => intents'[i].state \in {"staged", "cancelled"}
                      /\ (\E i \in RowsAbout(d) :
                            IsAdd(i) /\ (intents'[i].landed \/ intents'[i].state = "delivered"))
                           => d \in stored'
    BY <1>2, <1>3, <1>4, <1>5 DEF HeldDrawers, RowsAbout
  <2>2. PICK w \in RowsAbout(d) : IsAdd(w) /\ intents[w].state \in {"staged", "queued", "delivered"}
    BY <2>1 DEF DrawersInv, HeldDrawers
  <2>3. \A i \in RowsAbout(d) : ~IsAdd(i) => intents[i].state \in {"staged", "cancelled"}
    BY <2>1 DEF DrawersInv, HeldDrawers
  <2>4. (\E i \in RowsAbout(d) : IsAdd(i) /\ (intents[i].landed \/ intents[i].state = "delivered"))
          => d \in stored
    BY <2>1 DEF DrawersInv, HeldDrawers
  <2>5. \A i \in RowsAbout(d) : i \in Rows /\ intents[i].drawer = d
    BY DEF RowsAbout
<2>6. QED
    BY <1>2, <1>3, <2>2, <2>3, <2>4, <2>5
<1>11. GoneDrawers'
  BY <1>1, <1>2, <1>3, <1>4, <1>5, RowIs DEF DrawersInv, GoneDrawers, RowsAbout
<1>12. QED
  BY <1>6, <1>7, <1>8, <1>9, <1>10, <1>11 DEF DrawersInv

LEMMA PalaceOpens ==
  ASSUME DrawersInv, NEW late \in BOOLEAN, OpenPalace(late)
  PROVE  DrawersInv'
<1>1. Doing("down")
  BY DEF OpenPalace, Doing
<1>2. UNCHANGED <<vouched, stored, minted, drawerFaults, overtaken, spoiled>>
  BY DEF OpenPalace
<1>3. /\ intents' \in Seq(Intent) /\ Len(intents') = Len(intents) /\ Rows' = Rows
      /\ \A j \in Rows : /\ intents'[j].kind = intents[j].kind /\ intents'[j].key = intents[j].key
                         /\ intents'[j].drawer = intents[j].drawer
                         /\ intents'[j].landed = intents[j].landed
                         /\ intents'[j].state = intents[j].state
  <2>1. intents' = [i \in 1..Len(intents) |-> [intents[i] EXCEPT !.young = @ /\ ~late]]
    BY RowIs DEF OpenPalace, DrawersInv
  <2>2. \A i \in 1..Len(intents) :
          /\ [intents[i] EXCEPT !.young = @ /\ ~late] \in Intent
          /\ intents'[i].kind = intents[i].kind /\ intents'[i].key = intents[i].key
          /\ intents'[i].drawer = intents[i].drawer /\ intents'[i].landed = intents[i].landed
          /\ intents'[i].state = intents[i].state
    BY <2>1, RowIs DEF DrawersInv, Intent
  <2>3. intents' \in Seq(Intent) /\ Len(intents') = Len(intents)
    BY <2>1, <2>2, RowIs DEF DrawersInv
  <2>4. Rows' = Rows /\ Rows = 1..Len(intents)
    BY <2>1, RowIs DEF Rows, DrawersInv
  <2>5. QED
    BY <2>2, <2>3, <2>4
<1>4. /\ tool' \in Tool /\ tool'.row <= Len(intents) /\ tool'.pc = "starting"
      /\ held' \subseteq held /\ pending' \subseteq pending /\ pruned' \subseteq pruned \cup held
      /\ pruned \subseteq pruned' /\ \A d \in held : d \in held' \/ d \in pruned'
  BY DrawersBound, RowIs DEF OpenPalace, Idle, DrawersInv, DrawersTypeOK, Tool
<1>5. /\ \A d \in 1..minted : RowsAbout(d)' = RowsAbout(d) /\ (Good(d)' => Good(d))
      /\ \A i \in Rows : IsAdd(i)' <=> IsAdd(i)
  <2>1. \A i \in Rows : IsAdd(i)' <=> IsAdd(i)
    BY <1>3 DEF IsAdd
  <2>2. \A d \in 1..minted : RowsAbout(d)' = RowsAbout(d)
    BY <1>3 DEF RowsAbout
  <2>3. \A d \in 1..minted : Good(d)' => Good(d)
    BY <1>1, <1>2, <1>3, <1>4, <2>2 DEF RowsAbout, Good
  <2>4. QED
    BY <2>1, <2>2, <2>3
<1>6. DrawersTypeOK'
  BY <1>1, <1>2, <1>3, <1>4 DEF DrawersInv, DrawersTypeOK
<1>7. RowsKeyed'
  BY <1>1, <1>2, <1>3, <1>4, <1>5 DEF DrawersInv, RowsKeyed
<1>8. CallInProgress'
  BY <1>1, <1>2, <1>3, <1>4, <1>5
  DEF DrawersInv, CallInProgress, Doing, Mine, Target, IsAdd, RowsAbout, Good, LooksDone
<1>9. NewDrawers'
  <2>0. \A d \in 1..minted : Good(d)' => (d \in held' <=> d \in held)
    BY <1>4 DEF Good
  <2>1. SUFFICES ASSUME NEW d \in 1..minted, Good(d), Good(d)', NEW i \in RowsAbout(d), IsAdd(i),
                        intents'[i].state \in {"staged", "cancelled"}
               PROVE  \/ d \notin held' /\ d \notin stored' /\ \A j \in RowsAbout(d) : j = i
                      \/ /\ d \in held' /\ intents'[i].state = "staged"
                         /\ tool'.pc \in {"down", "starting"}
                              \/ (tool'.pc \in {"stored", "committed"} /\ tool'.row = i)
    BY <1>2, <1>3, <1>4, <1>5 DEF NewDrawers, RowsAbout, Doing, Mine
  <2>2. i \in Rows /\ intents[i].drawer = d
    BY DEF RowsAbout
<2>3. intents[i].state \in {"staged", "cancelled"}
    BY <1>3, <2>1, <2>2
  <2>4. \/ d \notin held /\ d \notin stored /\ \A j \in RowsAbout(d) : j = i
        \/ /\ d \in held /\ intents[i].state = "staged"
           /\ tool.pc \in {"down", "starting"} \/ (tool.pc \in {"stored", "committed"} /\ Mine = i)
    BY <2>1, <2>3 DEF DrawersInv, NewDrawers, Doing
  <2>5. QED
    BY <1>2, <1>3, <1>4, <2>0, <2>1, <2>2, <2>4
<1>10. HeldDrawers'
  BY <1>1, <1>2, <1>3, <1>4, <1>5, RowIs DEF DrawersInv, HeldDrawers, RowsAbout
<1>11. GoneDrawers'
  <2>0. \A d \in 1..minted : Good(d)' => (d \in held' <=> d \in held)
    BY <1>4 DEF Good
  <2>1. SUFFICES ASSUME NEW d \in 1..minted, Good(d), Good(d)', d \notin held', d \notin held,
                        d \in stored' \/ \E i \in RowsAbout(d) : IsAdd(i) /\ intents'[i].state = "queued"
               PROVE  \E k \in RowsAbout(d) :
                        /\ ~IsAdd(k) /\ intents'[k].state \in {"staged", "queued"} /\ ~intents'[k].landed
                        /\ \A i \in RowsAbout(d) : IsAdd(i) => i < k
    BY <1>2, <1>3, <1>4, <1>5, <2>0 DEF GoneDrawers, RowsAbout, Good
  <2>2. \A i \in RowsAbout(d) : i \in Rows /\ intents[i].drawer = d
    BY DEF RowsAbout
<2>3. d \in stored \/ \E i \in RowsAbout(d) : IsAdd(i) /\ intents[i].state = "queued"
    BY <1>2, <1>3, <2>1, <2>2
  <2>4. PICK k \in RowsAbout(d) :
          /\ ~IsAdd(k) /\ intents[k].state \in {"staged", "queued"} /\ ~intents[k].landed
          /\ \A i \in RowsAbout(d) : IsAdd(i) => i < k
    BY <2>1, <2>3 DEF DrawersInv, GoneDrawers
  <2>5. QED
    BY <1>3, <2>2, <2>4
<1>12. QED
  BY <1>6, <1>7, <1>8, <1>9, <1>10, <1>11 DEF DrawersInv

LEMMA IntentIsSettled ==
  ASSUME DrawersInv, NEW n \in Rows, SettleIntent(n)
  PROVE  DrawersInv'
<1>1. /\ Doing("starting") \/ Doing("polling")
      /\ intents[n].state = "staged"
  BY DEF SettleIntent, Decidable
<1>2. UNCHANGED <<held, pending, vouched, stored, minted, tool, drawerFaults, pruned, overtaken, spoiled>>
  BY DEF SettleIntent
<1>3. /\ intents' \in Seq(Intent) /\ Len(intents') = Len(intents) /\ Rows' = Rows
      /\ \A j \in Rows : /\ intents'[j].kind = intents[j].kind /\ intents'[j].key = intents[j].key
                         /\ intents'[j].drawer = intents[j].drawer
                         /\ intents'[j].landed = intents[j].landed
                         /\ intents'[j].state = IF j = n THEN IF LooksDone(n) THEN "queued" ELSE "cancelled"
                                                ELSE intents[j].state
  BY StateIsSet DEF SettleIntent, DrawersInv
<1>4. TRUE
  OBVIOUS
<1>5. /\ \A d \in 1..minted : RowsAbout(d)' = RowsAbout(d) /\ (Good(d)' => Good(d))
      /\ \A i \in Rows : IsAdd(i)' <=> IsAdd(i)
  <2>1. \A i \in Rows : IsAdd(i)' <=> IsAdd(i)
    BY <1>3 DEF IsAdd
  <2>2. \A d \in 1..minted : RowsAbout(d)' = RowsAbout(d)
    BY <1>3 DEF RowsAbout
  <2>3. \A d \in 1..minted : Good(d)' => Good(d)
    BY <1>1, <1>2, <1>3, <1>4, <2>2 DEF RowsAbout, Good
  <2>4. QED
    BY <2>1, <2>2, <2>3
<1>6. DrawersTypeOK'
  BY <1>1, <1>2, <1>3, <1>4 DEF DrawersInv, DrawersTypeOK
<1>7. RowsKeyed'
  BY <1>1, <1>2, <1>3, <1>4, <1>5 DEF DrawersInv, RowsKeyed
<1>8. CallInProgress'
  BY <1>1, <1>2, <1>3, <1>4, <1>5
  DEF DrawersInv, CallInProgress, Doing, Mine, Target, IsAdd, RowsAbout, Good, LooksDone
<1>9. NewDrawers'
  <2>1. SUFFICES ASSUME NEW d \in 1..minted, Good(d), Good(d)', NEW i \in RowsAbout(d), IsAdd(i),
                        intents'[i].state \in {"staged", "cancelled"}
               PROVE  \/ d \notin held' /\ d \notin stored' /\ \A j \in RowsAbout(d) : j = i
                      \/ /\ d \in held' /\ intents'[i].state = "staged"
                         /\ tool'.pc \in {"down", "starting"}
                              \/ (tool'.pc \in {"stored", "committed"} /\ tool'.row = i)
    BY <1>2, <1>3, <1>4, <1>5 DEF NewDrawers, RowsAbout, Doing, Mine
  <2>2. i \in Rows /\ intents[i].drawer = d
    BY DEF RowsAbout
<2>3. intents[i].state \in {"staged", "cancelled"}
    BY <1>1, <1>3, <2>1, <2>2
  <2>4. \/ d \notin held /\ d \notin stored /\ \A j \in RowsAbout(d) : j = i
        \/ /\ d \in held /\ intents[i].state = "staged"
           /\ tool.pc \in {"down", "starting"} \/ (tool.pc \in {"stored", "committed"} /\ Mine = i)
    BY <2>1, <2>3 DEF DrawersInv, NewDrawers, Doing
  <2>5. QED
    BY <1>1, <1>2, <1>3, <2>1, <2>2, <2>4 DEF LooksDone, IsAdd, Doing, Mine
<1>10. HeldDrawers'
  <2>1. SUFFICES ASSUME NEW d \in 1..minted, Good(d), Good(d)', d \in held', d \in held
               PROVE  /\ \E i \in RowsAbout(d) :
                            IsAdd(i) /\ intents'[i].state \in {"staged", "queued", "delivered"}
                      /\ \A i \in RowsAbout(d) : ~IsAdd(i) => intents'[i].state \in {"staged", "cancelled"}
                      /\ (\E i \in RowsAbout(d) :
                            IsAdd(i) /\ (intents'[i].landed \/ intents'[i].state = "delivered"))
                           => d \in stored'
    BY <1>2, <1>3, <1>4, <1>5 DEF HeldDrawers, RowsAbout
  <2>2. PICK w \in RowsAbout(d) : IsAdd(w) /\ intents[w].state \in {"staged", "queued", "delivered"}
    BY <2>1 DEF DrawersInv, HeldDrawers
  <2>3. \A i \in RowsAbout(d) : ~IsAdd(i) => intents[i].state \in {"staged", "cancelled"}
    BY <2>1 DEF DrawersInv, HeldDrawers
  <2>4. (\E i \in RowsAbout(d) : IsAdd(i) /\ (intents[i].landed \/ intents[i].state = "delivered"))
          => d \in stored
    BY <2>1 DEF DrawersInv, HeldDrawers
  <2>5. \A i \in RowsAbout(d) : i \in Rows /\ intents[i].drawer = d
    BY DEF RowsAbout
<2>6. QED
    BY <1>1, <1>2, <1>3, <2>1, <2>2, <2>3, <2>4, <2>5 DEF LooksDone, IsAdd
<1>11. GoneDrawers'
  <2>1. SUFFICES ASSUME NEW d \in 1..minted, Good(d), Good(d)', d \notin held', d \notin held,
                        d \in stored' \/ \E i \in RowsAbout(d) : IsAdd(i) /\ intents'[i].state = "queued"
               PROVE  \E k \in RowsAbout(d) :
                        /\ ~IsAdd(k) /\ intents'[k].state \in {"staged", "queued"} /\ ~intents'[k].landed
                        /\ \A i \in RowsAbout(d) : IsAdd(i) => i < k
    BY <1>2, <1>3, <1>4, <1>5 DEF GoneDrawers, RowsAbout, Good
  <2>2. \A i \in RowsAbout(d) : i \in Rows /\ intents[i].drawer = d
    BY DEF RowsAbout
<2>3. d \in stored \/ \E i \in RowsAbout(d) : IsAdd(i) /\ intents[i].state = "queued"
    BY <1>1, <1>2, <1>3, <2>1, <2>2 DEF LooksDone, IsAdd
  <2>4. PICK k \in RowsAbout(d) :
          /\ ~IsAdd(k) /\ intents[k].state \in {"staged", "queued"} /\ ~intents[k].landed
          /\ \A i \in RowsAbout(d) : IsAdd(i) => i < k
    BY <2>1, <2>3 DEF DrawersInv, GoneDrawers
  <2>5. QED
    BY <1>1, <1>3, <2>1, <2>2, <2>4 DEF LooksDone, IsAdd
<1>12. QED
  BY <1>6, <1>7, <1>8, <1>9, <1>10, <1>11 DEF DrawersInv

LEMMA CommitFails ==
  ASSUME DrawersInv, FailCommit
  PROVE  DrawersInv'
<1>1. /\ Doing("stored") /\ Mine \in Rows /\ IsAdd(Mine) /\ intents[Mine].state = "staged"
      /\ Target \in 1..minted /\ Mine \in RowsAbout(Target)
  BY RowIs
  DEF FailCommit, Doing, DrawersInv, DrawersTypeOK, CallInProgress, RowsKeyed, Target, Mine,
      RowsAbout, DrawerIds
<1>2. UNCHANGED <<held, vouched, stored, minted, pruned, overtaken>>
  BY DEF FailCommit, CancelMine
<1>3. /\ intents' \in Seq(Intent) /\ Len(intents') = Len(intents) /\ Rows' = Rows
      /\ \A j \in Rows : /\ intents'[j].kind = intents[j].kind /\ intents'[j].key = intents[j].key
                         /\ intents'[j].drawer = intents[j].drawer
                         /\ intents'[j].landed = intents[j].landed
                         /\ intents'[j].state = intents[j].state
                              \/ (j = Mine /\ intents'[j].state = "cancelled")
  <2>1. CASE SetState(Mine, "cancelled")
    BY <1>1, <2>1, StateIsSet DEF DrawersInv
  <2>2. CASE UNCHANGED intents
    BY <2>2 DEF DrawersInv, DrawersTypeOK, Rows
  <2>3. QED
    BY <2>1, <2>2 DEF FailCommit, CancelMine
<1>4. /\ tool' \in Tool /\ tool'.row <= Len(intents) /\ tool'.pc = "ready"
      /\ drawerFaults' \in 0..MaxDrawerFaults /\ pending' \subseteq pending
      /\ spoiled' = spoiled \cup {Target}
  <2>1. tool' = Idle("ready") /\ drawerFaults' \in 0..MaxDrawerFaults
    BY DrawerWritesAssumption DEF FailCommit, CancelMine, Faults, DrawersInv, DrawersTypeOK
  <2>2. pending' \subseteq pending /\ spoiled' = spoiled \cup {Target}
    BY DEF FailCommit
  <2>3. QED
    BY <2>1, <2>2, DrawersBound, RowIs DEF Idle, DrawersInv, Tool
<1>5. /\ \A d \in 1..minted : RowsAbout(d)' = RowsAbout(d) /\ (Good(d)' => Good(d))
      /\ \A i \in Rows : IsAdd(i)' <=> IsAdd(i)
  <2>1. \A i \in Rows : IsAdd(i)' <=> IsAdd(i)
    BY <1>3 DEF IsAdd
  <2>2. \A d \in 1..minted : RowsAbout(d)' = RowsAbout(d)
    BY <1>3 DEF RowsAbout
  <2>3. \A d \in 1..minted : Good(d)' => Good(d)
    BY <1>1, <1>2, <1>3, <1>4, <2>2 DEF RowsAbout, Good
  <2>4. QED
    BY <2>1, <2>2, <2>3
<1>6. DrawersTypeOK'
  BY <1>1, <1>2, <1>3, <1>4 DEF DrawersInv, DrawersTypeOK
<1>7. RowsKeyed'
  BY <1>1, <1>2, <1>3, <1>4, <1>5 DEF DrawersInv, RowsKeyed
<1>8. CallInProgress'
  BY <1>1, <1>2, <1>3, <1>4, <1>5
  DEF DrawersInv, CallInProgress, Doing, Mine, Target, IsAdd, RowsAbout, Good, LooksDone
<1>9. NewDrawers'
  <2>1. SUFFICES ASSUME NEW d \in 1..minted, Good(d), Good(d)', NEW i \in RowsAbout(d), IsAdd(i),
                        intents'[i].state \in {"staged", "cancelled"}
               PROVE  \/ d \notin held' /\ d \notin stored' /\ \A j \in RowsAbout(d) : j = i
                      \/ /\ d \in held' /\ intents'[i].state = "staged"
                         /\ tool'.pc \in {"down", "starting"}
                              \/ (tool'.pc \in {"stored", "committed"} /\ tool'.row = i)
    BY <1>2, <1>3, <1>4, <1>5 DEF NewDrawers, RowsAbout, Doing, Mine
  <2>2. i \in Rows /\ intents[i].drawer = d
    BY DEF RowsAbout
<2>3. d # Target /\ i # Mine
    BY <1>4, <2>1, <2>2 DEF Good, Target
  <2>4. intents[i].state \in {"staged", "cancelled"}
    BY <1>3, <2>1, <2>2, <2>3
  <2>5. \/ d \notin held /\ d \notin stored /\ \A j \in RowsAbout(d) : j = i
        \/ /\ d \in held /\ intents[i].state = "staged"
           /\ tool.pc \in {"down", "starting"} \/ (tool.pc \in {"stored", "committed"} /\ Mine = i)
    BY <2>1, <2>4 DEF DrawersInv, NewDrawers, Doing
  <2>6. QED
    BY <1>1, <1>2, <1>3, <1>4, <2>1, <2>2, <2>3, <2>5 DEF Doing
<1>10. HeldDrawers'
  <2>1. SUFFICES ASSUME NEW d \in 1..minted, Good(d), Good(d)', d \in held', d \in held
               PROVE  /\ \E i \in RowsAbout(d) :
                            IsAdd(i) /\ intents'[i].state \in {"staged", "queued", "delivered"}
                      /\ \A i \in RowsAbout(d) : ~IsAdd(i) => intents'[i].state \in {"staged", "cancelled"}
                      /\ (\E i \in RowsAbout(d) :
                            IsAdd(i) /\ (intents'[i].landed \/ intents'[i].state = "delivered"))
                           => d \in stored'
    BY <1>2, <1>3, <1>4, <1>5 DEF HeldDrawers, RowsAbout
  <2>2. PICK w \in RowsAbout(d) : IsAdd(w) /\ intents[w].state \in {"staged", "queued", "delivered"}
    BY <2>1 DEF DrawersInv, HeldDrawers
  <2>3. \A i \in RowsAbout(d) : ~IsAdd(i) => intents[i].state \in {"staged", "cancelled"}
    BY <2>1 DEF DrawersInv, HeldDrawers
  <2>4. (\E i \in RowsAbout(d) : IsAdd(i) /\ (intents[i].landed \/ intents[i].state = "delivered"))
          => d \in stored
    BY <2>1 DEF DrawersInv, HeldDrawers
  <2>5. \A i \in RowsAbout(d) : i \in Rows /\ intents[i].drawer = d
    BY DEF RowsAbout
<2>6. d # Target /\ Mine \notin RowsAbout(d)
    BY <1>4, <2>1, <2>5 DEF Good, Target
  <2>7. QED
    BY <1>2, <1>3, <2>2, <2>3, <2>4, <2>5, <2>6
<1>11. GoneDrawers'
  BY <1>1, <1>2, <1>3, <1>4, <1>5, RowIs DEF DrawersInv, GoneDrawers, RowsAbout
<1>12. QED
  BY <1>6, <1>7, <1>8, <1>9, <1>10, <1>11 DEF DrawersInv

LEMMA WriteFails ==
  ASSUME DrawersInv, FailWrite
  PROVE  DrawersInv'
<1>1. /\ Doing("adding") \/ Doing("removing")
      /\ Mine \in Rows /\ intents[Mine].state = "staged"
  BY DEF FailWrite, Doing, DrawersInv, CallInProgress
<1>2. UNCHANGED <<held, pending, vouched, stored, minted, pruned, overtaken, spoiled>>
  BY DEF FailWrite
<1>3. /\ intents' \in Seq(Intent) /\ Len(intents') = Len(intents) /\ Rows' = Rows
      /\ \A j \in Rows : /\ intents'[j].kind = intents[j].kind /\ intents'[j].key = intents[j].key
                         /\ intents'[j].drawer = intents[j].drawer
                         /\ intents'[j].landed = intents[j].landed
                         /\ intents'[j].state = intents[j].state
                              \/ (j = Mine /\ intents'[j].state = "cancelled")
  <2>1. CASE SetState(Mine, "cancelled")
    BY <1>1, <2>1, StateIsSet DEF DrawersInv
  <2>2. CASE UNCHANGED intents
    BY <2>2 DEF DrawersInv, DrawersTypeOK, Rows
  <2>3. QED
    BY <2>1, <2>2 DEF FailWrite, CancelMine
<1>4. /\ tool' \in Tool /\ tool'.row <= Len(intents) /\ tool'.pc = "ready"
      /\ drawerFaults' \in 0..MaxDrawerFaults
  <2>1. tool' = Idle("ready") /\ drawerFaults' \in 0..MaxDrawerFaults
    BY DrawerWritesAssumption DEF FailWrite, CancelMine, Faults, DrawersInv, DrawersTypeOK
  <2>2. QED
    BY <2>1, DrawersBound, RowIs DEF Idle, DrawersInv, Tool
<1>5. /\ \A d \in 1..minted : RowsAbout(d)' = RowsAbout(d) /\ (Good(d)' => Good(d))
      /\ \A i \in Rows : IsAdd(i)' <=> IsAdd(i)
  <2>1. \A i \in Rows : IsAdd(i)' <=> IsAdd(i)
    BY <1>3 DEF IsAdd
  <2>2. \A d \in 1..minted : RowsAbout(d)' = RowsAbout(d)
    BY <1>3 DEF RowsAbout
  <2>3. \A d \in 1..minted : Good(d)' => Good(d)
    BY <1>1, <1>2, <1>3, <1>4, <2>2 DEF RowsAbout, Good
  <2>4. QED
    BY <2>1, <2>2, <2>3
<1>6. DrawersTypeOK'
  BY <1>1, <1>2, <1>3, <1>4 DEF DrawersInv, DrawersTypeOK
<1>7. RowsKeyed'
  BY <1>1, <1>2, <1>3, <1>4, <1>5 DEF DrawersInv, RowsKeyed
<1>8. CallInProgress'
  BY <1>1, <1>2, <1>3, <1>4, <1>5
  DEF DrawersInv, CallInProgress, Doing, Mine, Target, IsAdd, RowsAbout, Good, LooksDone
<1>9. NewDrawers'
  BY <1>1, <1>2, <1>3, <1>4, <1>5, RowIs DEF DrawersInv, NewDrawers, RowsAbout, Doing, Mine
<1>10. HeldDrawers'
  <2>1. SUFFICES ASSUME NEW d \in 1..minted, Good(d), Good(d)', d \in held', d \in held
               PROVE  /\ \E i \in RowsAbout(d) :
                            IsAdd(i) /\ intents'[i].state \in {"staged", "queued", "delivered"}
                      /\ \A i \in RowsAbout(d) : ~IsAdd(i) => intents'[i].state \in {"staged", "cancelled"}
                      /\ (\E i \in RowsAbout(d) :
                            IsAdd(i) /\ (intents'[i].landed \/ intents'[i].state = "delivered"))
                           => d \in stored'
    BY <1>2, <1>3, <1>4, <1>5 DEF HeldDrawers, RowsAbout
  <2>2. PICK w \in RowsAbout(d) : IsAdd(w) /\ intents[w].state \in {"staged", "queued", "delivered"}
    BY <2>1 DEF DrawersInv, HeldDrawers
  <2>3. \A i \in RowsAbout(d) : ~IsAdd(i) => intents[i].state \in {"staged", "cancelled"}
    BY <2>1 DEF DrawersInv, HeldDrawers
  <2>4. (\E i \in RowsAbout(d) : IsAdd(i) /\ (intents[i].landed \/ intents[i].state = "delivered"))
          => d \in stored
    BY <2>1 DEF DrawersInv, HeldDrawers
  <2>5. \A i \in RowsAbout(d) : i \in Rows /\ intents[i].drawer = d
    BY DEF RowsAbout
<2>6. Mine \in RowsAbout(d) => ~IsAdd(Mine)
    BY <1>1, <2>1, <2>5 DEF DrawersInv, NewDrawers, CallInProgress, Doing
  <2>7. QED
    BY <1>2, <1>3, <2>2, <2>3, <2>4, <2>5, <2>6
<1>11. GoneDrawers'
  <2>1. SUFFICES ASSUME NEW d \in 1..minted, Good(d), Good(d)', d \notin held', d \notin held,
                        d \in stored' \/ \E i \in RowsAbout(d) : IsAdd(i) /\ intents'[i].state = "queued"
               PROVE  \E k \in RowsAbout(d) :
                        /\ ~IsAdd(k) /\ intents'[k].state \in {"staged", "queued"} /\ ~intents'[k].landed
                        /\ \A i \in RowsAbout(d) : IsAdd(i) => i < k
    BY <1>2, <1>3, <1>4, <1>5 DEF GoneDrawers, RowsAbout, Good
  <2>2. \A i \in RowsAbout(d) : i \in Rows /\ intents[i].drawer = d
    BY DEF RowsAbout
<2>3. d \in stored \/ \E i \in RowsAbout(d) : IsAdd(i) /\ intents[i].state = "queued"
    BY <1>2, <1>3, <2>1, <2>2
  <2>4. PICK k \in RowsAbout(d) :
          /\ ~IsAdd(k) /\ intents[k].state \in {"staged", "queued"} /\ ~intents[k].landed
          /\ \A i \in RowsAbout(d) : IsAdd(i) => i < k
    BY <2>1, <2>3 DEF DrawersInv, GoneDrawers
  <2>5. k # Mine
    BY <1>1, <2>1, <2>2, <2>4 DEF DrawersInv, CallInProgress, Doing, Target
  <2>6. QED
    BY <1>3, <2>2, <2>4, <2>5
<1>12. QED
  BY <1>6, <1>7, <1>8, <1>9, <1>10, <1>11 DEF DrawersInv

LEMMA IntentArrives ==
  ASSUME DrawersInv, NEW n \in Rows, DeliverIntent(n)
  PROVE  DrawersInv'
<1>1. /\ intents[n].state = "queued"
      /\ \A j \in Rows : j < n /\ intents[j].drawer = intents[n].drawer => intents[j].state \notin {"staged", "queued"}
      /\ intents[n].drawer \in 1..minted
  BY RowIs DEF DeliverIntent, Due, DrawersInv, RowsKeyed, DrawerIds, DrawersTypeOK
<1>2. UNCHANGED <<held, pending, vouched, minted, tool, drawerFaults, pruned, overtaken, spoiled>>
  BY DEF DeliverIntent
<1>3. /\ intents' \in Seq(Intent) /\ Len(intents') = Len(intents) /\ Rows' = Rows
      /\ \A j \in Rows : /\ intents'[j].kind = intents[j].kind /\ intents'[j].key = intents[j].key
                         /\ intents'[j].drawer = intents[j].drawer
                         /\ intents'[j].landed = intents[j].landed
                         /\ j # n => intents'[j].state = intents[j].state
                         /\ intents'[n].state \in {"delivered", "failed"}
  BY StateIsSet DEF DeliverIntent, DrawersInv
<1>4. /\ stored' \subseteq 1..minted
      /\ \A d \in 1..minted : d # intents[n].drawer => (d \in stored' <=> d \in stored)
      /\ intents'[n].state = "failed" \/ (intents[n].landed /\ stored' = stored)
           \/ (intents[n].drawer \in stored' <=> IsAdd(n))
  <2>1. stored' = Effect(n) /\ SetState(n, IF intents[n].landed \/ Welcome(n) THEN "delivered" ELSE "failed")
    BY DEF DeliverIntent
  <2>2. intents'[n].state = IF intents[n].landed \/ Welcome(n) THEN "delivered" ELSE "failed"
    BY <2>1, StateIsSet DEF DrawersInv
  <2>3. QED
    BY <1>1, <2>1, <2>2 DEF Effect, IsAdd, DrawersInv, DrawersTypeOK
<1>5. /\ \A d \in 1..minted : RowsAbout(d)' = RowsAbout(d) /\ (Good(d)' => Good(d))
      /\ \A i \in Rows : IsAdd(i)' <=> IsAdd(i)
  <2>1. \A i \in Rows : IsAdd(i)' <=> IsAdd(i)
    BY <1>3 DEF IsAdd
  <2>2. \A d \in 1..minted : RowsAbout(d)' = RowsAbout(d)
    BY <1>3 DEF RowsAbout
  <2>3. \A d \in 1..minted : Good(d)' => Good(d)
    BY <1>1, <1>2, <1>3, <1>4, <2>2 DEF RowsAbout, Good
  <2>4. QED
    BY <2>1, <2>2, <2>3
<1>6. DrawersTypeOK'
  BY <1>1, <1>2, <1>3, <1>4 DEF DrawersInv, DrawersTypeOK
<1>7. RowsKeyed'
  BY <1>1, <1>2, <1>3, <1>4, <1>5 DEF DrawersInv, RowsKeyed
<1>8. CallInProgress'
  BY <1>1, <1>2, <1>3, <1>4, <1>5
  DEF DrawersInv, CallInProgress, Doing, Mine, Target, IsAdd, RowsAbout, Good, LooksDone
<1>9. NewDrawers'
  BY <1>1, <1>2, <1>3, <1>4, <1>5, RowIs DEF DrawersInv, NewDrawers, RowsAbout, Doing, Mine
<1>10. HeldDrawers'
  <2>1. SUFFICES ASSUME NEW d \in 1..minted, Good(d), Good(d)', d \in held', d \in held
               PROVE  /\ \E i \in RowsAbout(d) :
                            IsAdd(i) /\ intents'[i].state \in {"staged", "queued", "delivered"}
                      /\ \A i \in RowsAbout(d) : ~IsAdd(i) => intents'[i].state \in {"staged", "cancelled"}
                      /\ (\E i \in RowsAbout(d) :
                            IsAdd(i) /\ (intents'[i].landed \/ intents'[i].state = "delivered"))
                           => d \in stored'
    BY <1>2, <1>3, <1>4, <1>5 DEF HeldDrawers, RowsAbout
  <2>2. PICK w \in RowsAbout(d) : IsAdd(w) /\ intents[w].state \in {"staged", "queued", "delivered"}
    BY <2>1 DEF DrawersInv, HeldDrawers
  <2>3. \A i \in RowsAbout(d) : ~IsAdd(i) => intents[i].state \in {"staged", "cancelled"}
    BY <2>1 DEF DrawersInv, HeldDrawers
  <2>4. (\E i \in RowsAbout(d) : IsAdd(i) /\ (intents[i].landed \/ intents[i].state = "delivered"))
          => d \in stored
    BY <2>1 DEF DrawersInv, HeldDrawers
  <2>5. \A i \in RowsAbout(d) : i \in Rows /\ intents[i].drawer = d
    BY DEF RowsAbout
<2>6. CASE d # intents[n].drawer
    BY <1>2, <1>3, <1>4, <2>2, <2>3, <2>4, <2>5, <2>6
  <2>7. CASE d = intents[n].drawer
    <3>1. n \in RowsAbout(d) /\ IsAdd(n) /\ intents'[n].state = "delivered"
      BY <1>1, <1>3, <2>1, <2>3, <2>7 DEF Good, RowsAbout
    <3>2. d \in stored'
      BY <1>4, <2>4, <2>7, <3>1
    <3>3. QED
      BY <1>3, <2>3, <2>5, <3>1, <3>2
  <2>8. QED
    BY <2>6, <2>7
<1>11. GoneDrawers'
  <2>1. SUFFICES ASSUME NEW d \in 1..minted, Good(d), Good(d)', d \notin held', d \notin held,
                        d \in stored' \/ \E i \in RowsAbout(d) : IsAdd(i) /\ intents'[i].state = "queued"
               PROVE  \E k \in RowsAbout(d) :
                        /\ ~IsAdd(k) /\ intents'[k].state \in {"staged", "queued"} /\ ~intents'[k].landed
                        /\ \A i \in RowsAbout(d) : IsAdd(i) => i < k
    BY <1>2, <1>3, <1>4, <1>5 DEF GoneDrawers, RowsAbout, Good
  <2>2. \A i \in RowsAbout(d) : i \in Rows /\ intents[i].drawer = d
    BY DEF RowsAbout
<2>3. d \in stored \/ \E i \in RowsAbout(d) : IsAdd(i) /\ intents[i].state = "queued"
    <3>1. CASE d # intents[n].drawer
      BY <1>3, <1>4, <2>1, <2>2, <3>1
    <3>2. CASE d = intents[n].drawer
      <4>1. n \in RowsAbout(d) /\ intents'[n].state = "delivered"
        BY <1>3, <2>1, <3>2 DEF Good, RowsAbout
      <4>2. CASE IsAdd(n)
        BY <1>1, <4>1, <4>2
      <4>3. CASE ~IsAdd(n)
        BY <1>3, <1>4, <2>1, <2>2, <3>2, <4>1, <4>3
      <4>4. QED
        BY <4>2, <4>3
    <3>3. QED
      BY <3>1, <3>2
  <2>4. PICK k \in RowsAbout(d) :
          /\ ~IsAdd(k) /\ intents[k].state \in {"staged", "queued"} /\ ~intents[k].landed
          /\ \A i \in RowsAbout(d) : IsAdd(i) => i < k
    BY <2>1, <2>3 DEF DrawersInv, GoneDrawers
  <2>5. k # n
    <3>1. SUFFICES ASSUME k = n
                   PROVE  FALSE
      OBVIOUS
    <3>2. /\ d = intents[n].drawer /\ ~intents[n].landed /\ intents'[n].state = "delivered"
          /\ d \notin stored'
      BY <1>3, <1>4, <2>1, <2>2, <2>4, <3>1 DEF Good, RowsAbout
    <3>3. PICK i \in RowsAbout(d) : IsAdd(i) /\ intents'[i].state = "queued"
      BY <2>1, <3>2
    <3>4. i < n /\ intents[i].state = "queued"
      BY <1>3, <2>2, <2>4, <3>1, <3>3
    <3>5. QED
      BY <1>1, <2>2, <3>2, <3>3, <3>4
  <2>6. QED
    BY <1>3, <2>2, <2>4, <2>5
<1>12. QED
  BY <1>6, <1>7, <1>8, <1>9, <1>10, <1>11 DEF DrawersInv

LEMMA AnswerIsLost ==
  ASSUME DrawersInv, NEW n \in Rows, LoseAnswer(n)
  PROVE  DrawersInv'
<1>1. /\ intents[n].state = "queued"
      /\ \A j \in Rows : j < n /\ intents[j].drawer = intents[n].drawer => intents[j].state \notin {"staged", "queued"}
      /\ intents[n].drawer \in 1..minted /\ ~intents[n].landed
  BY RowIs DEF LoseAnswer, Due, DrawersInv, RowsKeyed, DrawerIds, DrawersTypeOK
<1>2. UNCHANGED <<held, pending, vouched, minted, tool, pruned, overtaken, spoiled>>
  BY DEF LoseAnswer
<1>3. /\ intents' \in Seq(Intent) /\ Len(intents') = Len(intents) /\ Rows' = Rows
      /\ \A j \in Rows : /\ intents'[j].kind = intents[j].kind /\ intents'[j].key = intents[j].key
                         /\ intents'[j].drawer = intents[j].drawer
                         /\ intents'[j].state = intents[j].state
                         /\ j # n => intents'[j].landed = intents[j].landed
                         /\ intents'[n].landed
  <2> DEFINE row == [intents[n] EXCEPT !.landed = TRUE]
  <2>1. /\ row \in Intent /\ row.state = intents[n].state /\ row.kind = intents[n].kind
        /\ row.key = intents[n].key /\ row.drawer = intents[n].drawer /\ row.landed = TRUE
    BY RowIs DEF Intent, DrawersInv
  <2>2. intents' = [intents EXCEPT ![n] = row] /\ DOMAIN intents = 1..Len(intents)
    BY RowIs DEF LoseAnswer, DrawersInv, Rows
  <2> HIDE DEF row
  <2>3. intents' = [j \in 1..Len(intents) |-> IF j = n THEN row ELSE intents[j]]
    BY <2>2
  <2>4. \A j \in 1..Len(intents) : intents[j] \in Intent
    BY RowIs DEF DrawersInv
  <2>5. intents' \in Seq(Intent) /\ Len(intents') = Len(intents)
    BY <2>1, <2>3, <2>4, RowIs DEF DrawersInv
  <2>6. Rows' = Rows
    BY <2>3, RowIs DEF DrawersInv, Rows
  <2>7. QED
    BY <2>1, <2>3, <2>5, <2>6, RowIs DEF DrawersInv
<1>4. /\ stored' \subseteq 1..minted /\ drawerFaults' \in 0..MaxDrawerFaults
      /\ \A d \in 1..minted : d # intents[n].drawer => (d \in stored' <=> d \in stored)
      /\ (intents[n].drawer \in stored' <=> IsAdd(n))
  <2>1. stored' = Effect(n) /\ Welcome(n) /\ ~intents[n].landed
    BY DEF LoseAnswer
  <2>2. drawerFaults' \in 0..MaxDrawerFaults
    BY DrawerWritesAssumption DEF LoseAnswer, Faults, DrawersInv, DrawersTypeOK
  <2>3. QED
    BY <1>1, <2>1, <2>2 DEF Effect, IsAdd, DrawersInv, DrawersTypeOK
<1>5. /\ \A d \in 1..minted : RowsAbout(d)' = RowsAbout(d) /\ (Good(d)' => Good(d))
      /\ \A i \in Rows : IsAdd(i)' <=> IsAdd(i)
  <2>1. \A i \in Rows : IsAdd(i)' <=> IsAdd(i)
    BY <1>3 DEF IsAdd
  <2>2. \A d \in 1..minted : RowsAbout(d)' = RowsAbout(d)
    BY <1>3 DEF RowsAbout
  <2>3. \A d \in 1..minted : Good(d)' => Good(d)
    BY <1>1, <1>2, <1>3, <1>4, <2>2 DEF RowsAbout, Good
  <2>4. QED
    BY <2>1, <2>2, <2>3
<1>6. DrawersTypeOK'
  BY <1>1, <1>2, <1>3, <1>4 DEF DrawersInv, DrawersTypeOK
<1>7. RowsKeyed'
  BY <1>1, <1>2, <1>3, <1>4, <1>5 DEF DrawersInv, RowsKeyed
<1>8. CallInProgress'
  BY <1>1, <1>2, <1>3, <1>4, <1>5
  DEF DrawersInv, CallInProgress, Doing, Mine, Target, IsAdd, RowsAbout, Good, LooksDone
<1>9. NewDrawers'
  BY <1>1, <1>2, <1>3, <1>4, <1>5, RowIs DEF DrawersInv, NewDrawers, RowsAbout, Doing, Mine
<1>10. HeldDrawers'
  <2>1. SUFFICES ASSUME NEW d \in 1..minted, Good(d), Good(d)', d \in held', d \in held
               PROVE  /\ \E i \in RowsAbout(d) :
                            IsAdd(i) /\ intents'[i].state \in {"staged", "queued", "delivered"}
                      /\ \A i \in RowsAbout(d) : ~IsAdd(i) => intents'[i].state \in {"staged", "cancelled"}
                      /\ (\E i \in RowsAbout(d) :
                            IsAdd(i) /\ (intents'[i].landed \/ intents'[i].state = "delivered"))
                           => d \in stored'
    BY <1>2, <1>3, <1>4, <1>5 DEF HeldDrawers, RowsAbout
  <2>2. PICK w \in RowsAbout(d) : IsAdd(w) /\ intents[w].state \in {"staged", "queued", "delivered"}
    BY <2>1 DEF DrawersInv, HeldDrawers
  <2>3. \A i \in RowsAbout(d) : ~IsAdd(i) => intents[i].state \in {"staged", "cancelled"}
    BY <2>1 DEF DrawersInv, HeldDrawers
  <2>4. (\E i \in RowsAbout(d) : IsAdd(i) /\ (intents[i].landed \/ intents[i].state = "delivered"))
          => d \in stored
    BY <2>1 DEF DrawersInv, HeldDrawers
  <2>5. \A i \in RowsAbout(d) : i \in Rows /\ intents[i].drawer = d
    BY DEF RowsAbout
<2>6. CASE d # intents[n].drawer
    BY <1>2, <1>3, <1>4, <2>2, <2>3, <2>4, <2>5, <2>6
  <2>7. CASE d = intents[n].drawer
    <3>1. n \in RowsAbout(d) /\ IsAdd(n)
      BY <1>1, <2>1, <2>3, <2>7 DEF RowsAbout
    <3>2. d \in stored'
      BY <1>4, <2>7, <3>1
    <3>3. QED
      BY <1>3, <2>2, <2>3, <2>5, <3>1, <3>2
  <2>8. QED
    BY <2>6, <2>7
<1>11. GoneDrawers'
  <2>1. SUFFICES ASSUME NEW d \in 1..minted, Good(d), Good(d)', d \notin held', d \notin held,
                        d \in stored' \/ \E i \in RowsAbout(d) : IsAdd(i) /\ intents'[i].state = "queued"
               PROVE  \E k \in RowsAbout(d) :
                        /\ ~IsAdd(k) /\ intents'[k].state \in {"staged", "queued"} /\ ~intents'[k].landed
                        /\ \A i \in RowsAbout(d) : IsAdd(i) => i < k
    BY <1>2, <1>3, <1>4, <1>5 DEF GoneDrawers, RowsAbout, Good
  <2>2. \A i \in RowsAbout(d) : i \in Rows /\ intents[i].drawer = d
    BY DEF RowsAbout
<2>3. d \in stored \/ \E i \in RowsAbout(d) : IsAdd(i) /\ intents[i].state = "queued"
    <3>1. CASE d # intents[n].drawer
      BY <1>3, <1>4, <2>1, <2>2, <3>1
    <3>2. CASE d = intents[n].drawer
      <4>1. n \in RowsAbout(d)
        BY <3>2 DEF RowsAbout
      <4>2. CASE IsAdd(n)
        BY <1>1, <4>1, <4>2
      <4>3. CASE ~IsAdd(n)
        BY <1>3, <1>4, <2>1, <2>2, <3>2, <4>3
      <4>4. QED
        BY <4>2, <4>3
    <3>3. QED
      BY <3>1, <3>2
  <2>4. PICK k \in RowsAbout(d) :
          /\ ~IsAdd(k) /\ intents[k].state \in {"staged", "queued"} /\ ~intents[k].landed
          /\ \A i \in RowsAbout(d) : IsAdd(i) => i < k
    BY <2>1, <2>3 DEF DrawersInv, GoneDrawers
  <2>5. k # n
    <3>1. SUFFICES ASSUME k = n
                   PROVE  FALSE
      OBVIOUS
    <3>2. d = intents[n].drawer /\ d \notin stored'
      BY <1>4, <2>2, <2>4, <3>1
    <3>3. PICK i \in RowsAbout(d) : IsAdd(i) /\ intents'[i].state = "queued"
      BY <2>1, <3>2
    <3>4. i < n /\ intents[i].state = "queued"
      BY <1>3, <2>2, <2>4, <3>1, <3>3
    <3>5. QED
      BY <1>1, <2>2, <3>2, <3>3, <3>4
  <2>6. QED
    BY <1>3, <2>2, <2>4, <2>5
<1>12. QED
  BY <1>6, <1>7, <1>8, <1>9, <1>10, <1>11 DEF DrawersInv

LEMMA IntentIsRejected ==
  ASSUME DrawersInv, NEW n \in Rows, RejectIntent(n)
  PROVE  DrawersInv'
<1>1. intents[n].state = "queued" /\ intents[n].drawer \in 1..minted
  BY RowIs DEF RejectIntent, Due, DrawersInv, RowsKeyed, DrawerIds, DrawersTypeOK
<1>2. UNCHANGED <<held, pending, vouched, stored, minted, tool, pruned, overtaken, spoiled>>
  BY DEF RejectIntent
<1>3. /\ intents' \in Seq(Intent) /\ Len(intents') = Len(intents) /\ Rows' = Rows
      /\ \A j \in Rows : /\ intents'[j].kind = intents[j].kind /\ intents'[j].key = intents[j].key
                         /\ intents'[j].drawer = intents[j].drawer
                         /\ intents'[j].landed = intents[j].landed
                         /\ intents'[j].state = IF j = n THEN "failed" ELSE intents[j].state
  BY StateIsSet DEF RejectIntent, DrawersInv
<1>4. drawerFaults' \in 0..MaxDrawerFaults
  BY DrawerWritesAssumption DEF RejectIntent, Faults, DrawersInv, DrawersTypeOK
<1>5. /\ \A d \in 1..minted : RowsAbout(d)' = RowsAbout(d) /\ (Good(d)' => Good(d))
      /\ \A i \in Rows : IsAdd(i)' <=> IsAdd(i)
  <2>1. \A i \in Rows : IsAdd(i)' <=> IsAdd(i)
    BY <1>3 DEF IsAdd
  <2>2. \A d \in 1..minted : RowsAbout(d)' = RowsAbout(d)
    BY <1>3 DEF RowsAbout
  <2>3. \A d \in 1..minted : Good(d)' => Good(d)
    BY <1>1, <1>2, <1>3, <1>4, <2>2 DEF RowsAbout, Good
  <2>4. QED
    BY <2>1, <2>2, <2>3
<1>6. DrawersTypeOK'
  BY <1>1, <1>2, <1>3, <1>4 DEF DrawersInv, DrawersTypeOK
<1>7. RowsKeyed'
  BY <1>1, <1>2, <1>3, <1>4, <1>5 DEF DrawersInv, RowsKeyed
<1>8. CallInProgress'
  BY <1>1, <1>2, <1>3, <1>4, <1>5
  DEF DrawersInv, CallInProgress, Doing, Mine, Target, IsAdd, RowsAbout, Good, LooksDone
<1>9. NewDrawers'
  BY <1>1, <1>2, <1>3, <1>4, <1>5, RowIs DEF DrawersInv, NewDrawers, RowsAbout, Doing, Mine
<1>10. HeldDrawers'
  <2>1. SUFFICES ASSUME NEW d \in 1..minted, Good(d), Good(d)', d \in held', d \in held
               PROVE  /\ \E i \in RowsAbout(d) :
                            IsAdd(i) /\ intents'[i].state \in {"staged", "queued", "delivered"}
                      /\ \A i \in RowsAbout(d) : ~IsAdd(i) => intents'[i].state \in {"staged", "cancelled"}
                      /\ (\E i \in RowsAbout(d) :
                            IsAdd(i) /\ (intents'[i].landed \/ intents'[i].state = "delivered"))
                           => d \in stored'
    BY <1>2, <1>3, <1>4, <1>5 DEF HeldDrawers, RowsAbout
  <2>2. PICK w \in RowsAbout(d) : IsAdd(w) /\ intents[w].state \in {"staged", "queued", "delivered"}
    BY <2>1 DEF DrawersInv, HeldDrawers
  <2>3. \A i \in RowsAbout(d) : ~IsAdd(i) => intents[i].state \in {"staged", "cancelled"}
    BY <2>1 DEF DrawersInv, HeldDrawers
  <2>4. (\E i \in RowsAbout(d) : IsAdd(i) /\ (intents[i].landed \/ intents[i].state = "delivered"))
          => d \in stored
    BY <2>1 DEF DrawersInv, HeldDrawers
  <2>5. \A i \in RowsAbout(d) : i \in Rows /\ intents[i].drawer = d
    BY DEF RowsAbout
<2>6. d # intents[n].drawer
    BY <1>3, <2>1 DEF Good, RowsAbout
  <2>7. QED
    BY <1>2, <1>3, <2>2, <2>3, <2>4, <2>5, <2>6
<1>11. GoneDrawers'
  <2>1. SUFFICES ASSUME NEW d \in 1..minted, Good(d), Good(d)', d \notin held', d \notin held,
                        d \in stored' \/ \E i \in RowsAbout(d) : IsAdd(i) /\ intents'[i].state = "queued"
               PROVE  \E k \in RowsAbout(d) :
                        /\ ~IsAdd(k) /\ intents'[k].state \in {"staged", "queued"} /\ ~intents'[k].landed
                        /\ \A i \in RowsAbout(d) : IsAdd(i) => i < k
    BY <1>2, <1>3, <1>4, <1>5 DEF GoneDrawers, RowsAbout, Good
  <2>2. \A i \in RowsAbout(d) : i \in Rows /\ intents[i].drawer = d
    BY DEF RowsAbout
<2>3. d \in stored \/ \E i \in RowsAbout(d) : IsAdd(i) /\ intents[i].state = "queued"
    BY <1>2, <1>3, <2>1, <2>2
  <2>4. PICK k \in RowsAbout(d) :
          /\ ~IsAdd(k) /\ intents[k].state \in {"staged", "queued"} /\ ~intents[k].landed
          /\ \A i \in RowsAbout(d) : IsAdd(i) => i < k
    BY <2>1, <2>3 DEF DrawersInv, GoneDrawers
  <2>5. d # intents[n].drawer
    BY <1>3, <2>1 DEF Good, RowsAbout
  <2>6. QED
    BY <1>3, <2>2, <2>4, <2>5
<1>12. QED
  BY <1>6, <1>7, <1>8, <1>9, <1>10, <1>11 DEF DrawersInv

-----------------------------------------------------------------------------
(* Staging: a new row comes last, and at most the cancelled row of its key *)
(* leaves its place.                                                       *)

\* Where the j-th row was before the one at the gap was taken out.
Before(gap, j) == IF j < gap THEN j ELSE j + 1
After(gap, i)  == IF i < gap THEN i ELSE i - 1

\* The rows are those there were without the one at the gap, if there is one, and a staged row.
StagedLast(gap, kind, key, d) ==
  /\ gap \in 1..(Len(intents) + 1)
  /\ gap \in Rows => /\ intents[gap].state = "cancelled"
                     /\ intents[gap].key = key /\ intents[gap].drawer = d
  /\ key # NewKey => \A i \in Rows : intents[i].key = key => i = gap
  /\ intents' \in Seq(Intent) /\ Len(intents') <= MaxIntents
  /\ Len(intents') = IF gap \in Rows THEN Len(intents) ELSE Len(intents) + 1
  /\ \A j \in 1..(Len(intents') - 1) : intents'[j] = intents[Before(gap, j)]
  /\ LET last == intents'[Len(intents')] IN
       /\ last.kind = kind /\ last.key = key /\ last.drawer = d
       /\ last.state = "staged" /\ ~last.landed

TakenUp(i, key, d) ==
  i \in RowsOf(key) /\ intents[i].state # "cancelled" /\ intents[i].drawer = d /\ intents' = intents

LEMMA EnqueueStagesOrFinds ==
  ASSUME DrawersTypeOK, RowsKeyed, NEW kind \in {"add", "delete"}, NEW key \in OutboxKeys,
         NEW d \in DrawerIds, NEW pc, Enqueue(kind, key, d, pc)
  PROVE  \/ \E gap \in 1..(Len(intents) + 1) :
              StagedLast(gap, kind, key, d) /\ tool' = [pc |-> pc, row |-> Len(intents')]
         \/ \E i \in Rows : TakenUp(i, key, d) /\ tool' = [pc |-> pc, row |-> i]
<1> DEFINE row == [kind |-> kind, key |-> key, drawer |-> d, state |-> "staged", young |-> TRUE,
                   landed |-> FALSE]
<1>1. /\ intents \in Seq(Intent) /\ Rows = 1..Len(intents) /\ Len(intents) \in Nat
      /\ Len(intents) <= MaxIntents /\ MaxIntents \in Nat
  BY RowIs, DrawerWritesAssumption DEF DrawersTypeOK
<1>2. /\ row \in Intent /\ row.kind = kind /\ row.key = key /\ row.drawer = d
      /\ row.state = "staged" /\ ~row.landed
  BY DEF Intent
<1> HIDE DEF row
<1>3. CASE RowsOf(key) = {} /\ Len(intents) < MaxIntents /\ intents' = Append(intents, row)
             /\ tool' = [pc |-> pc, row |-> Len(intents) + 1]
  <2> DEFINE gap == Len(intents) + 1
  <2>1. /\ intents' \in Seq(Intent) /\ Len(intents') = Len(intents) + 1 /\ intents'[gap] = row
        /\ \A j \in 1..Len(intents) : intents'[j] = intents[j]
    BY <1>1, <1>2, <1>3
  <2>2. key # NewKey => \A i \in Rows : intents[i].key # key
    BY <1>3 DEF RowsOf
  <2>3. gap \in 1..(Len(intents) + 1) /\ gap \notin Rows /\ gap - 1 = Len(intents)
    BY <1>1
  <2>4. \A j \in 1..Len(intents) : Before(gap, j) = j
    BY <1>1 DEF Before
  <2>5. StagedLast(gap, kind, key, d)
    <3> HIDE DEF gap
    <3>1. Len(intents') = gap /\ Len(intents') <= MaxIntents
      BY <1>1, <1>3, <2>1 DEF gap
    <3>2. QED
      BY <1>2, <2>1, <2>2, <2>3, <2>4, <3>1 DEF StagedLast
  <2>6. QED
    BY <1>3, <2>1, <2>3, <2>5
<1>4. ASSUME NEW i \in RowsOf(key), intents[i].state = "cancelled",
             intents' = Append(RemoveAt(intents, i), row), tool' = [pc |-> pc, row |-> Len(intents)],
             Accepts(key, d)
      PROVE  StagedLast(i, kind, key, d) /\ Len(intents') = Len(intents)
  <2>1. /\ i \in 1..Len(intents) /\ intents[i].key = key /\ key # NewKey /\ intents[i].drawer = d
        /\ \A j \in Rows : intents[j].key = key => j = i
    BY <1>1, <1>4 DEF RowsOf, Accepts, RowsKeyed
  <2> DEFINE front == SubSeq(intents, 1, i - 1)
             back  == SubSeq(intents, i + 1, Len(intents))
  <2>2. /\ front \in Seq(Intent) /\ Len(front) = i - 1
        /\ \A j \in 1..(i - 1) : front[j] = intents[j]
    BY <1>1, <2>1
  <2>3. /\ back \in Seq(Intent) /\ Len(back) = Len(intents) - i
        /\ \A j \in 1..(Len(intents) - i) : back[j] = intents[i + j]
    BY <1>1, <2>1
  <2>4. intents' = Append(front \o back, row)
    BY <1>4 DEF RemoveAt
  <2> HIDE DEF front, back
  <2>5. /\ front \o back \in Seq(Intent) /\ Len(front \o back) = Len(intents) - 1
        /\ \A j \in 1..(Len(intents) - 1) :
             (front \o back)[j] = IF j < i THEN front[j] ELSE back[j - (i - 1)]
    BY <1>1, <2>1, <2>2, <2>3
  <2>6. \A j \in 1..(Len(intents) - 1) : (front \o back)[j] = intents[Before(i, j)]
    <3>1. SUFFICES ASSUME NEW j \in 1..(Len(intents) - 1)
                   PROVE  (front \o back)[j] = intents[Before(i, j)]
      OBVIOUS
    <3>2. CASE j < i
      BY <1>1, <2>1, <2>2, <2>5, <3>2 DEF Before
    <3>3. CASE j >= i
      <4>1. j - (i - 1) \in 1..(Len(intents) - i) /\ i + (j - (i - 1)) = j + 1 /\ ~(j < i)
        BY <1>1, <2>1, <3>3
      <4>2. QED
        BY <2>3, <2>5, <4>1 DEF Before
    <3>4. j < i \/ j >= i
      BY <1>1, <2>1
    <3>5. QED
      BY <3>2, <3>3, <3>4
  <2> DEFINE rest == front \o back
  <2>7. /\ rest \in Seq(Intent) /\ Len(rest) = Len(intents) - 1 /\ intents' = Append(rest, row)
        /\ \A j \in 1..(Len(intents) - 1) : rest[j] = intents[Before(i, j)]
    BY <2>4, <2>5, <2>6
  <2> HIDE DEF rest
  <2>8. /\ intents' \in Seq(Intent) /\ Len(intents') = Len(intents) /\ intents'[Len(intents)] = row
        /\ \A j \in 1..(Len(intents) - 1) : intents'[j] = rest[j]
    BY <1>1, <1>2, <2>1, <2>7
  <2>9. QED
    BY <1>1, <1>2, <1>4, <2>1, <2>7, <2>8 DEF StagedLast
<1>5. ASSUME NEW i \in RowsOf(key), intents[i].state # "cancelled", intents' = intents,
             Accepts(key, d)
      PROVE  i \in Rows /\ TakenUp(i, key, d)
  BY <1>5 DEF TakenUp, Accepts, RowsOf
<1>6. Accepts(key, d) /\ \A i \in RowsOf(key) : i \in 1..(Len(intents) + 1)
  BY <1>1 DEF Enqueue, RowsOf
<1>7. QED
  BY <1>3, <1>4, <1>5, <1>6 DEF Enqueue, row

\* What a call leaves alone, and what it notes of an intent taken up again.
CallLeaves ==
  /\ UNCHANGED <<held, pending, vouched, stored, drawerFaults, pruned, spoiled>>
  /\ overtaken \subseteq overtaken' /\ overtaken' \subseteq 1..minted
  /\ minted' \in 0..MaxDrawerIds /\ minted <= minted'

LEMMA CallTakesUp ==
  ASSUME DrawersInv, NEW i \in Rows, Doing("ready"), CallLeaves, intents' = intents,
         minted' = minted, tool' \in Tool, tool'.row = i, CallInProgress'
  PROVE  DrawersInv'
<1>1. /\ Rows' = Rows
      /\ UNCHANGED <<held, pending, vouched, stored, minted, drawerFaults, pruned, spoiled>>
      /\ overtaken \subseteq overtaken' /\ overtaken' \subseteq 1..minted
  BY DEF CallLeaves, Rows
<1>2. /\ \A d \in 1..minted : RowsAbout(d)' = RowsAbout(d) /\ (Good(d)' => Good(d))
      /\ \A j \in Rows : IsAdd(j)' <=> IsAdd(j)
  BY <1>1 DEF RowsAbout, Good, IsAdd
<1>3. DrawersTypeOK'
  <2>1. i <= Len(intents)
    BY RowIs DEF DrawersInv
  <2>2. pruned \cup overtaken' \cup spoiled \subseteq 1..minted
    BY <1>1 DEF DrawersInv, DrawersTypeOK
  <2>3. QED
    BY <1>1, <2>1, <2>2 DEF DrawersInv, DrawersTypeOK
<1>4. RowsKeyed'
  BY <1>1, <1>2 DEF DrawersInv, RowsKeyed
<1>5. NewDrawers'
  BY <1>1, <1>2, RowIs DEF DrawersInv, NewDrawers, RowsAbout, Doing, Mine
<1>6. HeldDrawers'
  BY <1>1, <1>2, RowIs DEF DrawersInv, HeldDrawers, RowsAbout
<1>7. GoneDrawers'
  BY <1>1, <1>2, RowIs DEF DrawersInv, GoneDrawers, RowsAbout
<1>8. QED
  BY <1>3, <1>4, <1>5, <1>6, <1>7 DEF DrawersInv

\* The three ways to stage a row: for a drawer there already, for one to be stored, for one to be removed.
StagedFor(gap, kind, d, pc) ==
  \/ kind = "add" /\ d \in held /\ pc = "committed"
  \/ /\ kind = "add" /\ d \notin held /\ pc = "adding"
     /\ d = minted + 1 \/ (d <= minted /\ gap \in Rows)
  \/ kind = "delete" /\ d \in held /\ pc = "removing"

LEMMA GapIsClosed ==
  ASSUME DrawersTypeOK, NEW gap, NEW kind \in {"add", "delete"}, NEW key \in OutboxKeys,
         NEW d \in DrawerIds, StagedLast(gap, kind, key, d)
  PROVE  /\ Len(intents') \in Nat \ {0} /\ Rows' = 1..Len(intents')
         /\ \A j \in Rows' : j # Len(intents') =>
              /\ Before(gap, j) \in Rows /\ Before(gap, j) # gap
              /\ After(gap, Before(gap, j)) = j /\ intents'[j] = intents[Before(gap, j)]
         /\ \A i \in Rows : i # gap =>
              /\ After(gap, i) \in Rows' /\ After(gap, i) # Len(intents')
              /\ Before(gap, After(gap, i)) = i /\ intents'[After(gap, i)] = intents[i]
         /\ \A i, j \in Rows : i # gap /\ j # gap /\ i < j => After(gap, i) < After(gap, j)
         /\ \A j \in Rows' : j <= Len(intents')
<1>1. Rows = 1..Len(intents) /\ Len(intents) \in Nat /\ gap \in 1..(Len(intents) + 1)
  BY RowIs DEF StagedLast
<1>2. /\ intents' \in Seq(Intent)
      /\ Len(intents') = IF gap \in Rows THEN Len(intents) ELSE Len(intents) + 1
      /\ \A j \in 1..(Len(intents') - 1) : intents'[j] = intents[Before(gap, j)]
  BY DEF StagedLast
<1>3. Len(intents') \in Nat \ {0} /\ Rows' = 1..Len(intents')
  BY <1>1, <1>2 DEF Rows
<1>4. ASSUME NEW j \in Rows', j # Len(intents')
      PROVE  /\ Before(gap, j) \in Rows /\ Before(gap, j) # gap
             /\ After(gap, Before(gap, j)) = j /\ intents'[j] = intents[Before(gap, j)]
  BY <1>1, <1>2, <1>3, <1>4 DEF Before, After
<1>5. ASSUME NEW i \in Rows, i # gap
      PROVE  /\ After(gap, i) \in Rows' /\ After(gap, i) # Len(intents')
             /\ Before(gap, After(gap, i)) = i
  BY <1>1, <1>2, <1>3, <1>5 DEF Before, After
<1>6. ASSUME NEW i \in Rows, i # gap
      PROVE  intents'[After(gap, i)] = intents[i]
  BY <1>4, <1>5, <1>6
<1>7. ASSUME NEW i \in Rows, NEW j \in Rows, i # gap, j # gap, i < j
      PROVE  After(gap, i) < After(gap, j)
  BY <1>1, <1>7 DEF After
<1>8. \A j \in Rows' : j <= Len(intents')
  BY <1>3
<1>9. QED
  BY <1>3, <1>4, <1>5, <1>6, <1>7, <1>8

LEMMA CallStages ==
  ASSUME DrawersInv, NEW gap, NEW kind \in {"add", "delete"}, NEW key \in OutboxKeys,
         NEW d \in DrawerIds, NEW pc, Doing("ready"), CallLeaves, StagedLast(gap, kind, key, d),
         StagedFor(gap, kind, d, pc), tool' = [pc |-> pc, row |-> Len(intents')],
         key \in RemoveKeys \cup {NewKey} <=> kind # "add", key \in DrawerIds => key = d,
         minted' = minted \/ minted' = minted + 1, d <= minted'
  PROVE  DrawersInv'
<1> DEFINE n == Len(intents')
<1>1. /\ n \in Nat \ {0} /\ Rows' = 1..n
      /\ \A j \in Rows' : j # n =>
           /\ Before(gap, j) \in Rows /\ Before(gap, j) # gap
           /\ After(gap, Before(gap, j)) = j /\ intents'[j] = intents[Before(gap, j)]
      /\ \A i \in Rows : i # gap =>
           /\ After(gap, i) \in Rows' /\ After(gap, i) # n
           /\ Before(gap, After(gap, i)) = i /\ intents'[After(gap, i)] = intents[i]
      /\ \A i, j \in Rows : i # gap /\ j # gap /\ i < j => After(gap, i) < After(gap, j)
      /\ \A j \in Rows' : j <= n
  BY GapIsClosed DEF DrawersInv
<1>2. /\ intents'[n].kind = kind /\ intents'[n].key = key /\ intents'[n].drawer = d
      /\ intents'[n].state = "staged" /\ ~intents'[n].landed
  BY DEF StagedLast
<1>3. /\ gap \in Rows => /\ intents[gap].state = "cancelled"
                         /\ intents[gap].key = key /\ intents[gap].drawer = d
      /\ key # NewKey => \A i \in Rows : intents[i].key = key => i = gap
      /\ intents' \in Seq(Intent) /\ n <= MaxIntents
  BY DEF StagedLast
<1>4. tool' = [pc |-> pc, row |-> n] /\ pc \in {"committed", "adding", "removing"}
  BY DEF StagedFor
<1> HIDE DEF n
<1>5. /\ UNCHANGED <<held, pending, vouched, stored, drawerFaults, pruned, spoiled>>
      /\ overtaken \subseteq overtaken' /\ overtaken' \subseteq 1..minted
      /\ minted' \in 0..MaxDrawerIds /\ minted <= minted' /\ minted \in Nat
  BY DrawerWritesAssumption DEF CallLeaves, DrawersInv, DrawersTypeOK
<1>6. /\ held \subseteq 1..minted /\ stored \subseteq 1..minted /\ 1..minted \subseteq 1..minted'
      /\ \A i \in Rows : intents[i].drawer \in 1..minted
  BY <1>5, RowIs DEF DrawersInv, DrawersTypeOK, RowsKeyed, DrawerIds
<1>7. \A e \in 1..minted' : Good(e)' =>
        (e \in 1..minted => Good(e))
  <2>1. SUFFICES ASSUME NEW e \in 1..minted', Good(e)', NEW i \in RowsAbout(e)
                 PROVE  intents[i].state # "failed"
    BY <1>5 DEF Good
  <2>2. CASE i = gap
    BY <1>3, <2>2 DEF RowsAbout
  <2>3. CASE i # gap
    BY <1>1, <2>1, <2>3 DEF Good, RowsAbout
  <2>4. QED
    BY <2>2, <2>3
<1>8. /\ tool.pc = "ready"
      /\ \A e \in 1..minted : Good(e) =>
           \A i \in RowsAbout(e) : IsAdd(i) /\ intents[i].state \in {"staged", "cancelled"} =>
             e \notin held /\ e \notin stored /\ \A j \in RowsAbout(e) : j = i
  BY DEF DrawersInv, NewDrawers, Doing
<1>9. kind = "add" /\ d \notin held /\ Good(d)' =>
        d \notin stored /\ \A i \in Rows : intents[i].drawer = d => i = gap
  <2>1. SUFFICES ASSUME kind = "add", d \notin held, Good(d)'
                 PROVE  d \notin stored /\ \A i \in Rows : intents[i].drawer = d => i = gap
    OBVIOUS
  <2>2. CASE d = minted + 1
    BY <1>5, <1>6, <2>2
  <2>3. CASE d <= minted /\ gap \in Rows
    <3>1. d \in 1..minted /\ d \in 1..minted'
      BY <1>5, <2>3 DEF DrawerIds
    <3>2. gap \in RowsAbout(d) /\ IsAdd(gap) /\ intents[gap].state = "cancelled"
      BY <1>3, <2>1, <2>3, RowIs DEF DrawersInv, RowsKeyed, RowsAbout
    <3>3. QED
      BY <1>7, <1>8, <2>1, <3>1, <3>2 DEF RowsAbout
  <2>4. QED
    BY <2>1, <2>2, <2>3 DEF StagedFor
<1>10. DrawersTypeOK'
  <2>1. tool' \in Tool /\ tool'.row <= Len(intents')
    BY <1>1, <1>3, <1>4, DrawerWritesAssumption DEF Tool, n
  <2>2. /\ held' \subseteq 1..minted' /\ vouched' \subseteq 1..minted' /\ pending' \subseteq 1..minted'
        /\ stored' \subseteq 1..minted' /\ (pruned \cup overtaken \cup spoiled)' \subseteq 1..minted'
    BY <1>5, <1>6 DEF DrawersInv, DrawersTypeOK
  <2>3. QED
    BY <1>3, <1>5, <2>1, <2>2 DEF DrawersInv, DrawersTypeOK, n
<1>11. RowsKeyed'
  <2>1. ASSUME NEW j \in Rows'
        PROVE  /\ intents'[j].key \in RemoveKeys \cup {NewKey} <=> ~(intents'[j].kind = "add")
               /\ intents'[j].key \in DrawerIds => intents'[j].key = intents'[j].drawer
               /\ intents'[j].drawer <= minted'
               /\ intents'[j].state \in {"staged", "cancelled"} => ~intents'[j].landed
    <3>1. CASE j = n
      BY <1>2, <3>1
    <3>2. CASE j # n
      <4>1. Before(gap, j) \in Rows /\ intents'[j] = intents[Before(gap, j)]
        BY <1>1, <3>2
      <4>2. intents[Before(gap, j)].drawer <= minted'
        BY <1>5, <1>6, <4>1
      <4>3. QED
        BY <4>1, <4>2 DEF DrawersInv, RowsKeyed, IsAdd
    <3>3. QED
      BY <3>1, <3>2
  <2>2. ASSUME NEW i \in Rows', NEW j \in Rows', intents'[i].key = intents'[j].key,
               intents'[i].key # NewKey
        PROVE  i = j
    <3>1. CASE i # n /\ j # n
      BY <1>1, <2>2, <3>1 DEF DrawersInv, RowsKeyed
    <3>2. CASE i = n /\ j # n
      BY <1>1, <1>2, <1>3, <2>2, <3>2
    <3>3. CASE i # n /\ j = n
      BY <1>1, <1>2, <1>3, <2>2, <3>3
    <3>4. QED
      BY <3>1, <3>2, <3>3
  <2>3. QED
    BY <2>1, <2>2 DEF RowsKeyed, IsAdd
<1>12. CallInProgress'
  <2>1. n \in Rows' /\ tool'.pc = pc /\ tool'.row = n
    BY <1>1, <1>4
  <2>2. pc = "adding" => kind = "add"
    BY DEF StagedFor
  <2>3. pc = "removing" => kind # "add" /\ d \in held
    BY DEF StagedFor
  <2>4. pc = "committed" => kind = "add" /\ d \in held
    BY DEF StagedFor
  <2>5. QED
    BY <1>1, <1>2, <1>4, <1>5, <2>1, <2>2, <2>3, <2>4
    DEF CallInProgress, Doing, Mine, Target, IsAdd, LooksDone, RowsAbout
<1>13. NewDrawers'
  <2>1. SUFFICES ASSUME NEW e \in 1..minted', Good(e)', NEW i \in Rows', intents'[i].drawer = e,
                        intents'[i].kind = "add", intents'[i].state \in {"staged", "cancelled"}
                 PROVE  \/ /\ e \notin held /\ e \notin stored
                           /\ \A j \in Rows' : intents'[j].drawer = e => j = i
                        \/ e \in held /\ intents'[i].state = "staged" /\ pc = "committed" /\ n = i
    BY <1>4, <1>5 DEF NewDrawers, RowsAbout, IsAdd, Doing, Mine
  <2>2. CASE i = n
    <3>1. kind = "add" /\ d = e
      BY <1>2, <2>1, <2>2
    <3>2. CASE d \in held
      BY <1>2, <2>2, <3>1, <3>2 DEF StagedFor
    <3>3. CASE d \notin held
      BY <1>1, <1>9, <2>1, <2>2, <3>1, <3>3
    <3>4. QED
      BY <3>2, <3>3
  <2>3. CASE i # n
    <3>1. /\ Before(gap, i) \in Rows /\ Before(gap, i) # gap /\ intents'[i] = intents[Before(gap, i)]
          /\ e \in 1..minted
      BY <1>1, <1>6, <2>1, <2>3
    <3>2. /\ e \notin held /\ e \notin stored
          /\ \A j \in Rows : intents[j].drawer = e => j = Before(gap, i)
      BY <1>7, <1>8, <2>1, <3>1 DEF RowsAbout, IsAdd
    <3>3. e # d
      <4>1. SUFFICES ASSUME e = d
                     PROVE  FALSE
        OBVIOUS
      <4>2. kind = "add" /\ gap \in Rows
        BY <1>5, <3>1, <3>2, <4>1 DEF StagedFor
      <4>3. QED
        BY <1>3, <3>1, <3>2, <4>1, <4>2
    <3>4. ASSUME NEW j \in Rows', intents'[j].drawer = e
          PROVE  j = i
      <4>1. j # n
        BY <1>2, <3>3, <3>4
      <4>2. /\ Before(gap, j) \in Rows /\ intents[Before(gap, j)].drawer = e
            /\ After(gap, Before(gap, j)) = j
        BY <1>1, <3>4, <4>1
      <4>3. After(gap, Before(gap, i)) = i
        BY <1>1, <2>3
      <4>4. QED
        BY <3>2, <4>2, <4>3
    <3>5. QED
      BY <3>2, <3>4
  <2>4. QED
    BY <2>2, <2>3
<1>14. HeldDrawers'
  <2>1. SUFFICES ASSUME NEW e \in 1..minted', Good(e)', e \in held
                 PROVE  /\ \E i \in Rows' : /\ intents'[i].drawer = e /\ intents'[i].kind = "add"
                                            /\ intents'[i].state \in {"staged", "queued", "delivered"}
                        /\ \A i \in Rows' : intents'[i].drawer = e /\ intents'[i].kind # "add" =>
                             intents'[i].state \in {"staged", "cancelled"}
                        /\ (\E i \in Rows' : /\ intents'[i].drawer = e /\ intents'[i].kind = "add"
                                             /\ intents'[i].landed \/ intents'[i].state = "delivered")
                             => e \in stored
    BY <1>5 DEF HeldDrawers, RowsAbout, IsAdd
  <2>2. e \in 1..minted /\ Good(e)
    BY <1>6, <1>7, <2>1
  <2>3. PICK w \in Rows : /\ intents[w].drawer = e /\ intents[w].kind = "add"
                          /\ intents[w].state \in {"staged", "queued", "delivered"}
    BY <2>1, <2>2 DEF DrawersInv, HeldDrawers, RowsAbout, IsAdd
  <2>4. w # gap
    BY <1>3, <2>3
  <2>5. \A i \in Rows : intents[i].drawer = e =>
          /\ intents[i].kind # "add" => intents[i].state \in {"staged", "cancelled"}
          /\ intents[i].kind = "add" /\ (intents[i].landed \/ intents[i].state = "delivered")
               => e \in stored
    BY <2>1, <2>2 DEF DrawersInv, HeldDrawers, RowsAbout, IsAdd
  <2>6. QED
    BY <1>1, <1>2, <2>3, <2>4, <2>5
<1>15. GoneDrawers'
  <2>1. SUFFICES ASSUME NEW e \in 1..minted', Good(e)', e \notin held,
                        e \in stored \/ \E i \in Rows' : /\ intents'[i].drawer = e
                                                         /\ intents'[i].kind = "add"
                                                         /\ intents'[i].state = "queued"
                 PROVE  \E k \in Rows' :
                          /\ intents'[k].drawer = e /\ intents'[k].kind # "add"
                          /\ intents'[k].state \in {"staged", "queued"} /\ ~intents'[k].landed
                          /\ \A i \in Rows' : intents'[i].drawer = e /\ intents'[i].kind = "add" => i < k
    BY <1>5 DEF GoneDrawers, RowsAbout, IsAdd
  <2>2. e \in stored \/ \E i \in Rows : /\ intents[i].drawer = e /\ intents[i].kind = "add"
                                        /\ intents[i].state = "queued" /\ i # gap
    BY <1>1, <1>2, <2>1
  <2>3. e \in 1..minted /\ Good(e)
    BY <1>6, <1>7, <2>1, <2>2
  <2>4. PICK k \in Rows :
          /\ intents[k].drawer = e /\ intents[k].kind # "add"
          /\ intents[k].state \in {"staged", "queued"} /\ ~intents[k].landed
          /\ \A i \in Rows : intents[i].drawer = e /\ intents[i].kind = "add" => i < k
    BY <2>1, <2>2, <2>3 DEF DrawersInv, GoneDrawers, RowsAbout, IsAdd
  <2>5. k # gap
    BY <1>3, <2>4
  <2>6. e # d
    BY <1>9, <2>1, <2>2, <2>4, <2>5 DEF StagedFor
  <2>7. ASSUME NEW i \in Rows', intents'[i].drawer = e, intents'[i].kind = "add"
        PROVE  i < After(gap, k)
    <3>1. i # n
      BY <1>2, <2>6, <2>7
    <3>2. /\ Before(gap, i) \in Rows /\ Before(gap, i) # gap /\ After(gap, Before(gap, i)) = i
          /\ intents'[i] = intents[Before(gap, i)]
      BY <1>1, <3>1
    <3>3. Before(gap, i) < k
      BY <2>4, <2>7, <3>2
    <3>4. QED
      BY <1>1, <2>5, <3>2, <3>3
  <2>8. QED
    BY <1>1, <2>4, <2>5, <2>7
<1>16. QED
  BY <1>10, <1>11, <1>12, <1>13, <1>14, <1>15 DEF DrawersInv

LEMMA OvertakenAreKnown ==
  ASSUME DrawersTypeOK, RowsKeyed, NEW key
  PROVE  /\ Overtaken(key) \subseteq 1..minted
         /\ \A i \in RowsOf(key), j \in Rows :
              /\ intents[i].state = "staged" /\ j > i /\ intents[j].drawer = intents[i].drawer
              => intents[i].drawer \in Overtaken(key)
  BY RowIs DEF Overtaken, RowsOf, RowsKeyed, DrawerIds, DrawersTypeOK

LEMMA KeysAreKinds ==
  /\ \A key \in AddKeys : key \notin RemoveKeys \cup {NewKey} \cup DrawerIds
  /\ \A key \in RemoveKeys \cup {NewKey} : key \notin DrawerIds
  /\ \A d \in DrawerIds : d \notin RemoveKeys \cup {NewKey}
  /\ AddKeys \cup RemoveKeys \cup DrawerIds \cup {NewKey} \subseteq OutboxKeys
  BY DrawerWritesAssumption DEF DrawerIds, NewKey, OutboxKeys

LEMMA DuplicateIsStaged ==
  ASSUME DrawersInv, NEW key \in AddKeys \cup {NewKey}, AddDuplicate(key)
  PROVE  DrawersInv'
<1>1. PICK d \in held : Enqueue("add", IF key = NewKey THEN d ELSE key, d, "committed")
  BY DEF AddDuplicate
<1> DEFINE opId == IF key = NewKey THEN d ELSE key
<1>2. /\ Doing("ready") /\ CallLeaves /\ minted' = minted
  BY OvertakenAreKnown DEF AddDuplicate, CallLeaves, DrawersInv, DrawersTypeOK
<1>3. /\ d \in DrawerIds /\ d <= minted /\ opId \in OutboxKeys
      /\ (opId \in RemoveKeys \cup {NewKey} <=> "add" # "add") /\ (opId \in DrawerIds => opId = d)
  BY KeysAreKinds, DrawerWritesAssumption DEF DrawersInv, DrawersTypeOK, DrawerIds
<1> HIDE DEF opId
<1>4. Enqueue("add", opId, d, "committed")
  BY <1>1 DEF opId
<1>5. CASE \E gap \in 1..(Len(intents) + 1) :
             StagedLast(gap, "add", opId, d) /\ tool' = [pc |-> "committed", row |-> Len(intents')]
  <2>1. PICK gap \in 1..(Len(intents) + 1) :
          StagedLast(gap, "add", opId, d) /\ tool' = [pc |-> "committed", row |-> Len(intents')]
    BY <1>5
  <2>2. StagedFor(gap, "add", d, "committed")
    BY DEF StagedFor
  <2>3. minted' = minted \/ minted' = minted + 1
    BY <1>2
  <2>4. d <= minted'
    BY <1>2, <1>3
  <2>5. QED
    BY <1>2, <1>3, <2>1, <2>2, <2>3, <2>4, CallStages
<1>6. CASE \E i \in Rows : TakenUp(i, opId, d) /\ tool' = [pc |-> "committed", row |-> i]
  <2>1. PICK i \in Rows : TakenUp(i, opId, d) /\ tool' = [pc |-> "committed", row |-> i]
    BY <1>6
  <2>2. /\ intents' = intents /\ Rows' = Rows /\ intents[i].key = opId /\ intents[i].drawer = d
    BY <2>1 DEF TakenUp, RowsOf, Rows
  <2>3. IsAdd(i)
    BY <1>3, <2>2 DEF DrawersInv, RowsKeyed
  <2>4. CallInProgress'
    BY <1>1, <1>2, <2>1, <2>2, <2>3 DEF CallInProgress, CallLeaves, Doing, Mine, IsAdd, LooksDone
  <2>5. tool' \in Tool /\ tool'.row = i
    BY <2>1, RowIs, DrawerWritesAssumption DEF Tool, DrawersInv, DrawersTypeOK
  <2>6. QED
    BY <1>2, <2>2, <2>4, <2>5, CallTakesUp
<1>7. QED
  BY <1>3, <1>4, <1>5, <1>6, EnqueueStagesOrFinds DEF DrawersInv

LEMMA AdditionIsStaged ==
  ASSUME DrawersInv, NEW key \in AddKeys \cup {NewKey}, AddDrawer(key)
  PROVE  DrawersInv'
<1>1. /\ Doing("ready") /\ ~AddReplayed(key) /\ held = {} /\ minted \in Nat
  BY DrawerWritesAssumption DEF AddDrawer, DrawersInv, DrawersTypeOK
<1>2. ASSUME NEW d \in DrawerIds, NEW opId \in OutboxKeys, Enqueue("add", opId, d, "adding"), CallLeaves,
             minted' = minted \/ minted' = minted + 1, d <= minted',
             opId \notin RemoveKeys \cup {NewKey}, opId \in DrawerIds => opId = d,
             d = minted + 1 \/ (minted' = minted /\ d <= minted /\ RowsOf(opId) # {}),
             \A i \in RowsOf(opId) : intents[i].drawer = d =>
               intents[i].state \in {"staged", "cancelled"} /\ minted' = minted
      PROVE  DrawersInv'
  <2>1. CASE \E gap \in 1..(Len(intents) + 1) :
               StagedLast(gap, "add", opId, d) /\ tool' = [pc |-> "adding", row |-> Len(intents')]
    <3>1. PICK gap \in 1..(Len(intents) + 1) :
            StagedLast(gap, "add", opId, d) /\ tool' = [pc |-> "adding", row |-> Len(intents')]
      BY <2>1
    <3>2. RowsOf(opId) # {} => gap \in Rows
      BY <3>1 DEF StagedLast, RowsOf
    <3>3. StagedFor(gap, "add", d, "adding")
      BY <1>1, <1>2, <3>2 DEF StagedFor
    <3>4. opId \in RemoveKeys \cup {NewKey} <=> "add" # "add"
      BY <1>2
    <3>5. QED
      BY <1>1, <1>2, <3>1, <3>3, <3>4, CallStages
  <2>2. CASE \E i \in Rows : TakenUp(i, opId, d) /\ tool' = [pc |-> "adding", row |-> i]
    <3>1. PICK i \in Rows : TakenUp(i, opId, d) /\ tool' = [pc |-> "adding", row |-> i]
      BY <2>2
    <3>2. /\ intents' = intents /\ Rows' = Rows /\ intents[i].key = opId /\ intents[i].drawer = d
          /\ i \in RowsOf(opId) /\ intents[i].state # "cancelled"
      BY <3>1 DEF TakenUp, RowsOf, Rows
    <3>3. IsAdd(i) /\ intents[i].state = "staged" /\ minted' = minted
      BY <1>2, <3>2 DEF DrawersInv, RowsKeyed
    <3>4. CallInProgress'
      BY <3>1, <3>2, <3>3 DEF CallInProgress, Doing, Mine, IsAdd, LooksDone
    <3>5. tool' \in Tool /\ tool'.row = i
      BY <3>1, RowIs, DrawerWritesAssumption DEF Tool, DrawersInv, DrawersTypeOK
    <3>6. QED
      BY <1>1, <1>2, <3>2, <3>3, <3>4, <3>5, CallTakesUp
  <2>3. QED
    BY <1>2, <2>1, <2>2, EnqueueStagesOrFinds DEF DrawersInv
<1>3. CASE Pinned(key) # {}
  <2>1. PICK d \in Pinned(key) : Enqueue("add", key, d, "adding") /\ minted' = minted
    BY <1>3 DEF AddDrawer
  <2>2. PICK p \in RowsOf(key) : intents[p].state \in {"staged", "cancelled"} /\ intents[p].drawer = d
    BY DEF Pinned
  <2>3. p \in Rows /\ key # NewKey /\ intents[p].key = key /\ key \in AddKeys
    BY DEF RowsOf
  <2>4. d \in DrawerIds /\ d <= minted
    BY <2>2, <2>3, RowIs DEF DrawersInv, RowsKeyed
  <2>5. \A i \in RowsOf(key) : i = p
    BY <2>3 DEF RowsOf, DrawersInv, RowsKeyed
  <2>6. CallLeaves
    BY <2>1, OvertakenAreKnown DEF AddDrawer, CallLeaves, DrawersInv, DrawersTypeOK
  <2>7. QED
    BY <1>2, <2>1, <2>2, <2>3, <2>4, <2>5, <2>6, KeysAreKinds
<1>4. CASE Pinned(key) = {}
  <2> DEFINE opId == IF key = NewKey THEN minted + 1 ELSE key
  <2>1. /\ minted < MaxDrawerIds /\ minted' = minted + 1 /\ Enqueue("add", opId, minted + 1, "adding")
    BY <1>4 DEF AddDrawer
  <2>2. minted + 1 \in DrawerIds /\ minted' \in 0..MaxDrawerIds
    BY <1>1, <2>1, DrawerWritesAssumption DEF DrawerIds
  <2>3. /\ opId \in OutboxKeys /\ opId \notin RemoveKeys \cup {NewKey}
        /\ opId \in DrawerIds => opId = minted + 1
    BY <2>2, KeysAreKinds
  <2>4. CallLeaves
    BY <1>1, <2>1, <2>2, OvertakenAreKnown DEF AddDrawer, CallLeaves, DrawersInv, DrawersTypeOK
  <2>5. \A i \in RowsOf(opId) : intents[i].drawer # minted + 1
    BY <1>1, RowIs DEF RowsOf, DrawersInv, RowsKeyed, DrawerIds
  <2> HIDE DEF opId
  <2>6. minted + 1 <= minted'
    BY <1>1, <2>1
  <2>7. QED
    BY <1>2, <2>1, <2>2, <2>3, <2>4, <2>5, <2>6
<1>5. QED
  BY <1>3, <1>4

LEMMA DeletionIsStaged ==
  ASSUME DrawersInv, NEW key \in RemoveKeys \cup {NewKey}, NEW d \in 1..minted, DeleteDrawer(key, d)
  PROVE  DrawersInv'
<1>1. /\ Doing("ready") /\ d \in held /\ ~DeleteReplayed(key) /\ Enqueue("delete", key, d, "removing")
      /\ minted' = minted /\ overtaken' = overtaken \cup Overtaken(key)
  BY DEF DeleteDrawer
<1>2. CallLeaves
  BY OvertakenAreKnown DEF DeleteDrawer, CallLeaves, DrawersInv, DrawersTypeOK
<1>3. /\ d \in DrawerIds /\ d <= minted /\ key \in OutboxKeys
      /\ (key \in RemoveKeys \cup {NewKey} <=> "delete" # "add") /\ (key \in DrawerIds => key = d)
  BY KeysAreKinds, DrawerWritesAssumption DEF DrawersInv, DrawersTypeOK, DrawerIds
<1>4. CASE \E gap \in 1..(Len(intents) + 1) :
             StagedLast(gap, "delete", key, d) /\ tool' = [pc |-> "removing", row |-> Len(intents')]
  BY <1>1, <1>2, <1>3, <1>4, CallStages DEF StagedFor
<1>5. CASE \E i \in Rows : TakenUp(i, key, d) /\ tool' = [pc |-> "removing", row |-> i]
  <2>1. PICK i \in Rows : TakenUp(i, key, d) /\ tool' = [pc |-> "removing", row |-> i]
    BY <1>5
  <2>2. /\ intents' = intents /\ Rows' = Rows /\ intents[i].key = key /\ intents[i].drawer = d
        /\ i \in RowsOf(key) /\ intents[i].state # "cancelled"
    BY <2>1 DEF TakenUp, RowsOf, Rows
  <2>3. ~IsAdd(i) /\ intents[i].state = "staged"
    BY <1>1, <2>2 DEF DrawersInv, RowsKeyed, DeleteReplayed
  <2>4. ASSUME d \notin overtaken', NEW j \in Rows, intents[j].drawer = d
        PROVE  j <= i
    <3>1. i \in Nat /\ j \in Nat
      BY RowIs DEF DrawersInv
    <3>2. ~(j > i)
      BY <1>1, <2>2, <2>3, <2>4, OvertakenAreKnown DEF DrawersInv
    <3>3. QED
      BY <3>1, <3>2
  <2>5. CallInProgress'
    BY <1>1, <1>2, <2>1, <2>2, <2>3, <2>4
    DEF CallInProgress, CallLeaves, Doing, Mine, Target, IsAdd, LooksDone, RowsAbout, Good
  <2>6. tool' \in Tool /\ tool'.row = i
    BY <2>1, RowIs, DrawerWritesAssumption DEF Tool, DrawersInv, DrawersTypeOK
  <2>7. QED
    BY <1>1, <1>2, <2>2, <2>5, <2>6, CallTakesUp
<1>6. QED
  BY <1>1, <1>3, <1>4, <1>5, EnqueueStagesOrFinds DEF DrawersInv

LEMMA DeletionIsTakenUp ==
  ASSUME DrawersInv, NEW key \in RemoveKeys \cup {NewKey}, RecoverDelete(key)
  PROVE  DrawersInv'
<1>1. PICK i \in RowsOf(key) : /\ intents[i].state = "staged" /\ intents[i].drawer \notin held
                               /\ tool' = [pc |-> "committed", row |-> i]
  BY DEF RecoverDelete
<1>2. /\ Doing("ready") /\ CallLeaves /\ minted' = minted /\ intents' = intents /\ Rows' = Rows
  BY OvertakenAreKnown DEF RecoverDelete, CallLeaves, DrawersInv, DrawersTypeOK, Rows
<1>3. i \in Rows /\ ~IsAdd(i)
  BY DEF RowsOf, DrawersInv, RowsKeyed
<1>4. CallInProgress'
  BY <1>1, <1>2, <1>3 DEF CallInProgress, CallLeaves, Doing, Mine, IsAdd, LooksDone
<1>5. tool' \in Tool /\ tool'.row = i
  BY <1>1, <1>3, RowIs, DrawerWritesAssumption DEF Tool, DrawersInv, DrawersTypeOK
<1>6. QED
  BY <1>2, <1>3, <1>4, <1>5, CallTakesUp

LEMMA DrawersInitInv == DrawersInit => DrawersInv
<1>1. ASSUME DrawersInit
      PROVE  DrawersInv
  <2>1. intents = <<>> /\ Rows = {} /\ minted = 0 /\ tool = [pc |-> "down", row |-> 0] /\ held = {}
    BY <1>1 DEF DrawersInit, Rows, Idle
  <2>2. DrawersTypeOK
    BY <1>1, <2>1, DrawerWritesAssumption DEF DrawersInit, DrawersTypeOK, Tool
  <2>3. \A d \in 1..minted : FALSE
    BY <2>1
  <2>4. QED
    BY <2>1, <2>2, <2>3
    DEF DrawersInv, RowsKeyed, CallInProgress, Doing, NewDrawers, HeldDrawers, GoneDrawers
<1>2. QED
  BY <1>1

LEMMA DrawersStepKeepsInv == DrawersInv /\ [DrawersNext]_drawerVars => DrawersInv'
<1>1. ASSUME DrawersInv, DrawersNext
      PROVE  DrawersInv'
  <2>1. CASE \E key \in AddKeys \cup {NewKey} : AddDuplicate(key) \/ AddDrawer(key)
    BY <1>1, <2>1, DuplicateIsStaged, AdditionIsStaged
  <2>2. CASE \E key \in RemoveKeys \cup {NewKey} :
               RecoverDelete(key) \/ \E d \in 1..minted : DeleteDrawer(key, d) \/ ForwardDelete(key, d)
    BY <1>1, <2>2, DeletionIsTakenUp, DeletionIsStaged, DeletionIsForwarded
  <2>3. CASE \/ StoreDrawer \/ CommitDrawer \/ FailCommit \/ FailWrite \/ RemoveDrawer
             \/ ActivateIntent
    BY <1>1, <2>3, DrawerIsStored, DrawerIsCommitted, CommitFails, WriteFails, DrawerIsRemoved,
       IntentIsActivated
  <2>4. CASE \E late \in BOOLEAN : OpenPalace(late)
    BY <1>1, <2>4, PalaceOpens
  <2>5. CASE PollStaged \/ EndReconcile \/ IntentsAge \/ CrashTool
    BY <1>1, <2>5, PollBegins, ReconcileEnds, IntentsGrowOld, ToolCrashes
  <2>6. CASE \E i \in Rows : SettleIntent(i) \/ DeliverIntent(i) \/ LoseAnswer(i) \/ RejectIntent(i)
    BY <1>1, <2>6, IntentIsSettled, IntentArrives, AnswerIsLost, IntentIsRejected
  <2>7. QED
    BY <1>1, <2>1, <2>2, <2>3, <2>4, <2>5, <2>6 DEF DrawersNext
<1>2. ASSUME DrawersInv, UNCHANGED drawerVars
      PROVE  DrawersInv'
  <2>1. /\ UNCHANGED <<intents, held, pending, vouched, stored, minted, tool, drawerFaults, pruned,
                       overtaken, spoiled>>
    BY <1>2 DEF drawerVars
  <2>2. DrawersTypeOK'
    BY <1>2, <2>1 DEF DrawersInv, DrawersTypeOK
  <2>3. RowsKeyed' /\ CallInProgress'
    BY <1>2, <2>1
    DEF DrawersInv, RowsKeyed, CallInProgress, Rows, IsAdd, Mine, Doing, Target, Good, RowsAbout, LooksDone
  <2>4. NewDrawers' /\ HeldDrawers' /\ GoneDrawers'
    BY <1>2, <2>1
    DEF DrawersInv, NewDrawers, HeldDrawers, GoneDrawers, Rows, IsAdd, Mine, Doing, Good, RowsAbout
  <2>5. QED
    BY <2>2, <2>3, <2>4 DEF DrawersInv
<1>3. QED
  BY <1>1, <1>2

\* Between the steps of every call, every crash, every reconciliation and every delivery, the rows of
\* a drawer say what the remote has yet to be told of it (agentpalace-mcp/src/lib.rs, tool_add_drawer,
\* tool_delete_drawer and reconcile_staged_replications).
THEOREM DrawersInvHolds == DrawersSpec => []DrawersInv
<1>1. QED
  BY DrawersInitInv, DrawersStepKeepsInv, PTL DEF DrawersSpec

\* Once every intent is settled the palace and the remote agree on every drawer none of whose
\* operations failed, apart from the exceptions DrawersConverge names: for any number of operation
\* ids, drawers, intents, crashes and lost answers.
THEOREM DrawersAgree == DrawersSpec => []DrawersConverge
<1>1. DrawersInv => DrawersConverge
  <2>1. SUFFICES ASSUME DrawersInv, AtRest,
                        NEW d \in 1..minted \ (Refused \cup pruned \cup spoiled \cup overtaken)
                 PROVE  d \in held <=> d \in stored
    BY DEF DrawersConverge, AgreeOn, DrawersInv
  <2>2. Good(d) /\ d \in 1..minted
    BY DEF Refused, Good, RowsAbout
  <2>3. CASE d \in held
    <3>1. PICK i \in RowsAbout(d) : IsAdd(i) /\ intents[i].state \in {"staged", "queued", "delivered"}
      BY <2>1, <2>2, <2>3 DEF DrawersInv, HeldDrawers
    <3>2. intents[i].state = "delivered"
      BY <2>1, <3>1 DEF AtRest, RowsAbout
    <3>3. QED
      BY <2>1, <2>2, <2>3, <3>1, <3>2 DEF DrawersInv, HeldDrawers
  <2>4. CASE d \notin held
    <3>1. \A k \in RowsAbout(d) : intents[k].state \notin {"staged", "queued"}
      BY <2>1 DEF AtRest, RowsAbout
    <3>2. QED
      BY <2>1, <2>2, <2>4, <3>1 DEF DrawersInv, GoneDrawers
  <2>5. QED
    BY <2>3, <2>4
<1>2. QED
  BY <1>1, DrawersInvHolds, PTL
=============================================================================
