----------------------------- MODULE FeedPages ------------------------------
(***************************************************************************)
(* A worker that follows a feed of its own palace and of remote ones, a    *)
(* page at a time: the inbox, the audit events and the task list of the    *)
(* coordination store (crates/agentpalace-storage/src/coordination.rs) or  *)
(* the change log (sqlite.rs), through the tools of the MCP server         *)
(* (crates/agentpalace-mcp/src/lib.rs) and its fan-outs (federation.rs).   *)
(*                                                                         *)
(* The worker is what docs/Coordination.md asks for: it stores the last    *)
(* cursor of each origin with its other state when it has dealt with a     *)
(* page, and continues from there after a restart.                         *)
(***************************************************************************)
EXTENDS Naturals, Sequences, FiniteSets

CONSTANTS
  Local,       \* the palace of the MCP server
  Remotes,     \* the remote palaces
  Feeds,       \* subset of {"inbox", "events", "tasks", "changes"}
  Loggers,     \* writers of change events
  PageLimit,   \* rows of a page
  MaxRows,     \* bound: rows of all logs
  FeedClock    \* bound: the clock

ASSUME FeedAssumption ==
  /\ Local \notin Remotes /\ IsFiniteSet(Remotes) /\ IsFiniteSet(Loggers)
  /\ PageLimit \in Nat \ {0} /\ MaxRows \in Nat /\ FeedClock \in Nat \ {0}

VARIABLES
  feed,     \* what the worker follows
  log,      \* per palace, its rows in the order of their rowid or sequence
  writing,  \* change events that have their time and are not inserted yet
  now,      \* the clock of all palaces
  cursor,   \* per origin, the cursor the worker stored
  call,     \* per origin, what the tool call in progress has of it
  handled   \* rows the worker dealt with

feedVars == <<feed, log, writing, now, cursor, call, handled>>

Origins == {Local} \cup Remotes

\* A place in a feed; Start is before every row and stands for no cursor.
Start == <<0, 0>>
Less(a, b) == a[1] < b[1] \/ (a[1] = b[1] /\ a[2] < b[2])

\* The change log is ordered by (occurred_at, rowid), the others by sequence.
Key(p, i) == <<IF feed = "changes" THEN log[p][i].time ELSE 0, i>>

NotCalled == [at |-> "idle", rows |-> {}, next |-> Start]
Asked == [NotCalled EXCEPT !.at = "asked"]
NotWriting == [palace |-> Local, time |-> 0, hidden |-> FALSE]

FeedTypeOK ==
  /\ feed \in Feeds
  /\ \A p \in Origins : \A i \in DOMAIN log[p] :
       log[p][i] \in [note : 1..MaxRows, time : 0..FeedClock, hidden : BOOLEAN, acked : BOOLEAN, late : BOOLEAN]
  /\ writing \in [Loggers -> [palace : Origins, time : 0..FeedClock, hidden : BOOLEAN]]
  /\ now \in 1..FeedClock
  /\ cursor \in [Origins -> (0..FeedClock) \X (0..MaxRows)]
  /\ call \in [Origins -> [at : {"idle", "asked", "answered", "failed"}, rows : SUBSET (1..MaxRows),
                          next : (0..FeedClock) \X (0..MaxRows)]]
  /\ handled \subseteq Origins \X (1..MaxRows)

FeedInit ==
  /\ feed \in Feeds
  /\ log = [p \in Origins |-> <<>>]
  /\ writing = [w \in Loggers |-> NotWriting]
  /\ now = 1
  /\ cursor = [p \in Origins |-> Start]
  /\ call = [p \in Origins |-> NotCalled]
  /\ handled = {}

-----------------------------------------------------------------------------
(* Writers.                                                                *)

RoomLeft ==
  LET Rows == {<<p, i>> : p \in Origins, i \in 1..MaxRows}
      Writing == {w \in Loggers : writing[w] # NotWriting}
  IN  Cardinality({r \in Rows : r[2] \in DOMAIN log[r[1]]}) + Cardinality(Writing) < MaxRows

Row(note, time, hidden, late) ==
  [note |-> note, time |-> time, hidden |-> hidden, acked |-> FALSE, late |-> late]

\* find_message_by_key and its like: a repeat with the same key returns the committed row.
FoundNever(p, n) == FALSE

Found(p, n) == \E i \in DOMAIN log[p] : log[p][i].note = n

\* send_message, create_task, or any mutation with the event it appends: one transaction, which also
\* assigns the sequence.  Somebody may repeat it under its key at any time.
Post(p, n, hidden) ==
  /\ feed # "changes" /\ RoomLeft
  /\ ~Found(p, n)
  /\ log' = [log EXCEPT ![p] = Append(@, Row(n, 0, hidden, FALSE))]
  /\ UNCHANGED <<feed, writing, now, cursor, call, handled>>

\* acknowledge_message; the recipient is a name that several workers may share.
Acknowledge(p, i) ==
  /\ feed = "inbox" /\ ~log[p][i].acked
  /\ log' = [log EXCEPT ![p][i].acked = TRUE]
  /\ UNCHANGED <<feed, writing, now, cursor, call, handled>>

FeedTick ==
  /\ feed = "changes" /\ now < FeedClock
  /\ now' = now + 1
  /\ UNCHANGED <<feed, log, writing, cursor, call, handled>>

\* A change event gets its time where it is built ...
StampEvent(w, p, hidden) ==
  /\ feed = "changes" /\ RoomLeft /\ writing[w] = NotWriting
  /\ writing' = [writing EXCEPT ![w] = [palace |-> p, time |-> now, hidden |-> hidden]]
  /\ UNCHANGED <<feed, log, now, cursor, call, handled>>

\* ... and is inserted later (append_event_inner), perhaps after one that is younger.
AppendEvent(w) ==
  LET e == writing[w]
      overtaken == \E q \in Origins : \E i \in DOMAIN log[q] : log[q][i].time > e.time
  IN  /\ e # NotWriting
      /\ log' = [log EXCEPT ![e.palace] = Append(@, Row(Len(@) + 1, e.time, e.hidden, overtaken))]
      /\ writing' = [writing EXCEPT ![w] = NotWriting]
      /\ UNCHANGED <<feed, now, cursor, call, handled>>

-----------------------------------------------------------------------------
(* Pages.                                                                  *)

\* Wings a remote token may not see; local tools see everything that is addressed to the worker.
Visible(p, i) == ~log[p][i].hidden \/ (feed = "changes" /\ p = Local)

\* inbox and events filter in the query, the change log is filtered after the page is cut.
Matching(p) ==
  IF feed = "changes" THEN DOMAIN log[p]
  ELSE {i \in DOMAIN log[p] : Visible(p, i) /\ ~(feed = "inbox" /\ log[p][i].acked)}

\* What a remote is given: its own cursor.
SuppliedShared(p) == cursor[Local]

Supplied(p) == cursor[p]

\* The rows a query asks for.  The local change log has no cursor, only "since"; a remote that has
\* no cursor yet gets the same "since".
Ahead(p, i) ==
  IF feed # "changes" THEN Less(Supplied(p), Key(p, i))
  ELSE IF p = Local THEN log[p][i].time > cursor[Local][1]
  ELSE IF Supplied(p) = Start THEN log[p][i].time >= cursor[Local][1]
  ELSE Less(Supplied(p), Key(p, i))

\* The n first of the rows S of p.
FirstYoungTies(p, S, n) ==
  {i \in S : Cardinality({j \in S : Less(<<log[p][j].time, i>>, <<log[p][i].time, j>>)}) < n}

First(p, S, n) == {i \in S : Cardinality({j \in S : Less(Key(p, j), Key(p, i))}) < n}

Latest(p, S) == CHOOSE i \in S : \A j \in S : ~Less(Key(p, i), Key(p, j))

\* A cursor comes with a page that has a successor; the local change log has none, and the worker
\* takes the time of the last event it was shown.
NextOfSentinel(p, asked, shown) ==
  IF asked # shown THEN Key(p, Latest(p, First(p, asked, Cardinality(shown) + 1))) ELSE Start

NextCursor(p, asked, shown) ==
  IF asked # shown \/ (feed = "changes" /\ p = Local /\ shown # {})
  THEN Key(p, Latest(p, shown)) ELSE Start

\* tasks also ends a page when its bytes are used up.
PageSizes == IF feed = "tasks" THEN 1..PageLimit ELSE {PageLimit}

Answer(p, n) ==
  LET asked == {i \in Matching(p) : Ahead(p, i)}
      shown == First(p, asked, n)
  IN  [at |-> "answered", rows |-> {i \in shown : Visible(p, i)}, next |-> NextCursor(p, asked, shown)]

-----------------------------------------------------------------------------
(* The worker's call of a tool.                                            *)

BeginCall ==
  /\ \A p \in Origins : call[p] = NotCalled
  /\ call' = [p \in Origins |-> Asked]
  /\ UNCHANGED <<feed, log, writing, now, cursor, handled>>

\* The local page is read before the remotes are asked; these answer in any order.
ReadLater(p) == TRUE

MayRead(p) == p = Local \/ call[Local].at = "answered"

ReadPage(p) ==
  /\ call[p].at = "asked" /\ MayRead(p)
  /\ \E n \in PageSizes : call' = [call EXCEPT ![p] = Answer(p, n)]
  /\ UNCHANGED <<feed, log, writing, now, cursor, handled>>

\* A remote that cannot be reached gives no cursor (unreachable), or the one it was given (tasks).
FailPage(p) ==
  /\ p # Local /\ call[p].at = "asked" /\ MayRead(p)
  /\ call' = [call EXCEPT ![p] = [NotCalled EXCEPT !.at = "failed",
                                    !.next = IF feed = "tasks" THEN Supplied(p) ELSE Start]]
  /\ UNCHANGED <<feed, log, writing, now, cursor, handled>>

\* The worker deals with what it got and stores the cursors it got.  It leaves "since" alone while a
\* remote it never had a cursor of did not answer.
KeepsSince == feed = "changes" /\ \E r \in Remotes : cursor[r] = Start /\ call[r].at = "failed"

EndCall ==
  /\ \A p \in Origins : call[p].at \in {"answered", "failed"}
  /\ handled' = handled \cup {r \in Origins \X (1..MaxRows) : r[2] \in call[r[1]].rows}
  /\ cursor' = [p \in Origins |->
                  IF call[p].next = Start \/ (p = Local /\ KeepsSince) THEN cursor[p] ELSE call[p].next]
  /\ call' = [p \in Origins |-> NotCalled]
  /\ UNCHANGED <<feed, log, writing, now>>

\* A crash of the worker or of its server loses the pages in hand.
LoseCall ==
  /\ \E p \in Origins : call[p] # NotCalled
  /\ call' = [p \in Origins |-> NotCalled]
  /\ UNCHANGED <<feed, log, writing, now, cursor, handled>>

FeedNext ==
  \/ FeedTick \/ BeginCall \/ EndCall \/ LoseCall
  \/ \E p \in Origins : ReadPage(p) \/ FailPage(p) \/ \E i \in DOMAIN log[p] : Acknowledge(p, i)
  \/ \E p \in Origins, hidden \in BOOLEAN :
       (\E n \in 1..(Len(log[p]) + 1) : Post(p, n, hidden)) \/ \E w \in Loggers : StampEvent(w, p, hidden)
  \/ \E w \in Loggers : AppendEvent(w)

FeedSpec == FeedInit /\ [][FeedNext]_feedVars

-----------------------------------------------------------------------------
(* Safety.                                                                 *)

\* No row is behind the stored cursors and not dealt with, whatever was posted between pages,
\* filtered out, unreachable or lost ("continue the inbox or event stream from the stored cursor",
\* docs/Coordination.md).  Messages somebody acknowledged are not owed to a worker that asks for
\* unacknowledged ones.  A change event is owed unless it was inserted after a younger one; of
\* several local events at one time only one is, since "since" cannot tell them apart.
Owed(p, i) ==
  /\ Visible(p, i)
  /\ feed = "inbox" => ~log[p][i].acked
  /\ feed = "changes" =>
       /\ ~log[p][i].late
       /\ p = Local => \A j \in DOMAIN log[p] : j # i => log[p][j].time # log[p][i].time

NothingSkipped ==
  \A p \in Origins : \A i \in DOMAIN log[p] : Owed(p, i) /\ ~Ahead(p, i) => <<p, i>> \in handled

\* A repeat under the same key posts nothing twice ("Replaying a key returns the committed record").
PostedOnce ==
  feed # "changes" =>
    \A p \in Origins : \A i, j \in DOMAIN log[p] : log[p][i].note = log[p][j].note => i = j

FeedInv == FeedTypeOK /\ NothingSkipped /\ PostedOnce
=============================================================================
