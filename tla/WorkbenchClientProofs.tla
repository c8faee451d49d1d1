----------------------- MODULE WorkbenchClientProofs -----------------------
(***************************************************************************)
(* The types of a tab and of the event log, and that a tab that only       *)
(* watches never shows an older state of its task, for any number of       *)
(* tasks, transactions, requests and faults.                               *)
(***************************************************************************)
EXTENDS WorkbenchClient, Extremes, TLAPS

USE LogAssumption, TaskAssumption, BoundsAssumption

\* The lock of a task's row: one open transaction changes it, and by one step.
Locked ==
    /\ \A x \in open : \A w \in x.writes : w.ver = row[x.task].ver + 1
    /\ \A x, y \in open : x # y /\ x.task = y.task /\ x.writes # {} => y.writes = {}
LogInv == LogTypeOK /\ Locked

\* The rows only advance.
RowsAdvance == \A t \in Tasks : row[t].ver <= row'[t].ver

LEMMA InsertKeeps ==
    ASSUME LogInv, NEW t \in Tasks, NEW x, x \in open \/ x = [task |-> t, events |-> {}, writes |-> {}],
           x.task = t, NEW writes \in SUBSET Row,
           \A w \in writes : w.ver = row[t].ver + 1,
           writes # {} => \A y \in open \ {x} : y.task = t => y.writes = {},
           Insert(x, t, writes)
    PROVE  LogInv'
<1> DEFINE new == [task |-> t, events |-> x.events \cup {nextId}, writes |-> writes]
<1>1. /\ row' = row /\ log' = log /\ nextId' = nextId + 1 /\ nextId <= MaxEvents
      /\ open' = (open \ {x}) \cup {new}
  BY DEF Insert
<1>2. /\ row \in [Tasks -> Row] /\ log \subseteq Event /\ nextId \in 1..MaxEvents + 1
      /\ open \subseteq Transaction
  BY DEF LogInv, LogTypeOK
<1>3. x.events \subseteq 1..MaxEvents
  BY <1>2 DEF Transaction
<1>4. nextId \in 1..MaxEvents /\ nextId' \in 1..MaxEvents + 1
  BY <1>1, <1>2
<1>5. new \in Transaction
  BY <1>3, <1>4 DEF Transaction
<1>6. new.task = t /\ new.writes = writes
  OBVIOUS
<1> HIDE DEF new
<1>7. LogTypeOK'
  BY <1>1, <1>2, <1>4, <1>5 DEF LogTypeOK
<1>8. ASSUME NEW y \in open', NEW w \in y.writes PROVE w.ver = row'[y.task].ver + 1
  BY <1>1, <1>6, <1>8 DEF LogInv, Locked
<1>9. ASSUME NEW y \in open', NEW z \in open', y # z, y.task = z.task, y.writes # {}
      PROVE  z.writes = {}
  <2>1. CASE y # new /\ z # new
    BY <1>1, <1>9, <2>1 DEF LogInv, Locked
  <2>2. CASE y = new
    <3>1. z \in open \ {x} /\ z.task = t
      BY <1>1, <1>6, <1>9, <2>2
    <3> QED
      BY <1>6, <1>9, <2>2, <3>1
  <2>3. CASE z = new
    <3>1. y \in open \ {x} /\ y.task = t
      BY <1>1, <1>6, <1>9, <2>3
    <3> QED
      BY <1>6, <1>9, <2>3, <3>1
  <2> QED
    BY <2>1, <2>2, <2>3
<1> QED
  BY <1>7, <1>8, <1>9 DEF LogInv, Locked

LEMMA LogKeeps ==
    ASSUME LogInv, LogNext
    PROVE  LogInv' /\ RowsAdvance
<1>1. /\ row \in [Tasks -> Row] /\ log \subseteq Event /\ nextId \in 1..MaxEvents + 1
      /\ open \subseteq Transaction
  BY DEF LogInv, LogTypeOK
<1>2. row' = row => RowsAdvance
  <2>1. \A t \in Tasks : row[t].ver \in Nat
    BY <1>1 DEF Row
  <2> QED
    BY <2>1 DEF RowsAdvance
<1>3. ASSUME NEW t \in Tasks, AppendEvent(t) PROVE LogInv' /\ RowsAdvance
  <2>1. PICK x \in Started(t) : Insert(x, t, x.writes)
    BY <1>3 DEF AppendEvent
  <2>2. (x \in open \/ x = [task |-> t, events |-> {}, writes |-> {}]) /\ x.task = t
    BY <2>1 DEF Started
  <2>3. x.writes \in SUBSET Row
    BY <1>1, <2>2 DEF Transaction
  <2>4. \A w \in x.writes : w.ver = row[t].ver + 1
    BY <2>2 DEF LogInv, Locked
  <2>5. x.writes # {} => \A y \in open \ {x} : y.task = t => y.writes = {}
    BY <2>2 DEF LogInv, Locked
  <2>6. LogInv'
    BY <2>1, <2>2, <2>3, <2>4, <2>5, InsertKeeps
  <2> QED
    BY <1>2, <2>1, <2>6 DEF Insert
<1>4. ASSUME NEW t \in Tasks, SetStatus(t) PROVE LogInv' /\ RowsAdvance
  <2>1. PICK x \in Started(t), ended \in BOOLEAN :
          /\ \A y \in open \ {x} : y.task = t => y.writes = {}
          /\ Insert(x, t, {[ver |-> row[t].ver + 1, ended |-> ended]})
    BY <1>4 DEF SetStatus
  <2> DEFINE w == [ver |-> row[t].ver + 1, ended |-> ended]
  <2>2. (x \in open \/ x = [task |-> t, events |-> {}, writes |-> {}]) /\ x.task = t
    BY <2>1 DEF Started
  <2>3. w \in Row /\ w.ver = row[t].ver + 1
    BY <1>1 DEF Row
  <2>4. Insert(x, t, {w})
    BY <2>1
  <2> HIDE DEF w
  <2>5. LogInv'
    BY <2>1, <2>2, <2>3, <2>4, InsertKeeps
  <2> QED
    BY <1>2, <2>4, <2>5 DEF Insert
<1>5. ASSUME NEW x \in open, Rollback(x) PROVE LogInv' /\ RowsAdvance
  <2>1. row' = row /\ log' = log /\ nextId' = nextId /\ open' = open \ {x}
    BY <1>5 DEF Rollback
  <2>2. LogInv'
    BY <2>1 DEF LogInv, LogTypeOK, Locked
  <2> QED
    BY <1>2, <2>1, <2>2
<1>6. ASSUME NEW x \in open, Commit(x) PROVE LogInv' /\ RowsAdvance
  <2> DEFINE t == x.task
             new == IF x.writes = {} THEN row[t] ELSE CHOOSE r \in x.writes : TRUE
  <2>1. x \in Transaction /\ t \in Tasks /\ x.writes \subseteq Row /\ x.events \subseteq 1..MaxEvents
    BY <1>1 DEF Transaction
  <2>2. row' = [row EXCEPT ![t] = new]
    BY <1>6 DEF Commit
  <2>3. /\ log' = log \cup {[id |-> i, task |-> t] : i \in x.events}
        /\ open' = open \ {x} /\ nextId' = nextId
    BY <1>6 DEF Commit
  <2>4. /\ new \in Row
        /\ x.writes = {} => new = row[t]
        /\ new.ver \in {row[t].ver, row[t].ver + 1}
    <3>1. CASE x.writes = {}
      BY <1>1, <2>1, <3>1
    <3>2. CASE x.writes # {}
      <4>1. new \in x.writes
        BY <3>2
      <4>2. new.ver = row[t].ver + 1
        BY <4>1 DEF LogInv, Locked
      <4> QED
        BY <2>1, <3>2, <4>1, <4>2
    <3> QED
      BY <3>1, <3>2
  <2> HIDE DEF new
  <2>5. row' \in [Tasks -> Row]
    BY <1>1, <2>2, <2>4
  <2>6. log' \subseteq Event
    BY <1>1, <2>1, <2>3 DEF Event
  <2>7. LogTypeOK'
    BY <1>1, <2>3, <2>5, <2>6 DEF LogTypeOK
  <2>8. RowsAdvance
    <3>1. \A u \in Tasks : row[u].ver \in Nat
      BY <1>1 DEF Row
    <3>2. \A u \in Tasks : row'[u] = IF u = t THEN new ELSE row[u]
      BY <1>1, <2>2
    <3> QED
      BY <2>1, <2>4, <3>1, <3>2 DEF RowsAdvance
  <2>9. ASSUME NEW y \in open', NEW w \in y.writes PROVE w.ver = row'[y.task].ver + 1
    <3>1. y \in open /\ y # x /\ w.ver = row[y.task].ver + 1 /\ y.task \in Tasks
      BY <1>1, <2>3, <2>9 DEF LogInv, Locked, Transaction
    <3>2. CASE y.task = t
      <4>1. x.writes = {}
        BY <2>9, <3>1, <3>2 DEF LogInv, Locked
      <4> QED
        BY <1>1, <2>2, <2>4, <3>1, <3>2, <4>1
    <3>3. CASE y.task # t
      BY <1>1, <2>2, <3>1, <3>3
    <3> QED
      BY <3>2, <3>3
  <2>10. \A y, z \in open' : y # z /\ y.task = z.task /\ y.writes # {} => z.writes = {}
    BY <2>3 DEF LogInv, Locked
  <2>11. Locked'
    BY <2>9, <2>10 DEF Locked
  <2> QED
    BY <2>7, <2>8, <2>11 DEF LogInv
<1> QED
  BY <1>3, <1>4, <1>5, <1>6 DEF LogNext, End

-----------------------------------------------------------------------------
\* Refreshes of a tab do not overlap.
Alone == (busy <=> refreshes # {}) /\ \A p, q \in refreshes : p = q

\* Until the first hydration is answered the tab is as it was when it started.
Booting ==
    /\ \A a \in 2..MaxAsks : asks[a].kind = "none"
    /\ asks[1].kind \in {"none", "hydrate"}
    /\ asks[1].kind = "hydrate" =>
         /\ asks[1].task = Latest
         /\ \A d \in asks[1].detail : d.ver <= row[Latest].ver
         /\ ui.id = NoTask /\ ui.shown = Nothing /\ view = ui
         /\ refreshes = {}

\* What streams belongs to the rendered task.
Wired == conn.task # NoTask \/ conn.sent # {} => view.id # NoTask

\* From then on it follows the latest task, and no other.
Follows ==
    /\ ui.id \in {NoTask, Latest} /\ view.id \in {NoTask, Latest}
    /\ view.id = Latest => ui.id = Latest
    /\ \A req \in refreshes : req.task = Latest /\ view.id = Latest

\* What is on its way is no older than what is shown.
Newer ==
    /\ ui.shown.ver <= row[Latest].ver
    /\ \A req \in refreshes : \A d \in req.detail :
         ui.shown.ver <= d.ver /\ d.ver <= row[Latest].ver

Watching == asked = 1 => Booting /\ Follows /\ Newer
Inv == LogInv /\ TypeOK /\ Alone /\ Wired /\ Watching
Advances == asked' = 1 => ui'.shown.ver >= ui.shown.ver

LEMMA CursorTyped ==
    ASSUME LogTypeOK, NEW t, NEW since \in 0..MaxEvents
    PROVE  NextCursor(t, since) \in 0..MaxEvents
<1> DEFINE ids == {since} \cup {e.id : e \in EventsSince(t, since)}
<1>1. ids \subseteq 0..MaxEvents /\ ids # {}
  BY DEF EventsSince, LogTypeOK, Event
<1>2. NextCursor(t, since) = Max(ids)
  BY DEF NextCursor
<1> HIDE DEF ids
<1>3. PICK x \in ids : \A y \in ids : y <= x
  BY <1>1, Greatest
<1>4. \A y \in ids : x >= y
  BY <1>1, <1>3
<1>5. Max(ids) \in ids
  BY <1>4 DEF Max
<1> QED
  BY <1>1, <1>2, <1>5

LEMMA DetailTyped ==
    ASSUME LogTypeOK, NEW t \in Tasks
    PROVE  Detail(t) \in Details /\ Detail(t).ver = row[t].ver
<1>1. row[t] \in Row
  BY DEF LogTypeOK
<1> QED
  BY <1>1 DEF Row, Detail, Details

LEMMA DetailReads ==
    ASSUME LogTypeOK, NEW K, NEW req \in Requests(K)
    PROVE  /\ WithDetail(req) \in Requests(K)
           /\ WithDetail(req).task = req.task /\ WithDetail(req).kind = req.kind
           /\ WithDetail(req).detail = {Detail(req.task)}
<1>1. req.task \in Tasks
  BY DEF Requests
<1>2. Detail(req.task) \in Details
  BY <1>1, DetailTyped
<1> QED
  BY <1>2 DEF Requests, WithDetail

LEMMA EventsRead ==
    ASSUME LogTypeOK, NEW K, NEW req \in Requests(K)
    PROVE  /\ WithEvents(req) \in Requests(K)
           /\ WithEvents(req).task = req.task /\ WithEvents(req).kind = req.kind
           /\ WithEvents(req).detail = req.detail
<1> DEFINE next == NextCursor(req.task, req.since)
           e == [next |-> next, ver |-> row[req.task].ver]
<1>1. req.task \in Tasks /\ req.since \in 0..MaxEvents
  BY DEF Requests
<1>2. next \in 0..MaxEvents
  BY <1>1, CursorTyped
<1>3. row[req.task].ver \in Nat
  BY <1>1 DEF LogTypeOK, Row
<1>4. e \in Read
  BY <1>2, <1>3 DEF Read
<1>5. WithEvents(req) = [req EXCEPT !.events = {e}]
  BY DEF WithEvents
<1> HIDE DEF e
<1> QED
  BY <1>4, <1>5 DEF Requests

LEMMA AnswerTyped ==
    ASSUME NEW K, NEW req \in Requests(K), Answered(req)
    PROVE  /\ DetailOf(req) \in req.detail /\ DetailOf(req) \in Details
           /\ req.kind \in {"refresh", "hydrate"} => NextOf(req).next \in 0..MaxEvents
           /\ Split(req) \subseteq {"split"}
<1>1. req.detail # {} /\ req.detail \subseteq Details /\ req.events \subseteq Read
  BY DEF Answered, WantsDetail, Requests
<1>2. DetailOf(req) \in req.detail
  BY <1>1 DEF DetailOf
<1>3. req.kind \in {"refresh", "hydrate"} => NextOf(req) \in req.events
  BY DEF Answered, WantsEvents, NextOf
<1>4. Split(req) \subseteq {"split"}
  BY DEF Split
<1> QED
  BY <1>1, <1>2, <1>3, <1>4 DEF Read

LEMMA RefreshStarts ==
    ASSUME Inv, NEW t \in Tasks, NEW cursor \in 0..MaxEvents, StartRefresh(t, cursor)
    PROVE  /\ refreshes' \subseteq Requests({"refresh"})
           /\ busy' \in BOOLEAN /\ queued' \in BOOLEAN /\ Alone'
           /\ \A req \in refreshes' : req \in refreshes \/ (req.task = t /\ req.detail = {})
<1> DEFINE new == Request("refresh", t, cursor)
<1>1. new \in Requests({"refresh"}) /\ new.task = t /\ new.detail = {}
  BY DEF Request, Requests
<1>2. /\ refreshes \subseteq Requests({"refresh"})
      /\ busy \in BOOLEAN /\ queued \in BOOLEAN /\ Alone
  BY DEF Inv, TypeOK
<1>3. CASE busy
  <2>1. queued' = TRUE /\ refreshes' = refreshes /\ busy' = busy
    BY <1>3 DEF StartRefresh
  <2> QED
    BY <1>2, <2>1 DEF Alone
<1>4. CASE ~busy
  <2>1. queued' = queued /\ refreshes' = {new} /\ busy' = TRUE
    BY <1>2, <1>4 DEF StartRefresh, Alone
  <2> HIDE DEF new
  <2> QED
    BY <1>1, <1>2, <2>1 DEF Alone
<1> QED
  BY <1>3, <1>4

LEMMA RefreshEnds ==
    ASSUME Inv, NEW req \in refreshes, NEW cursor \in 0..MaxEvents, EndRefresh(req, cursor)
    PROVE  /\ refreshes' \subseteq Requests({"refresh"})
           /\ busy' \in BOOLEAN /\ queued' \in BOOLEAN /\ Alone'
           /\ \A new \in refreshes' : new.task = req.task /\ new.detail = {}
<1> DEFINE new == Request("refresh", req.task, cursor)
<1>1. /\ refreshes \subseteq Requests({"refresh"}) /\ queued \in BOOLEAN
      /\ refreshes = {req} /\ req.task \in Tasks
  BY DEF Inv, TypeOK, Alone, Requests
<1>2. new \in Requests({"refresh"}) /\ new.task = req.task /\ new.detail = {}
  BY <1>1 DEF Request, Requests
<1>3. /\ refreshes' = IF queued THEN {new} ELSE {}
      /\ busy' = queued /\ queued' = FALSE
  BY <1>1 DEF EndRefresh
<1> HIDE DEF new
<1> QED
  BY <1>1, <1>2, <1>3 DEF Alone
LEMMA SameLog ==
    ASSUME LogInv, UNCHANGED logVars
    PROVE  LogInv'
BY DEF LogInv, LogTypeOK, Locked, logVars

LEMMA RenderKeeps ==
    ASSUME Inv, Render
    PROVE  Inv' /\ Advances
<1>1. /\ view' = ui /\ ui' = ui /\ UNCHANGED <<logVars, refreshVars, asks, asked, faults, raced>>
      /\ ui # view
      /\ cursorRef' \in {ui.cursor, cursorRef}
  BY DEF Render
<1>2. TypeOK /\ Alone /\ Wired /\ Watching /\ LogInv
  BY DEF Inv
<1>3. ui \in Screen /\ ui.id \in Tasks \cup {NoTask} /\ ui.cursor \in 0..MaxEvents
  BY <1>2 DEF TypeOK, Screen
<1>4. \/ conn' = conn /\ ui.id = view.id
      \/ conn' = [task |-> ui.id, since |-> ui.cursor, sent |-> {}] /\ ui.id # NoTask
      \/ conn' = Closed
  BY DEF Render, Streams
<1>5. /\ conn' \in [task : Tasks \cup {NoTask}, since : 0..MaxEvents, sent : SUBSET (1..MaxEvents)]
      /\ Wired'
  <2>1. CASE conn' = conn /\ ui.id = view.id
    BY <1>1, <1>2, <2>1 DEF TypeOK, Wired
  <2>2. CASE conn' = [task |-> ui.id, since |-> ui.cursor, sent |-> {}] /\ ui.id # NoTask
    BY <1>1, <1>3, <2>2 DEF Wired
  <2>3. CASE conn' = Closed
    BY <1>1, <2>3 DEF Wired, Closed
  <2> QED
    BY <1>4, <2>1, <2>2, <2>3
<1>6. LogInv'
  BY <1>1, <1>2, SameLog
<1>7. TypeOK' /\ Alone'
  BY <1>1, <1>2, <1>3, <1>5, <1>6 DEF TypeOK, Alone, LogInv, refreshVars
<1>8. ASSUME asked' = 1 PROVE Booting' /\ Follows' /\ Newer'
  <2>1. Booting /\ Follows /\ Newer
    BY <1>1, <1>2, <1>8 DEF Watching
  <2>2. asks[1].kind = "none"
    BY <1>1, <2>1 DEF Booting
  <2> QED
    BY <1>1, <2>1, <2>2 DEF Booting, Follows, Newer, logVars, refreshVars
<1>9. Advances
  <2>1. ui.shown.ver \in Nat
    BY <1>2 DEF TypeOK, Screen, Details, Nothing
  <2> QED
    BY <1>1, <2>1 DEF Advances
<1> QED
  BY <1>5, <1>6, <1>7, <1>8, <1>9 DEF Inv, Watching

LEMMA PollKeeps ==
    ASSUME Inv, ServerPoll
    PROVE  Inv' /\ Advances
<1> DEFINE next == NextCursor(conn.task, conn.since)
           ids == {e.id : e \in EventsSince(conn.task, conn.since)}
<1>1. /\ UNCHANGED <<logVars, ui, view, cursorRef, refreshVars, asks, asked, faults, raced>>
      /\ conn.task # NoTask
      /\ conn' = [conn EXCEPT !.since = next, !.sent = @ \cup ids]
  BY DEF ServerPoll
<1>2. TypeOK /\ Alone /\ Wired /\ Watching /\ LogInv /\ LogTypeOK
  BY DEF Inv, LogInv
<1>3. conn \in [task : Tasks \cup {NoTask}, since : 0..MaxEvents, sent : SUBSET (1..MaxEvents)]
  BY <1>2 DEF TypeOK
<1>4. next \in 0..MaxEvents
  BY <1>2, <1>3, CursorTyped
<1>5. ids \subseteq 1..MaxEvents
  BY <1>2 DEF LogTypeOK, Event, EventsSince
<1> HIDE DEF next, ids
<1>6. /\ conn' \in [task : Tasks \cup {NoTask}, since : 0..MaxEvents, sent : SUBSET (1..MaxEvents)]
      /\ Wired'
  BY <1>1, <1>2, <1>3, <1>4, <1>5 DEF Wired
<1>7. LogInv'
  BY <1>1, <1>2, SameLog
<1>8. TypeOK' /\ Alone'
  BY <1>1, <1>2, <1>6, <1>7 DEF TypeOK, Alone, LogInv, refreshVars
<1>9. Watching'
  BY <1>1, <1>2 DEF Watching, Booting, Follows, Newer, logVars, refreshVars
<1>10. Advances
  <2>1. ui.shown.ver \in Nat
    BY <1>2 DEF TypeOK, Screen, Details, Nothing
  <2> QED
    BY <1>1, <2>1 DEF Advances
<1> QED
  BY <1>6, <1>7, <1>8, <1>9, <1>10 DEF Inv

\* An event and a firing of the interval start a refresh of the rendered task.
LEMMA StartKeeps ==
    ASSUME Inv, NEW cursor \in 0..MaxEvents, view.id # NoTask,
           StartRefresh(view.id, cursor) \/ UNCHANGED refreshVars,
           UNCHANGED <<logVars, view, asks, asked, faults, raced>>,
           ui' = [ui EXCEPT !.cursor = cursor] \/ ui' = ui,
           cursorRef' \in 0..MaxEvents,
           conn' \in [task : Tasks \cup {NoTask}, since : 0..MaxEvents, sent : SUBSET (1..MaxEvents)]
    PROVE  Inv' /\ Advances
<1>1. TypeOK /\ Alone /\ Wired /\ Watching /\ LogInv
  BY DEF Inv
<1>2. ui \in Screen /\ view.id \in Tasks
  BY <1>1 DEF TypeOK, Screen
<1>3. ui' \in Screen /\ ui'.id = ui.id /\ ui'.shown = ui.shown
  BY <1>2 DEF Screen
<1>4. /\ refreshes' \subseteq Requests({"refresh"})
      /\ busy' \in BOOLEAN /\ queued' \in BOOLEAN /\ Alone'
      /\ \A req \in refreshes' : req \in refreshes \/ (req.task = view.id /\ req.detail = {})
  <2>1. CASE StartRefresh(view.id, cursor)
    BY <1>2, <2>1, RefreshStarts
  <2>2. CASE UNCHANGED refreshVars
    BY <1>1, <2>2 DEF refreshVars, TypeOK, Alone
  <2> QED
    BY <2>1, <2>2
<1>5. LogInv'
  BY <1>1, SameLog
<1>6. TypeOK'
  BY <1>1, <1>3, <1>4, <1>5 DEF TypeOK, LogInv
<1>7. Wired'
  BY DEF Wired
<1>8. ASSUME asked' = 1 PROVE Booting' /\ Follows' /\ Newer'
  <2>1. Booting /\ Follows /\ Newer
    BY <1>1, <1>8 DEF Watching
  <2>2. asks[1].kind = "none"
    BY <2>1 DEF Booting
  <2>3. Booting'
    BY <2>1, <2>2 DEF Booting
  <2>4. Follows'
    BY <1>3, <1>4, <2>1 DEF Follows
  <2>5. Newer'
    BY <1>3, <1>4, <2>1 DEF Newer, logVars
  <2> QED
    BY <2>3, <2>4, <2>5
<1>9. Advances
  <2>1. ui.shown.ver \in Nat
    BY <1>1 DEF TypeOK, Screen, Details, Nothing
  <2> QED
    BY <1>3, <2>1 DEF Advances
<1> QED
  BY <1>4, <1>5, <1>6, <1>7, <1>8, <1>9 DEF Inv, Watching

LEMMA ReceiveKeeps ==
    ASSUME Inv, Receive
    PROVE  Inv' /\ Advances
<1>1. PICK id \in conn.sent :
         /\ conn' = [conn EXCEPT !.sent = @ \ {id}]
         /\ IF id <= cursorRef THEN UNCHANGED <<ui, cursorRef, refreshVars>>
            ELSE /\ ui' = [ui EXCEPT !.cursor = id]
                 /\ cursorRef' = id
                 /\ StartRefresh(view.id, id)
  BY DEF Receive
<1>2. UNCHANGED <<logVars, view, asks, asked, faults, raced>>
  BY DEF Receive
<1>3. TypeOK /\ Wired
  BY DEF Inv
<1>4. /\ conn \in [task : Tasks \cup {NoTask}, since : 0..MaxEvents, sent : SUBSET (1..MaxEvents)]
      /\ cursorRef \in 0..MaxEvents
  BY <1>3 DEF TypeOK
<1>5. id \in 0..MaxEvents
  BY <1>4
<1>6. conn' \in [task : Tasks \cup {NoTask}, since : 0..MaxEvents, sent : SUBSET (1..MaxEvents)]
  BY <1>1, <1>4
<1>7. view.id # NoTask
  BY <1>3 DEF Wired
<1>8. /\ StartRefresh(view.id, id) \/ UNCHANGED refreshVars
      /\ ui' = [ui EXCEPT !.cursor = id] \/ ui' = ui
      /\ cursorRef' \in 0..MaxEvents
  BY <1>1, <1>4, <1>5
<1> QED
  BY <1>2, <1>5, <1>6, <1>7, <1>8, StartKeeps

LEMMA IntervalKeeps ==
    ASSUME Inv, Poll
    PROVE  Inv' /\ Advances
<1>1. /\ UNCHANGED <<logVars, ui, view, cursorRef, conn, asks, asked, faults, raced>>
      /\ view.id # NoTask /\ StartRefresh(view.id, cursorRef)
  BY DEF Poll
<1>2. /\ cursorRef \in 0..MaxEvents
      /\ conn \in [task : Tasks \cup {NoTask}, since : 0..MaxEvents, sent : SUBSET (1..MaxEvents)]
  BY DEF Inv, TypeOK
<1> QED
  BY <1>1, <1>2, StartKeeps

LEMMA BreakKeeps ==
    ASSUME Inv, StreamBreaks
    PROVE  Inv' /\ Advances
<1>1. /\ UNCHANGED <<logVars, view, cursorRef, refreshVars, asks, asked, raced>>
      /\ conn.task # NoTask /\ conn' = Closed /\ faults < MaxFaults /\ faults' = faults + 1
      /\ ui' = [ui EXCEPT !.mode = "fallback_polling"]
  BY DEF StreamBreaks
<1>2. TypeOK /\ Alone /\ Wired /\ Watching /\ LogInv
  BY DEF Inv
<1>3. ui \in Screen /\ view.id # NoTask
  BY <1>1, <1>2 DEF TypeOK, Wired
<1>4. ui' \in Screen /\ ui'.id = ui.id /\ ui'.shown = ui.shown
  BY <1>1, <1>3 DEF Screen
<1>5. conn' \in [task : Tasks \cup {NoTask}, since : 0..MaxEvents, sent : SUBSET (1..MaxEvents)]
  BY <1>1 DEF Closed
<1>6. LogInv' /\ Wired'
  BY <1>1, <1>2, <1>3, SameLog DEF Wired
<1>7. faults' \in 0..MaxFaults
  BY <1>1, <1>2 DEF TypeOK
<1>8. TypeOK' /\ Alone'
  BY <1>1, <1>2, <1>4, <1>5, <1>6, <1>7 DEF TypeOK, Alone, LogInv, refreshVars
<1>9. ASSUME asked' = 1 PROVE Booting' /\ Follows' /\ Newer'
  <2>1. Booting /\ Follows /\ Newer
    BY <1>1, <1>2, <1>9 DEF Watching
  <2>2. asks[1].kind = "none"
    BY <1>3, <2>1 DEF Booting
  <2> QED
    BY <1>1, <1>4, <2>1, <2>2 DEF Booting, Follows, Newer, logVars, refreshVars
<1>10. Advances
  <2>1. ui.shown.ver \in Nat
    BY <1>2 DEF TypeOK, Screen, Details, Nothing
  <2> QED
    BY <1>4, <2>1 DEF Advances
<1> QED
  BY <1>6, <1>8, <1>9, <1>10 DEF Inv, Watching
\* A step of the refresh req: it reads, ends, or ends and is shown.
LEMMA RefreshKeeps ==
    ASSUME Inv, NEW req \in refreshes,
           UNCHANGED <<logVars, view, conn, asks, asked>>,
           refreshes' \subseteq Requests({"refresh"}), busy' \in BOOLEAN, queued' \in BOOLEAN, Alone',
           \A new \in refreshes' : new.task = req.task,
           ui' \in Screen, ui'.id = ui.id, cursorRef' \in 0..MaxEvents, faults' \in 0..MaxFaults,
           raced' \subseteq {"split", "failed", "inverted"},
           \/ /\ ui'.shown = ui.shown
              /\ \A new \in refreshes' : \A d \in new.detail : d \in req.detail \/ d = Detail(req.task)
           \/ /\ ui'.shown \in req.detail
              /\ \A new \in refreshes' : new.detail = {}
    PROVE  Inv' /\ Advances
<1>1. TypeOK /\ Alone /\ Wired /\ Watching /\ LogInv
  BY DEF Inv
<1>2. LogInv' /\ Wired'
  BY <1>1, SameLog DEF Wired
<1>3. TypeOK'
  BY <1>1, <1>2 DEF TypeOK, LogInv
<1>4. ui.shown.ver \in Nat /\ ui'.shown.ver \in Nat
  <2>1. ui \in Screen /\ ui' \in Screen
    BY <1>1 DEF TypeOK
  <2>2. \A s \in Details \cup {Nothing} : s.ver \in Nat
    BY DEF Details, Nothing
  <2> QED
    BY <2>1, <2>2 DEF Screen
<1>5. ASSUME asked' = 1 PROVE Booting' /\ Follows' /\ Newer' /\ ui'.shown.ver >= ui.shown.ver
  <2>1. Booting /\ Follows /\ Newer
    BY <1>1, <1>5 DEF Watching
  <2>2. asks[1].kind = "none" /\ req.task = Latest /\ view.id = Latest
    BY <2>1 DEF Booting, Follows
  <2>3. Booting'
    BY <2>1, <2>2 DEF Booting
  <2>4. Follows'
    BY <2>1, <2>2 DEF Follows
  <2>5. Detail(Latest).ver = row[Latest].ver /\ row[Latest].ver \in Nat
    BY <1>1, DetailTyped DEF LogInv, LogTypeOK, Row
  <2>6. row' = row
    BY DEF logVars
  <2>7. ui'.shown.ver <= row[Latest].ver /\ ui'.shown.ver >= ui.shown.ver
    BY <1>4, <2>1 DEF Newer
  <2>8. ASSUME NEW new \in refreshes', NEW d \in new.detail
        PROVE  ui'.shown.ver <= d.ver /\ d.ver <= row[Latest].ver
    BY <2>1, <2>2, <2>5, <2>8 DEF Newer
  <2>9. Newer'
    BY <2>6, <2>7, <2>8 DEF Newer
  <2> QED
    BY <2>3, <2>4, <2>7, <2>9
<1> QED
  BY <1>2, <1>3, <1>5 DEF Inv, Watching, Advances

LEMMA RefreshReadsKeep ==
    ASSUME Inv, RefreshReads
    PROVE  Inv' /\ Advances
<1>1. PICK req \in refreshes :
         refreshes' = (refreshes \ {req}) \cup {WithDetail(req)}
           \/ refreshes' = (refreshes \ {req}) \cup {WithEvents(req)}
  BY DEF RefreshReads
<1>2. UNCHANGED <<logVars, ui, view, cursorRef, conn, busy, queued, asks, asked, faults, raced>>
  BY DEF RefreshReads
<1>3. /\ refreshes = {req} /\ req \in Requests({"refresh"}) /\ busy /\ LogTypeOK
      /\ TypeOK
  BY DEF Inv, LogInv, TypeOK, Alone
<1>4. PICK new \in {WithDetail(req), WithEvents(req)} : refreshes' = {new}
  BY <1>1, <1>3
<1>5. /\ new \in Requests({"refresh"}) /\ new.task = req.task
      /\ \A d \in new.detail : d \in req.detail \/ d = Detail(req.task)
  BY <1>3, <1>4, DetailReads, EventsRead
<1>6. refreshes' \subseteq Requests({"refresh"}) /\ Alone' /\ busy' \in BOOLEAN /\ queued' \in BOOLEAN
  BY <1>2, <1>3, <1>4, <1>5 DEF Alone, TypeOK
<1>7. /\ ui' \in Screen /\ ui'.id = ui.id /\ cursorRef' \in 0..MaxEvents /\ faults' \in 0..MaxFaults
      /\ raced' \subseteq {"split", "failed", "inverted"} /\ ui'.shown = ui.shown
  BY <1>2, <1>3 DEF TypeOK
<1>8. \A n \in refreshes' : n.task = req.task
                             /\ \A d \in n.detail : d \in req.detail \/ d = Detail(req.task)
  BY <1>4, <1>5
<1> QED
  BY <1>2, <1>6, <1>7, <1>8, RefreshKeeps

LEMMA RefreshAnswersKeep ==
    ASSUME Inv, RefreshAnswers
    PROVE  Inv' /\ Advances
<1>1. PICK req \in refreshes :
         /\ Answered(req)
         /\ IF view.id # req.task
              THEN EndRefresh(req, cursorRef) /\ UNCHANGED <<ui, cursorRef, raced>>
              ELSE /\ ui' = [ui EXCEPT !.shown = DetailOf(req), !.cursor = NextOf(req).next]
                   /\ cursorRef' = NextOf(req).next
                   /\ raced' = raced \cup Split(req)
                   /\ EndRefresh(req, NextOf(req).next)
  BY DEF RefreshAnswers
<1>2. UNCHANGED <<logVars, view, conn, asks, asked, faults>>
  BY DEF RefreshAnswers
<1>3. TypeOK /\ ui \in Screen /\ cursorRef \in 0..MaxEvents
  BY DEF Inv, TypeOK
<1>4. req \in Requests({"refresh"}) /\ req.kind = "refresh"
  BY <1>3 DEF TypeOK, Requests
<1>5. /\ DetailOf(req) \in req.detail /\ DetailOf(req) \in Details
      /\ NextOf(req).next \in 0..MaxEvents /\ Split(req) \subseteq {"split"}
  BY <1>1, <1>4, AnswerTyped
<1>6. PICK cursor \in 0..MaxEvents : EndRefresh(req, cursor)
  BY <1>1, <1>3, <1>5
<1>7. /\ refreshes' \subseteq Requests({"refresh"})
      /\ busy' \in BOOLEAN /\ queued' \in BOOLEAN /\ Alone'
      /\ \A new \in refreshes' : new.task = req.task /\ new.detail = {}
  BY <1>6, RefreshEnds
<1>8. /\ ui' \in Screen /\ ui'.id = ui.id /\ cursorRef' \in 0..MaxEvents
      /\ ui'.shown = ui.shown \/ ui'.shown \in req.detail
      /\ raced' \subseteq {"split", "failed", "inverted"}
  <2>1. CASE view.id # req.task
    BY <1>1, <1>3, <2>1 DEF TypeOK
  <2>2. CASE view.id = req.task
    <3>1. /\ ui' = [ui EXCEPT !.shown = DetailOf(req), !.cursor = NextOf(req).next]
          /\ cursorRef' = NextOf(req).next /\ raced' = raced \cup Split(req)
      BY <1>1, <2>2
    <3>2. ui' \in Screen /\ ui'.id = ui.id /\ ui'.shown = DetailOf(req)
      BY <1>3, <1>5, <3>1 DEF Screen
    <3> QED
      BY <1>3, <1>5, <3>1, <3>2 DEF TypeOK
  <2> QED
    BY <2>1, <2>2
<1>9. faults' \in 0..MaxFaults
  BY <1>2, <1>3 DEF TypeOK
<1> QED
  BY <1>2, <1>7, <1>8, <1>9, RefreshKeeps

LEMMA RefreshFailsKeeps ==
    ASSUME Inv, RefreshFails
    PROVE  Inv' /\ Advances
<1>1. PICK req \in refreshes : EndRefresh(req, cursorRef)
  BY DEF RefreshFails
<1>2. /\ UNCHANGED <<logVars, ui, view, cursorRef, conn, asks, asked>>
      /\ faults < MaxFaults /\ faults' = faults + 1 /\ raced' = raced \cup {"failed"}
  BY DEF RefreshFails
<1>3. /\ ui \in Screen /\ cursorRef \in 0..MaxEvents /\ faults \in 0..MaxFaults
      /\ raced \subseteq {"split", "failed", "inverted"}
  BY DEF Inv, TypeOK
<1>4. /\ refreshes' \subseteq Requests({"refresh"})
      /\ busy' \in BOOLEAN /\ queued' \in BOOLEAN /\ Alone'
      /\ \A new \in refreshes' : new.task = req.task /\ new.detail = {}
  BY <1>1, <1>3, RefreshEnds
<1>5. /\ ui' \in Screen /\ ui'.id = ui.id /\ ui'.shown = ui.shown
      /\ cursorRef' \in 0..MaxEvents /\ faults' \in 0..MaxFaults
      /\ raced' \subseteq {"split", "failed", "inverted"}
  BY <1>2, <1>3
<1> QED
  BY <1>2, <1>4, <1>5, RefreshKeeps
\* What the user's requests do to the rest of the state: nothing, or they show
\* their answer.
AskTyped == asks' \in [1..MaxAsks -> Requests({"hydrate", "rerun", "edit"}) \cup {NoRequest}]

LEMMA AskKeeps ==
    ASSUME Inv, Ask
    PROVE  Inv' /\ Advances
<1>1. /\ UNCHANGED <<logVars, ui, view, cursorRef, conn, refreshVars, faults, raced>>
      /\ asked < MaxAsks /\ view.shown # Nothing /\ asked' = asked + 1
  BY DEF Ask
<1>2. PICK req \in {Request("hydrate", t, 0) : t \in Tasks}
                     \cup {Request("rerun", t, 0) : t \in Tasks \ {view.shown.task}}
                     \cup {Request("edit", view.shown.task, 0)} :
         asks' = [asks EXCEPT ![asked + 1] = req]
  BY DEF Ask
<1>3. TypeOK /\ LogInv /\ Alone /\ Wired
  BY DEF Inv
<1>4. view.shown.task \in Tasks
  BY <1>1, <1>3 DEF TypeOK, Screen, Details
<1>5. req \in Requests({"hydrate", "rerun", "edit"})
  BY <1>2, <1>4 DEF Request, Requests
<1>6. asked' \in 2..MaxAsks
  BY <1>1, <1>3 DEF TypeOK
<1>7. AskTyped
  BY <1>2, <1>3, <1>5 DEF TypeOK, AskTyped
<1>8. LogInv' /\ Wired' /\ Alone'
  BY <1>1, <1>3, SameLog DEF Wired, Alone, refreshVars
<1>9. TypeOK'
  BY <1>1, <1>3, <1>6, <1>7, <1>8 DEF TypeOK, LogInv, AskTyped, refreshVars
<1> QED
  BY <1>6, <1>8, <1>9 DEF Inv, Watching, Advances

LEMMA AskReadsKeep ==
    ASSUME Inv, NEW a \in 1..MaxAsks, AskReads(a)
    PROVE  Inv' /\ Advances
<1>1. UNCHANGED <<logVars, ui, view, cursorRef, conn, refreshVars, asked, faults, raced>>
  BY DEF AskReads
<1>2. /\ asks' = [asks EXCEPT ![a] = WithDetail(asks[a])] \/ asks' = [asks EXCEPT ![a] = WithEvents(asks[a])]
      /\ asks[a].kind # "none"
  BY DEF AskReads, WantsDetail, WantsEvents
<1>3. TypeOK /\ LogInv /\ LogTypeOK /\ Alone /\ Wired /\ Watching
  BY DEF Inv, LogInv
<1>4. asks \in [1..MaxAsks -> Requests({"hydrate", "rerun", "edit"}) \cup {NoRequest}]
  BY <1>3 DEF TypeOK
<1>5. asks[a] \in Requests({"hydrate", "rerun", "edit"})
  BY <1>2, <1>4 DEF NoRequest, Request
<1>6. PICK new \in {WithDetail(asks[a]), WithEvents(asks[a])} : asks' = [asks EXCEPT ![a] = new]
  BY <1>2
<1>7. /\ new \in Requests({"hydrate", "rerun", "edit"})
      /\ new.kind = asks[a].kind /\ new.task = asks[a].task
      /\ \A d \in new.detail : d \in asks[a].detail \/ d = Detail(asks[a].task)
  BY <1>3, <1>5, <1>6, DetailReads, EventsRead
<1>8. AskTyped /\ asks'[a] = new /\ \A b \in 1..MaxAsks \ {a} : asks'[b] = asks[b]
  BY <1>4, <1>6, <1>7 DEF AskTyped
<1>9. LogInv' /\ Wired' /\ Alone'
  BY <1>1, <1>3, SameLog DEF Wired, Alone, refreshVars
<1>10. TypeOK'
  BY <1>1, <1>3, <1>8, <1>9 DEF TypeOK, LogInv, AskTyped, refreshVars
<1>11. ASSUME asked' = 1 PROVE Booting' /\ Follows' /\ Newer'
  <2>1. Booting /\ Follows /\ Newer
    BY <1>1, <1>3, <1>11 DEF Watching
  <2>2. a = 1 /\ asks[1].kind = "hydrate" /\ asks[1].task = Latest
    BY <1>2, <2>1 DEF Booting
  <2>3. Detail(Latest).ver = row[Latest].ver /\ row[Latest].ver \in Nat
    BY <1>3, DetailTyped DEF LogTypeOK, Row
  <2>4. /\ asks'[1].kind = "hydrate" /\ asks'[1].task = Latest
        /\ \A d \in asks'[1].detail : d.ver <= row[Latest].ver
    BY <1>7, <1>8, <2>1, <2>2, <2>3 DEF Booting
  <2>5. \A b \in 2..MaxAsks : asks'[b].kind = "none"
    BY <1>8, <2>1, <2>2 DEF Booting
  <2>6. Booting'
    BY <1>1, <2>1, <2>2, <2>4, <2>5 DEF Booting, logVars, refreshVars
  <2>7. Follows' /\ Newer'
    BY <1>1, <2>1 DEF Follows, Newer, logVars, refreshVars
  <2> QED
    BY <2>6, <2>7
<1>12. Advances
  <2>1. ui.shown.ver \in Nat
    BY <1>3 DEF TypeOK, Screen, Details, Nothing
  <2> QED
    BY <1>1, <2>1 DEF Advances
<1> QED
  BY <1>9, <1>10, <1>11, <1>12 DEF Inv, Watching

LEMMA AskAnswersKeep ==
    ASSUME Inv, NEW a \in 1..MaxAsks, AskAnswers(a)
    PROVE  Inv' /\ Advances
<1> DEFINE req == asks[a]
<1>1. /\ UNCHANGED <<logVars, view, cursorRef, conn, refreshVars, asked, faults>>
      /\ asks' = [asks EXCEPT ![a] = NoRequest] /\ Answered(req)
  BY DEF AskAnswers
<1>2. \/ /\ req.kind = "hydrate"
         /\ ui' = [id |-> req.task, shown |-> DetailOf(req),
                   cursor |-> NextOf(req).next, mode |-> "streaming"]
         /\ raced' = raced \cup Split(req)
      \/ /\ req.kind = "rerun"
         /\ ui' = [id |-> req.task, shown |-> DetailOf(req), cursor |-> 0, mode |-> "streaming"]
         /\ UNCHANGED raced
      \/ /\ req.kind = "edit"
         /\ ui' = [ui EXCEPT !.shown = DetailOf(req)]
         /\ UNCHANGED raced
  BY DEF AskAnswers
<1>3. TypeOK /\ LogInv /\ Alone /\ Wired /\ Watching
  BY DEF Inv
<1>4. /\ asks \in [1..MaxAsks -> Requests({"hydrate", "rerun", "edit"}) \cup {NoRequest}]
      /\ ui \in Screen /\ raced \subseteq {"split", "failed", "inverted"}
  BY <1>3 DEF TypeOK
<1>5. req \in Requests({"hydrate", "rerun", "edit"}) /\ req.task \in Tasks
  BY <1>1, <1>4 DEF Answered, NoRequest, Request, Requests
<1>6. /\ DetailOf(req) \in req.detail /\ DetailOf(req) \in Details
      /\ req.kind = "hydrate" => NextOf(req).next \in 0..MaxEvents
      /\ Split(req) \subseteq {"split"}
  BY <1>1, <1>5, AnswerTyped
<1> HIDE DEF req
<1>7. ui' \in Screen /\ raced' \subseteq {"split", "failed", "inverted"}
  <2>1. CASE req.kind = "hydrate"
    BY <1>2, <1>4, <1>5, <1>6, <2>1 DEF Screen
  <2>2. CASE req.kind = "rerun"
    BY <1>2, <1>4, <1>5, <1>6, <2>2 DEF Screen
  <2>3. CASE req.kind = "edit"
    BY <1>2, <1>4, <1>5, <1>6, <2>3 DEF Screen
  <2> QED
    BY <1>2, <2>1, <2>2, <2>3
<1>8. AskTyped /\ asks'[a] = NoRequest /\ \A b \in 1..MaxAsks \ {a} : asks'[b] = asks[b]
  BY <1>1, <1>4 DEF AskTyped
<1>9. LogInv' /\ Wired' /\ Alone'
  BY <1>1, <1>3, SameLog DEF Wired, Alone, refreshVars
<1>10. TypeOK'
  BY <1>1, <1>3, <1>7, <1>8, <1>9 DEF TypeOK, LogInv, AskTyped, refreshVars
<1>11. ASSUME asked' = 1 PROVE Booting' /\ Follows' /\ Newer' /\ ui'.shown.ver >= ui.shown.ver
  <2>1. Booting /\ Follows /\ Newer
    BY <1>1, <1>3, <1>11 DEF Watching
  <2>2. a = 1 /\ req.kind = "hydrate"
    BY <1>2, <2>1 DEF Booting, req
  <2>3. /\ req.task = Latest /\ DetailOf(req).ver <= row[Latest].ver
        /\ ui.shown = Nothing /\ view = ui /\ ui.id = NoTask /\ refreshes = {}
    BY <1>6, <2>1, <2>2 DEF Booting, req
  <2>4. ui'.id = Latest /\ ui'.shown = DetailOf(req)
    BY <1>2, <2>2, <2>3
  <2>5. DetailOf(req).ver >= 0
    BY <1>6 DEF Details
  <2>6. asks'[1].kind = "none"
    BY <1>8, <2>2 DEF NoRequest, Request
  <2>7. Booting'
    BY <1>8, <2>1, <2>2, <2>6 DEF Booting
  <2>8. Follows' /\ Newer'
    BY <1>1, <2>1, <2>3, <2>4 DEF Follows, Newer, logVars, refreshVars
  <2> QED
    BY <2>3, <2>4, <2>5, <2>7, <2>8 DEF Nothing
<1> QED
  BY <1>9, <1>10, <1>11 DEF Inv, Watching, Advances

LEMMA AskFailsKeeps ==
    ASSUME Inv, NEW a \in 1..MaxAsks, AskFails(a)
    PROVE  Inv' /\ Advances
<1>1. /\ UNCHANGED <<logVars, ui, view, cursorRef, conn, refreshVars, asked, raced>>
      /\ asks' = [asks EXCEPT ![a] = NoRequest] /\ faults < MaxFaults /\ faults' = faults + 1
  BY DEF AskFails
<1>2. TypeOK /\ LogInv /\ Alone /\ Wired /\ Watching
  BY DEF Inv
<1>3. AskTyped /\ asks'[a] = NoRequest /\ \A b \in 1..MaxAsks \ {a} : asks'[b] = asks[b]
  BY <1>1, <1>2 DEF TypeOK, AskTyped
<1>4. LogInv' /\ Wired' /\ Alone'
  BY <1>1, <1>2, SameLog DEF Wired, Alone, refreshVars
<1>5. faults' \in 0..MaxFaults
  BY <1>1, <1>2 DEF TypeOK
<1>6. TypeOK'
  BY <1>1, <1>2, <1>3, <1>4, <1>5 DEF TypeOK, LogInv, AskTyped, refreshVars
<1>7. ASSUME asked' = 1 PROVE Booting' /\ Follows' /\ Newer'
  <2>1. Booting /\ Follows /\ Newer
    BY <1>1, <1>2, <1>7 DEF Watching
  <2>2. NoRequest.kind = "none"
    BY DEF NoRequest, Request
  <2>3. Booting'
    BY <1>1, <1>3, <2>1, <2>2 DEF Booting, logVars, refreshVars
  <2>4. Follows' /\ Newer'
    BY <1>1, <2>1 DEF Follows, Newer, logVars, refreshVars
  <2> QED
    BY <2>3, <2>4
<1>8. Advances
  <2>1. ui.shown.ver \in Nat
    BY <1>2 DEF TypeOK, Screen, Details, Nothing
  <2> QED
    BY <1>1, <2>1 DEF Advances
<1> QED
  BY <1>4, <1>6, <1>7, <1>8 DEF Inv, Watching

LEMMA ServerKeeps ==
    ASSUME Inv, Server
    PROVE  Inv' /\ Advances
<1>1. /\ UNCHANGED <<ui, view, cursorRef, conn, refreshVars, asks, asked, faults>>
      /\ LogNext /\ raced' = raced \cup Inverted
  BY DEF Server
<1>2. TypeOK /\ LogInv /\ Alone /\ Wired /\ Watching
  BY DEF Inv
<1>3. LogInv' /\ RowsAdvance /\ LogTypeOK' /\ LogTypeOK
  BY <1>1, <1>2, LogKeeps DEF LogInv
<1>4. raced' \subseteq {"split", "failed", "inverted"}
  BY <1>1, <1>2 DEF TypeOK, Inverted
<1>5. TypeOK' /\ Alone' /\ Wired'
  BY <1>1, <1>2, <1>3, <1>4 DEF TypeOK, Alone, Wired, refreshVars
<1>6. ui.shown.ver \in Nat
  BY <1>2 DEF TypeOK, Screen, Details, Nothing
<1>7. ASSUME asked' = 1 PROVE Booting' /\ Follows' /\ Newer'
  <2>1. Booting /\ Follows /\ Newer
    BY <1>1, <1>2, <1>7 DEF Watching
  <2>2. row[Latest].ver \in Nat /\ row'[Latest].ver \in Nat /\ row[Latest].ver <= row'[Latest].ver
    BY <1>3 DEF LogTypeOK, Row, RowsAdvance
  <2>3. asks[1].detail \subseteq Details /\ \A req \in refreshes : req.detail \subseteq Details
    BY <1>2 DEF TypeOK, Requests, NoRequest, Request
  <2>4. \A d \in Details : d.ver \in Nat
    BY DEF Details
  <2>5. Booting'
    BY <1>1, <2>1, <2>2, <2>3, <2>4 DEF Booting, refreshVars
  <2>6. Newer'
    BY <1>1, <1>6, <2>1, <2>2, <2>3, <2>4 DEF Newer, refreshVars
  <2>7. Follows'
    BY <1>1, <2>1 DEF Follows, refreshVars
  <2> QED
    BY <2>5, <2>6, <2>7
<1> QED
  BY <1>1, <1>3, <1>5, <1>6, <1>7 DEF Inv, Watching, Advances

LEMMA InitHolds == Init => Inv
<1> SUFFICES ASSUME Init PROVE Inv
  OBVIOUS
<1>1. /\ row = [t \in Tasks |-> [ver |-> 0, ended |-> FALSE]] /\ log = {} /\ nextId = 1 /\ open = {}
  BY DEF Init, LogInit
<1>2. /\ ui = [id |-> NoTask, shown |-> Nothing, cursor |-> 0, mode |-> "streaming"]
      /\ view = ui /\ cursorRef = 0 /\ conn = Closed /\ refreshes = {} /\ busy = FALSE
      /\ queued = FALSE /\ asked = 1 /\ faults = 0 /\ raced = {}
      /\ asks = [a \in 1..MaxAsks |->
                   IF a = 1 THEN Request("hydrate", Latest, 0) ELSE NoRequest]
  BY DEF Init
<1>3. \A t \in Tasks : row[t] \in Row /\ row[t].ver = 0
  BY <1>1 DEF Row
<1>4. LogInv
  <2>1. row \in [Tasks -> Row]
    BY <1>1 DEF Row
  <2> QED
    BY <1>1, <2>1 DEF LogInv, LogTypeOK, Locked
<1>5. asks \in [1..MaxAsks -> Requests({"hydrate", "rerun", "edit"}) \cup {NoRequest}]
  <2>1. Request("hydrate", Latest, 0) \in Requests({"hydrate", "rerun", "edit"})
    BY DEF Request, Requests
  <2> QED
    BY <1>2, <2>1
<1>6. /\ asks[1] = Request("hydrate", Latest, 0)
      /\ \A a \in 2..MaxAsks : asks[a] = NoRequest
  BY <1>2
<1>7. ui \in Screen /\ ui.id = NoTask /\ ui.shown = Nothing /\ Nothing.ver = 0
  BY <1>2 DEF Screen, Nothing
<1>8. conn \in [task : Tasks \cup {NoTask}, since : 0..MaxEvents, sent : SUBSET (1..MaxEvents)]
      /\ conn.task = NoTask /\ conn.sent = {}
  BY <1>2 DEF Closed
<1>9. TypeOK
  <2>1. /\ view \in Screen /\ cursorRef \in 0..MaxEvents /\ asked \in 1..MaxAsks
        /\ faults \in 0..MaxFaults
    <3>1. MaxEvents \in Nat /\ MaxAsks \in Nat \ {0} /\ MaxFaults \in Nat
      OBVIOUS
    <3>2. cursorRef = 0 /\ asked = 1 /\ faults = 0 /\ view = ui
      BY <1>2
    <3> QED
      BY <1>7, <3>1, <3>2
  <2>2. busy \in BOOLEAN /\ queued \in BOOLEAN
    BY <1>2
  <2>3. refreshes \subseteq Requests({"refresh"}) /\ raced \subseteq {"split", "failed", "inverted"}
    BY <1>2
  <2>4. LogTypeOK
    BY <1>4 DEF LogInv
  <2> QED
    BY <1>5, <1>7, <1>8, <2>1, <2>2, <2>3, <2>4 DEF TypeOK
<1>10. Alone /\ Wired
  BY <1>2, <1>8 DEF Alone, Wired
<1>11. Booting
  BY <1>2, <1>6, <1>7 DEF Booting, Request, NoRequest
<1>12. Follows /\ Newer
  BY <1>2, <1>3, <1>7 DEF Follows, Newer
<1> QED
  BY <1>4, <1>9, <1>10, <1>11, <1>12 DEF Inv, Watching

LEMMA NextKeeps == Inv /\ [Next]_vars => Inv' /\ (Advances \/ UNCHANGED vars)
<1> SUFFICES ASSUME Inv, [Next]_vars PROVE Inv' /\ (Advances \/ UNCHANGED vars)
  OBVIOUS
<1>1. CASE UNCHANGED vars
  <2>1. LogInv'
    BY <1>1, SameLog DEF Inv, vars
  <2>2. TypeOK' /\ Alone' /\ Wired' /\ Watching'
    BY <1>1, <2>1 DEF Inv, LogInv, TypeOK, Alone, Wired, Watching, Booting, Follows, Newer,
                      vars, logVars, clientVars, refreshVars
  <2> QED
    BY <1>1, <2>1, <2>2 DEF Inv
<1>2. CASE Server
  BY <1>2, ServerKeeps
<1>3. CASE Client
  BY <1>3, RenderKeeps, PollKeeps, ReceiveKeeps, BreakKeeps, IntervalKeeps, RefreshReadsKeep,
     RefreshAnswersKeep, RefreshFailsKeeps, AskKeeps, AskReadsKeep, AskAnswersKeep, AskFailsKeeps
     DEF Client
<1> QED
  BY <1>1, <1>2, <1>3 DEF Next

LEMMA Invariance == Spec => []Inv
<1>1. Inv /\ [Next]_vars => Inv'
  BY NextKeeps
<1> QED
  BY InitHolds, <1>1, PTL DEF Spec

\* Types: whatever the server commits and whatever answers race, the log, the
\* React state, the refs and the requests of useWorkbenchState keep theirs.
THEOREM ClientTypes == Spec => []TypeOK
<1>1. Inv => TypeOK
  BY DEF Inv
<1> QED
  BY <1>1, Invariance, PTL

\* A tab that only watches never goes back to an older state of its task.
THEOREM WatcherNeverGoesBack == Spec => ShownAdvances
<1>1. Inv /\ [Next]_vars => [asked' = 1 => ui'.shown.ver >= ui.shown.ver]_vars
  BY NextKeeps DEF Advances
<1> QED
  BY <1>1, Invariance, PTL DEF Spec, ShownAdvances
=============================================================================
