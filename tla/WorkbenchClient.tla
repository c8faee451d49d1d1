-------------------------- MODULE WorkbenchClient --------------------------
(***************************************************************************)
(* One browser tab that follows a task: useWorkbenchState, the stream hook *)
(* and the SSE endpoint, over the event log.                               *)
(*                                                                         *)
(* `ui` is the React state with every queued setState applied, `view` the  *)
(* state of the last render, whose effects have run: activeTaskIdRef is    *)
(* view.id, and the stream and the polling interval are those of `view`.   *)
(* An answer that arrives between the two sees the refs of the old render. *)
(* The two GETs of a refresh are separate requests, read in any order.     *)
(***************************************************************************)
EXTENDS EventLog

CONSTANTS
    NoTask,   \* no task: null
    Latest,   \* the session's latest task, which is hydrated when the tab starts
    MaxAsks,  \* bound on the user's requests, the first of which is the boot's
    MaxFaults \* bound on failed requests and broken connections

ASSUME TaskAssumption == Latest \in Tasks /\ NoTask \notin Tasks
ASSUME BoundsAssumption == MaxAsks \in Nat \ {0} /\ MaxFaults \in Nat

VARIABLES
    ui, view,  \* [id, shown, cursor, mode]
    cursorRef, \* streamCursorRef.current
    conn,      \* the EventSource and the generator that feeds it
    refreshes, \* the calls of refreshTaskState whose answers are awaited
    busy,      \* refreshInFlightRef.current
    queued,    \* refreshQueuedRef.current
    asks,      \* the user's requests: hydrate, rerun, edit
    asked, faults,
    raced      \* history: why the screen may have lost the task for good

refreshVars == <<refreshes, busy, queued>>
clientVars == <<ui, view, cursorRef, conn, refreshVars, asks, asked, faults, raced>>
vars == <<logVars, clientVars>>

Nothing == [task |-> NoTask, ver |-> 0, ended |-> FALSE]
Detail(t) == [task |-> t, ver |-> row[t].ver, ended |-> row[t].ended]
Details == [task : Tasks, ver : Nat, ended : BOOLEAN]

\* A request of detail and events: what it has read, and the version the
\* events were read at.
Request(kind, t, since) ==
    [kind |-> kind, task |-> t, since |-> since, detail |-> {}, events |-> {}]
NoRequest == Request("none", NoTask, 0)
Read == [next : 0..MaxEvents, ver : Nat]

\* `sent` is what waits in the connection: ids that increase, so the least is
\* delivered next.
Closed == [task |-> NoTask, since |-> 0, sent |-> {}]

Init ==
    /\ LogInit
    /\ ui = [id |-> NoTask, shown |-> Nothing, cursor |-> 0, mode |-> "streaming"]
    /\ view = ui
    /\ cursorRef = 0
    /\ conn = Closed
    /\ refreshes = {}
    /\ busy = FALSE
    /\ queued = FALSE
    /\ asks = [a \in 1..MaxAsks |->
                 IF a = 1 THEN Request("hydrate", Latest, 0) ELSE NoRequest]
    /\ asked = 1
    /\ faults = 0
    /\ raced = {}
-----------------------------------------------------------------------------
\* The GETs of a request: the task's detail, and for a refresh or a hydration
\* its events, each read in a transaction of its own.
WantsDetail(req) == req.kind # "none" /\ req.detail = {}
WantsEvents(req) == req.kind \in {"refresh", "hydrate"} /\ req.events = {}
Answered(req) == req.kind # "none" /\ ~WantsDetail(req) /\ ~WantsEvents(req)

WithDetail(req) == [req EXCEPT !.detail = {Detail(req.task)}]
WithEvents(req) ==
    [req EXCEPT !.events = {[next |-> NextCursor(req.task, req.since),
                             ver |-> row[req.task].ver]}]

DetailOf(req) == CHOOSE d \in req.detail : TRUE
NextOf(req) == CHOOSE e \in req.events : TRUE

\* The detail is older than the events whose cursor is taken over with it.
Split(req) == IF DetailOf(req).ver < NextOf(req).ver THEN {"split"} ELSE {}

MutantOverlap(t, cursor) ==
    /\ busy' = TRUE
    /\ refreshes' = refreshes \cup {Request("refresh", t, cursor)}
    /\ UNCHANGED queued

MutantDropped(t, cursor) ==
    IF busy THEN UNCHANGED refreshVars
            ELSE /\ busy' = TRUE
                 /\ refreshes' = refreshes \cup {Request("refresh", t, cursor)}
                 /\ UNCHANGED queued

\* refreshTaskState(t): one at a time, a second one waits for the first.
StartRefresh(t, cursor) ==
    IF busy
      THEN queued' = TRUE /\ UNCHANGED <<refreshes, busy>>
      ELSE /\ busy' = TRUE
           /\ refreshes' = refreshes \cup {Request("refresh", t, cursor)}
           /\ UNCHANGED queued

\* The finally block: a queued refresh runs, for the task of the one that ends.
EndRefresh(req, cursor) ==
    /\ refreshes' = (refreshes \ {req})
                      \cup IF queued THEN {Request("refresh", req.task, cursor)} ELSE {}
    /\ busy' = queued
    /\ queued' = FALSE
-----------------------------------------------------------------------------
\* The stream is open while the rendered task runs and nothing broke it.
Streams(v) == v.mode = "streaming" /\ v.id # NoTask /\ ~v.shown.ended

\* A render and its effects: refs follow the state, and the stream is opened
\* or closed when its dependencies, the task and `enabled`, change.
Render ==
    /\ ui # view
    /\ view' = ui
    /\ cursorRef' = IF ui.cursor # view.cursor THEN ui.cursor ELSE cursorRef
    /\ conn' = IF Streams(ui) = Streams(view) /\ ui.id = view.id THEN conn
               ELSE IF Streams(ui)
                 THEN [task |-> ui.id, since |-> ui.cursor, sent |-> {}]
               ELSE Closed
    /\ UNCHANGED <<logVars, ui, refreshVars, asks, asked, faults, raced>>

\* One turn of _event_iter: what is committed above local_since, in id order.
ServerPoll ==
    /\ conn.task # NoTask
    /\ EventsSince(conn.task, conn.since) # {}
    /\ conn' = [conn EXCEPT !.since = NextCursor(conn.task, @),
                            !.sent = @ \cup {e.id : e \in EventsSince(conn.task, conn.since)}]
    /\ UNCHANGED <<logVars, ui, view, cursorRef, refreshVars, asks, asked, faults, raced>>

\* onEvent: an event at or below the cursor is ignored, any other moves it and
\* asks for a refresh of the task the stream belongs to.
Receive ==
    /\ \E id \in conn.sent :
         /\ \A other \in conn.sent : id <= other
         /\ conn' = [conn EXCEPT !.sent = @ \ {id}]
         /\ IF id <= cursorRef THEN UNCHANGED <<ui, cursorRef, refreshVars>>
            ELSE /\ ui' = [ui EXCEPT !.cursor = id]
                 /\ cursorRef' = id
                 /\ StartRefresh(view.id, id)
    /\ UNCHANGED <<logVars, view, asks, asked, faults, raced>>

\* onError closes the EventSource for good and falls back to polling.
StreamBreaks ==
    /\ conn.task # NoTask
    /\ faults < MaxFaults
    /\ faults' = faults + 1
    /\ conn' = Closed
    /\ ui' = [ui EXCEPT !.mode = "fallback_polling"]
    /\ UNCHANGED <<logVars, view, cursorRef, refreshVars, asks, asked, raced>>

\* Mutant: the interval lives as long as the stream.
MutantPoll ==
    /\ conn.task # NoTask
    /\ view.mode = "fallback_polling"
    /\ ~view.shown.ended
    /\ StartRefresh(view.id, cursorRef)
    /\ UNCHANGED <<logVars, ui, view, cursorRef, conn, asks, asked, faults, raced>>

\* The interval of the rendered state fires.
Poll ==
    /\ view.id # NoTask
    /\ view.mode = "fallback_polling"
    /\ ~view.shown.ended
    /\ StartRefresh(view.id, cursorRef)
    /\ UNCHANGED <<logVars, ui, view, cursorRef, conn, asks, asked, faults, raced>>

RefreshReads ==
    /\ \E req \in refreshes :
         \/ /\ WantsDetail(req)
            /\ refreshes' = (refreshes \ {req}) \cup {WithDetail(req)}
         \/ /\ WantsEvents(req)
            /\ refreshes' = (refreshes \ {req}) \cup {WithEvents(req)}
    /\ UNCHANGED <<logVars, ui, view, cursorRef, conn, busy, queued, asks, asked, faults, raced>>

\* Both answers are there: they are shown unless another task was selected.
\* The cursor becomes the one of the answer, also when it is lower.
RefreshAnswers ==
    /\ \E req \in refreshes :
         /\ Answered(req)
         /\ IF view.id # req.task
              THEN EndRefresh(req, cursorRef) /\ UNCHANGED <<ui, cursorRef, raced>>
              ELSE /\ ui' = [ui EXCEPT !.shown = DetailOf(req), !.cursor = NextOf(req).next]
                   /\ cursorRef' = NextOf(req).next
                   /\ raced' = raced \cup Split(req)
                   /\ EndRefresh(req, NextOf(req).next)
    /\ UNCHANGED <<logVars, view, conn, asks, asked, faults>>

\* A request of the refresh fails: it is reported, and not repeated.
RefreshFails ==
    /\ faults < MaxFaults
    /\ faults' = faults + 1
    /\ \E req \in refreshes : EndRefresh(req, cursorRef)
    /\ raced' = raced \cup {"failed"}
    /\ UNCHANGED <<logVars, ui, view, cursorRef, conn, asks, asked>>
-----------------------------------------------------------------------------
\* The user selects a task in the history or sends a message about one
\* (hydrate), reruns the task shown, or saves, approves or rejects its plan.
Ask ==
    /\ asked < MaxAsks
    /\ view.shown # Nothing
    /\ asked' = asked + 1
    /\ \E req \in {Request("hydrate", t, 0) : t \in Tasks}
                    \cup {Request("rerun", t, 0) : t \in Tasks \ {view.shown.task}}
                    \cup {Request("edit", view.shown.task, 0)} :
         asks' = [asks EXCEPT ![asked + 1] = req]
    /\ UNCHANGED <<logVars, ui, view, cursorRef, conn, refreshVars, faults, raced>>

AskReads(a) ==
    /\ \/ WantsDetail(asks[a]) /\ asks' = [asks EXCEPT ![a] = WithDetail(@)]
       \/ WantsEvents(asks[a]) /\ asks' = [asks EXCEPT ![a] = WithEvents(@)]
    /\ UNCHANGED <<logVars, ui, view, cursorRef, conn, refreshVars, asked, faults, raced>>

\* Nothing compares an answer with what was selected or shown meanwhile.
AskAnswers(a) ==
    /\ Answered(asks[a])
    /\ \/ /\ asks[a].kind = "hydrate"
          /\ ui' = [id |-> asks[a].task, shown |-> DetailOf(asks[a]),
                    cursor |-> NextOf(asks[a]).next, mode |-> "streaming"]
          /\ raced' = raced \cup Split(asks[a])
       \/ /\ asks[a].kind = "rerun"
          /\ ui' = [id |-> asks[a].task, shown |-> DetailOf(asks[a]),
                    cursor |-> 0, mode |-> "streaming"]
          /\ UNCHANGED raced
       \/ /\ asks[a].kind = "edit"
          /\ ui' = [ui EXCEPT !.shown = DetailOf(asks[a])]
          /\ UNCHANGED raced
    /\ asks' = [asks EXCEPT ![a] = NoRequest]
    /\ UNCHANGED <<logVars, view, cursorRef, conn, refreshVars, asked, faults>>

AskFails(a) ==
    /\ asks[a].kind # "none"
    /\ faults < MaxFaults
    /\ faults' = faults + 1
    /\ asks' = [asks EXCEPT ![a] = NoRequest]
    /\ UNCHANGED <<logVars, ui, view, cursorRef, conn, refreshVars, asked, raced>>
-----------------------------------------------------------------------------
\* A commit that makes an event visible below one that already was: a cursor
\* that has passed the later one never meets it.
Inverted ==
    IF \E e \in log' \ log, f \in log : f.task = e.task /\ f.id > e.id
      THEN {"inverted"} ELSE {}

Server ==
    /\ LogNext
    /\ raced' = raced \cup Inverted
    /\ UNCHANGED <<ui, view, cursorRef, conn, refreshVars, asks, asked, faults>>

Client ==
    \/ Render \/ ServerPoll \/ Receive \/ StreamBreaks \/ Poll
    \/ RefreshReads \/ RefreshAnswers \/ RefreshFails
    \/ Ask
    \/ \E a \in 1..MaxAsks : AskReads(a) \/ AskAnswers(a) \/ AskFails(a)

Next == Server \/ Client

Spec == Init /\ [][Next]_vars

\* Transactions end, requests are answered, the browser renders and its timers
\* fire.  Nothing makes the user ask, or a request or a stream break.
FairSpec ==
    /\ Spec
    /\ WF_vars(Server /\ End)
    /\ WF_vars(Render) /\ WF_vars(ServerPoll) /\ WF_vars(Receive) /\ WF_vars(Poll)
    /\ WF_vars(RefreshReads) /\ WF_vars(RefreshAnswers)
    /\ \A a \in 1..MaxAsks : WF_vars(AskReads(a)) /\ WF_vars(AskAnswers(a))
-----------------------------------------------------------------------------
Screen ==
    [id : Tasks \cup {NoTask}, shown : Details \cup {Nothing}, cursor : 0..MaxEvents,
     mode : {"streaming", "fallback_polling"}]

Requests(kinds) ==
    [kind : kinds, task : Tasks, since : 0..MaxEvents,
     detail : SUBSET Details, events : SUBSET Read]

\* The log, the React state, the refs and the requests have the values that
\* their columns and types allow: a request names a task that exists.
TypeOK ==
    /\ LogTypeOK
    /\ ui \in Screen /\ view \in Screen
    /\ cursorRef \in 0..MaxEvents
    /\ conn \in [task : Tasks \cup {NoTask}, since : 0..MaxEvents, sent : SUBSET (1..MaxEvents)]
    /\ refreshes \subseteq Requests({"refresh"})
    /\ busy \in BOOLEAN /\ queued \in BOOLEAN
    /\ asks \in [1..MaxAsks -> Requests({"hydrate", "rerun", "edit"}) \cup {NoRequest}]
    /\ asked \in 1..MaxAsks /\ faults \in 0..MaxFaults
    /\ raced \subseteq {"split", "failed", "inverted"}

Current ==
    view.shown.task = view.id /\ (view.id # NoTask => view.shown = Detail(view.id))

\* While the user only watches, the task shown never goes back to an older
\* state: refreshes do not overtake each other.
ShownAdvances ==
    [][asked' = 1 => ui'.shown.ver >= ui.shown.ver]_vars

\* While the user only watches, the screen ends up with the task's last state,
\* by its stream or by polling, after any broken stream; only a refresh that
\* failed, one that read the task before its events, or an event committed
\* below the cursor can leave it behind.
WatcherCatchesUp == <>[](Current \/ raced # {} \/ asked > 1)

\* A polling client repairs whatever races, failures and requests of the user
\* have left on the screen, as long as it shows the task that is selected and
\* refreshes of one selected before do not queue each other for ever.
PollingCatchesUp ==
    <>[](view.mode = "fallback_polling" /\ view.shown.task = view.id
           => Current \/ \E req \in refreshes : req.task # view.id)
=============================================================================
