# A TLA+ development of gis_agent

gis_agent turns a chat message into a GIS task: it understands the message,
keeps the task's specification as a line of *revisions*, has the user review an
*operation plan*, and runs the plan in a Celery worker along a LangGraph graph.
The rows in PostgreSQL are the only state that HTTP requests, workers, the
event stream and the browser share, and none of them holds a lock for longer
than one transaction. Nearly everything hard about the program lives there:
which interleavings of short transactions, stale row copies, lost messages and
dead workers leave a task in a state that makes sense.

This directory holds TLA+ modules of that behaviour, TLC configurations that
check them on small instances, and TLAPS proofs for every size. Paths below are
relative to the repository; `services/` is `packages/domain/services/`.

## 1. Inventory

| component | state | operations | talks to |
|---|---|---|---|
| Status machine (`services/task_state.py`) | none; tables of legal transitions | `set_task_status`, `set_step_status`, `force=True` | everything that changes a task or a step |
| Task approval API (`services/task_lifecycle.py`, `apps/api/routers/tasks.py`) | `task_runs`, `plan_json` | create, patch, approve, reject, rerun | Celery queue after its commit; browser |
| Worker and runtime (`apps/worker`, `services/graph/*`) | `task_steps`, `artifacts`, `plan_json`, the graph's in-memory state | parse, plan, five runtime steps, three finalizers | queue, LLM, tools, event log |
| Correction (`services/revision_handler.py`) | active revision, task status | `_apply_correction_revision` | revisions, AOI, status machine |
| Revisions (`services/task_revisions.py`) | `task_spec_revisions`, mirror in `task_specs` | lazy backfill, create, activate | row lock on the task, session memory |
| Session memory (`services/session_memory*.py`, `session_queries.py`) | events, one snapshot row per session, links, summaries | `record_event`, `refresh_snapshot`, retrieval | activation, understanding, context |
| Message orchestration (`services/orchestrator.py`, `message_handler.py`, `upload_handler.py`) | messages, understandings | route a message to chat, confirmation, correction or a new task; store how it was understood | all of the above |
| Message stream (`apps/api/routers/messages.py`) | a thread, a queue | stream the reply to one message | orchestration, LLM client, browser |
| Events and their stream (`services/task_events.py`, `routers/tasks.py`) | `task_events` | append, read after a cursor, SSE poll | worker, browser |
| Workbench client (`apps/web/src/hooks`) | selected task, cursor, stream or polling | refresh, stream, poll, rerun, approve | tasks API, SSE |
| Planner (`services/planner.py`) | none | plan or heuristic plan; step bookkeeping | LLM, runtime |
| Plan validation (`services/plan_guard.py`, `operation_registry.py`) | none | `validate_operation_plan` | approve, patch, runtime |
| Plan building (`services/operation_plan_builder.py`, `upload_handler.py`) | none | build a plan from a request's operations, put the uploads' paths in | task creation, runtime |
| Pipeline (`services/processing_pipeline.py`) | files of one run | preflight, run nodes in passes | runtime |
| Response policy (`services/response_policy.py`) | none | `decide_response` | orchestration |
| Understanding, context, parser (`services/understanding.py`, `conversation_context.py`, `parser.py`, `intent.py`, `chat.py`) | none of their own | parse words to a specification, expand an intent, score every field | LLM, memory, policy |
| LLM client (`services/llm_client.py`, `llm_call_logs.py`) | call log | call, stream, retry | HTTP |
| AOI (`services/aoi.py`) | none | find the geometry an area asks for | task creation, correction |
| Catalogue, recommendation, QC, explanation | none of their own | search, scores | runtime |
| Uploads, storage, previews | files, objects | save, read, preview | API, runtime |
| Migrations (`packages/domain/migrations.py`) | schema version | bootstrap and upgrade under an advisory lock | starting processes |

What makes each of them correct, and what is hard about it:

* **Approval and runtime.** A task runs only what was approved and is not
  blocked; it leaves RUNNING; SUCCESS means outputs; an ended task stays ended;
  each submission is run once. Hard because requests check the status they
  loaded and write after slow work, because a correction forces the status,
  because workers hold row copies across tools that take minutes, because the
  message is acknowledged before the run, and because two workers can be handed
  the same task.
* **Revisions.** One line of revisions, one of them active, mirrored in
  `task_specs`; no correction of a stale revision survives; concurrent readers
  of an old task agree on revision 1; nobody waits for ever. Hard because the
  guarantees come from a unique index, a savepoint and three kinds of row locks
  together.
* **Messages.** A confirmation confirms what was asked, once; the program acts
  only on what something speaks for; a task is created in a state its life can
  start from, with the area it was asked for; what is stored about a message
  names the revision made of it. Hard because a request waits for a model
  between reading and writing, because its answer and its understanding are
  committed apart, because requests of a session overlap and name nothing but
  "the latest" message, task or revision, and because six functions write the
  row of a new task one after the other.
* **Session memory.** The snapshot points at the active revision. Hard because
  it is read and written back without a lock, twice per message.
* **Events and client.** The client ends up showing the task's last state. Hard
  because ids are assigned before commits, because the task and its events are
  read in two requests, and because a cursor decides what is ignored.
* **Message stream.** Every message of a client ends in one result or error.
  Hard because of the thread, its queue and the test that it is alive.
* **Plan validation and pipeline.** What the guard accepts, the pipeline can
  order, resolve and read as it is wired; a run ends. Sequential, and hard
  because two hand-written readings of a plan, with different orders, lists of
  keys and fallbacks, must agree.
* **LLM client.** What the user reads at the end is what is stored. Hard after
  the first streamed delta, because a retry starts from nothing.
* **Migrations.** Processes that start together upgrade once.

`PROJECT.json` lists every component with its status, and every hazard of the
code at its line with the properties that cover it or the reason none does yet.

## 2. Modules

```
TaskStatus -- TaskExecution -- TaskExecutionMC         runs task_serial, task_concurrent,
                   |                                   task_live and two findings
                   |  `-------- TaskExecutionProofs
                   |
                   | INSTANCE (a created row is one of its initial states)
                   |
TaskParser -- ResponsePolicy -- MessageIntake -- MessageIntakeMC
                                    |            runs message_intake, rerun_loses_area
                                    `----------- MessageIntakeProofs

Conversation -- ConversationMC                         run conversation
     `--------- ConversationProofs -- Extremes

MessageStream -- MessageStreamMC                       run message_stream
      `--------- MessageStreamProofs

RevisionHistory <-- refined by -- RevisionActivation -- RevisionActivationMC
                                          |             run revision_concurrent
                                          `------------ RevisionActivationProofs

EventLog -- WorkbenchClient -- WorkbenchClientMC       run client_watch
                   `---------- WorkbenchClientProofs -- Extremes

OperationPlans -- PlanGuard ---.
       `--------- PlanBuilder --- ProcessingPipeline -- ProcessingPipelineMC
                                          |             run plan_pipeline
                                          `------------ ProcessingPipelineProofs -- Extremes
```

A message goes through `MessageStream` (how its reply reaches the browser),
`Conversation` (its transactions) and `MessageIntake` (what is made of its
words); `TaskExecution` has the task from then on, `RevisionActivation` the
transactions of its revisions, `ProcessingPipeline` one step of its run, and
`WorkbenchClient` the tab that watches it.

### TaskStatus

The two transition tables of `task_state.py` as functions from a status to the
set of its successors, and the check `ensure_*_status_transition` makes. A
`force=True` change skips the check, so it is written in the action that makes
it.

### TaskExecution

One task between the requests that edit it, the queue and the workers.

| variable | code |
|---|---|
| `task` | the `task_runs` row: `status`, `plan_json` (its status, the operation plan's status and version), `current_step` |
| `spec` | the active revision and its mirror: number, `execution_blocked`, whether it asks for clarification |
| `step` | `task_steps.status` of each step |
| `artifacts` | whether the artifact rows are missing, partly there or complete |
| `req` | what each HTTP request loaded |
| `unsent`, `inbox` | submissions committed and not yet sent; messages in the broker |
| `wk` | each worker: node, loaded row copy, the revision it saw when it checked the start, `need_clarification`, whether its run has pipeline outputs |
| `granted`, `taken`, `lost`, `crashes`, `clarified` | history |

One action is one transaction, or the part of one between two slow calls. A
request or a node that loads the row, works and then flushes is two actions;
`Save` is SQLAlchemy's flush, which writes the columns whose value differs from
the loaded one and leaves the others to whoever wrote them. The nodes are
`ParseNode`, `PlanNode`/`BuildPlan`, `CheckStart`/`Start`, `LoadStep`/`React`/`ToolReturns`/
`ToolRaises`/`HandleFailure`, `Finish` and the three `Finalize*`; `wk[w].pc` is
the node the graph routes to, and the routing functions are inside the actions
that end a node. The start of a run is two actions because
`_prepare_runtime_start` checks the row it has loaded, then inserts the steps,
whose foreign key waits for a correction that has the task's row locked, and
only then writes RUNNING from its copy. Tools, models and the planner are free
choices of what they may return. `Init` is a task as `_build_task` leaves it, in four ways
(`Births`): to be approved, asking for clarification, blocked, or queued by a
rerun.

### RevisionHistory and RevisionActivation

`RevisionHistory` is what revisions promise: a current number that starts at 0,
becomes 1 by a backfill and grows by one with each correction, together with
the number of corrections behind it.

`RevisionActivation` is the code: transactions of requests that load a task
older than revisions (`load`), correct it (`correct`), or record something else
in its session's memory (`other`). `revs`, `active`, `count` and `mirror` are
the committed rows of the task and `snapshot` tells whether the session's
snapshot row is committed; `txn` is each transaction with the rows only it can
see, and `shares`, `updater` and `holder` are the row locks. The database is
part of the model as far as the code leans on it: an insert into a unique index
waits for an uncommitted duplicate and fails on a committed one; a foreign key
takes FOR KEY SHARE on the task row; `with_for_update` conflicts with it; an
update of the snapshot row holds it until the end of the transaction; and
`DeadlockVictim` is the deadlock detector.

Two details of `activate_revision` matter and are easy to overlook. The
activation of a backfill runs inside the savepoint, *including* the refresh of
the session's snapshot; and `except IntegrityError` does not ask which index
was violated. `BackfillLosesSnapshot` is that path, which fails a read. The partial unique index on `is_active` is not modelled: by
`OneActive` it has nothing to refuse.

### TaskParser, ResponsePolicy and MessageIntake

`TaskParser` is `parser.py` on the facts about a text that it distinguishes (a
`Text` is a record of them: which area the words name, a time range, a word for
a file, the operation hinted at ...): what the model's answer is normalised to,
what is enriched and what is reported missing, and the two ways without it. The
heuristics themselves, regular expressions and lists of words, are not modelled;
their outcomes are. `ResponsePolicy` has the scores of every field
(`understanding.py`), the share of the session's history in them
(`session_memory_confidence.py`) in integers, and `decide_response`.

`MessageIntake` composes them into the life of one message, one action per call
that can give different answers:

| variable | code |
|---|---|
| `uploads`, `files` | the session's uploads; the files handed to the creation of the task |
| `msg`, `intent` | the message, the answers of the two classifiers, the expanded intent |
| `spec`, `mode` | the specification parsed last and the response mode decided |
| `row` | the task row in the open transaction: specification, area, status, plan, current step, `execution_blocked` |
| `asked` | the text that a confirmation would confirm |
| `latest` | the session's latest committed task, which a follow-up is merged into, a correction changes and a rerun copies |

`Receive`, `Confirm` and `Rerun` start a request, `ParserAnswers`/`ParserFails`
parse, `Decide` answers, `Revise` is the correction of the latest task,
`Resolve` merges a follow-up, `Build` the first half of `_build_task` with the
area resolved, `Plan` the plan with `draft_plan`, `Activate` the activation of
the first revision, where an uploaded area is read, and `Commit` the commit. The
lookup of an area (`found`) is a choice among the kinds of geometry the source
allows, none and an error.

### Conversation

The requests `POST /messages` of one session, each in two transactions.

| variable | code |
|---|---|
| `msgs` | the rows of `messages` with their `message_understandings` |
| `tasks` | the session's tasks: the message whose words they are of, and the row that answers the message of each revision |
| `snap`, `holder` | the `session_state_snapshots` row, and the transaction that has updated it |
| `req` | what each request has read and decided |
| `crowded` | history: two requests have been in flight together |

`Receive` inserts the message; `Confirm`/`RefuseConfirmation` and
`CreateConfirmed` are the path of a confirmation; `Understand` reads the active
revision; `AnswerInWords`, `StartTask` and `Activate`/`Correct` end the first
transaction; `BeginRecord`/`Record` are the second one; `Stop` is an exception or
the death of the process at any point. `Written` is SQLAlchemy's flush again:
of the two columns of the snapshot that are modelled, it writes those that
differ from the loaded ones, so that overlapping requests can leave a mixture.

### MessageStream

`stream_message` of `routers/messages.py` with its worker thread and queue,
`generate_chat_reply_stream` with the retries of `llm_client.py`, and
`createMessageStream` in the browser. `puts` is everything put into the queue,
`taken` and `read` how much of it generator and tab have taken, and `shown` the
text the tab has put together from deltas (`streamedAssistant`); `worker`, `gen`
and `client` are their control points, `attempt`, `emitted` and `streamed` the
streamed call, `reply` and `stored` its text in the thread and in the database.
The generator's check that the thread is dead and its check that the queue is
empty are two actions. A delta is named by its attempt and place.

### EventLog and WorkbenchClient

`EventLog` is the `task_events` table with the task rows: `open` are the
transactions in progress, each with the ids it has drawn and the change of the
row it holds locked; `Commit` makes both visible. Ids come from one sequence at
the flush, so a transaction that reports a tool's progress has drawn ids that
nobody sees until the tool ends, while others draw and commit higher ones.

`WorkbenchClient` extends it with the SSE generator and one browser tab.

| variable | code |
|---|---|
| `ui`, `view` | the React state with its queued updates, and as last rendered: selected id, task shown, cursor, stream mode |
| `cursorRef` | `streamCursorRef.current`; `activeTaskIdRef.current` is `view.id` |
| `conn` | the EventSource: its task, the server's `local_since`, the set of ids on their way, which arrive in order |
| `refreshes`, `busy`, `queued` | calls of `refreshTaskState` awaiting answers, and its two flags |
| `asks`, `asked` | the user's requests in flight (the hydration at start, selections, reruns, edits), how many there were |
| `faults`, `raced` | history |

`Render` is a commit of React with all its effects: the refs follow the state,
and the stream is opened or closed. Between an update and its render, handlers
run against the old refs. The detail and the events of a refresh are two reads
in any order (`WantsDetail`, `WantsEvents`). Left out: intermediate renders that
apply urgent updates before those of a transition, and the event counter, which
only is displayed.

### OperationPlans, PlanGuard, PlanBuilder and ProcessingPipeline

`OperationPlans` is a plan and the registry: the types of an operation's inputs
and output, and the handful of values (paths of each type, there or not, a
GeoJSON dict, a list of four numbers, the text `bbox(...)`, a padded reference)
that the guard and the pipeline tell apart. A path has one type for the guard
(`PathType`) and one for the pipeline (`FileAt`), which opens only GeoTIFF and
GeoJSON (`Opened`): `/in.zip` stands for the vectors (`.shp`, `.gpkg`, `.kml`, `.wkt`,
`.zip`) and `/in.img` for the rasters (`.img`, `.vrt`, `.jp2`) that only the guard
takes for one. `PlanGuard` is
`validate_operation_plan` as operators: `DetectCycle` is the depth-first walk with
its two sets and the calls in progress, `TopologicalSort` the queue and its
counters. Both are iterations of one step (`WalkStep`, `SortStep`), as many times as
they can take; the children of a step are listed, and so freed, in the order of
the plan (`InPlanOrder`). `InputOk` is the chain of inputs with
`_has_external_input_fallback` and `_allows_implicit_demo_input`. `PlanBuilder` is the plan built from the
operations of a request, and the uploads' paths put into it; `RefOf` names the
reference of each step, two steps never the same one (`RefsAssumption`: the code
numbers them).

`ProcessingPipeline` composes them with the execution.

| variable | code |
|---|---|
| `plan`, `source` | the operation plan; whether it was given, built, or built with uploads |
| `phase` | how far it is: review, queue, run, or the way the run ended |
| `pending`, `visiting`, `progressed` | `pending_nodes`, what is left of `list(pending_nodes)`, and the flag of the pass |
| `completed` | the nodes that have been run, which the code has as those no longer in `pending_nodes` |
| `references` | the dict of references, in the order of its insertions |
| `made`, `reads`, `artifacts` | per node: the file it registered, the files its inputs were read from, what its export added |
| `preflighted` | history: the plan went through a review |

Actions are the review (`Approve`, which is the guard and the preflight), the
plan that a queued task without one gets (`TakeUnreviewed`: the planner's if
the guard accepts it, else a built one, which nothing validates), and one node
at a time of the pipeline. The rasters and geometries are abstracted to the
*file they come from*: the silent fallbacks of the resolvers (the first raster
registered, a demonstration raster, a default geometry) are exactly what the
properties have to see. The preflight is iterated node by node and pass by pass
(`PreflightPass`, `PreflightPasses`), so that each of its states has a name.
`PlansAssumption` and `RequestsAssumption` say that plans, the dependencies and
the export formats of their nodes, and the operations of a request are lists, and
that there are names for as many steps as a request asks for.

## 3. Runs

| run | instance | what it shows |
|---|---|---|
| `task_serial` | 1 request at a time, no corrections, 1 worker, crashes and lost messages; all four births | what holds when nobody races: `TerminalIsFinal`, `StartIsApproved`, `SuccessArtifactsComplete` |
| `task_concurrent` | 2 requests, 2 workers, 2 revisions, 2 submissions, 1 fault; a plan of two steps | what holds under every interleaving: `QueuedIsServed`, `RunningIsAttended`, `SuccessHasOutputs`, `OutputsFromPipeline`, `StepsNeverReopen`, `StartIsGated` |
| `task_live` | all four request kinds, no crash, fairness | `RunsEnd`, `ApprovedIsDecided` |
| `revision_concurrent` | 3 requests of all kinds, 3 revisions, fairness | `OneActive`, `CorrectionsCounted`, `ReadersAgree`, `Linear`, the refinement `Implements`, and `RequestsEnd`: lock cycles over three resources are broken and everybody ends |
| `client_watch` | one tab, 2 tasks, 2 open transactions, 2 events, 1 request of the user after the start, 1 fault | `ShownAdvances`, `WatcherCatchesUp`, `PollingCatchesUp`: when the screen ends up right, and the races after which it does not |
| `plan_pipeline` | all dependency relations of three nodes over eight lists of dependencies, chains of an upload, an operation and an export with every pairing of input and param values, the same chains from a vector upload that the pipeline opens or does not, and plans built from up to three of nine operations with and without paths and uploads | `CyclesAreFound`, `SortRespectsDependencies`, `NeverStuck`, `DeclaredWiringIsRead`, `WiredNodesFindSources`, `ExportsWhatIsWired`, `PreflightHolds`, `RunEnds` |
| `approve_after_reject` | 2 requests | finding: `TerminalIsFinal` fails under races |
| `clarification_not_saved` | a rerun | finding: `ClarificationPersisted` fails |
| `message_stream` | 2 retries, as the settings have it, 2 deltas an attempt, fairness | `ResultDelivered`, `ShowsTheReply`, `StreamEnds` |
| `message_intake` | 2 requests, nine texts, five answers of the model or none, two histories, any uploads | `BornAsModelled`, `AreaIsResolved`, `ActsOnEvidence` |
| `conversation` | 2 requests at a time, 6 rows of messages, 3 tasks of up to 3 revisions, stops anywhere | `ConfirmsWhatWasAsked`, `OneTaskPerRequest`, `UnderstandingNamesItsRevision`, `SnapshotIsCurrent` |
| `rerun_loses_area` | as `message_intake` | finding: `InheritedAreaIsUsed` fails |

**Bounds.** `MaxVersion` 2 gives a plan one edit after its draft; `MaxRevision`
2 or 3 gives corrections that race for the same number and one that follows;
`MaxGrants` 2 and two workers are needed for two runs of one task at once,
which is where shared steps and artifacts matter; a third run repeats what the
second can do, since a worker leaves nothing behind but the rows. `MaxFaults` 1
lets a worker die, or a message be lost, at every point. The plan of the
concurrent run lists the pipeline and the output step, because those carry the
properties; the serial and live runs list what their configurations say, and
skipping unlisted steps is the same code for all five. Three requests are
needed for a lock cycle that is not a pair (revision number, task row,
snapshot row). Two events are what an inversion takes, and a refresh that is
in flight while another event arrives; the second task and the one request of
the user are there for answers that cross a change of selection. Three nodes are enough for a
self-dependency, a cycle through others, a step met twice by the walk, a
dependency named twice and a plan whose order is not the order of its
dependencies; the values of the chains are one of each class the two readers
distinguish, the two that the guard takes and the pipeline does not open among
them. Two requests of `MessageIntake` give a task and whatever can follow it: a
confirmation, a correction, a follow-up, a rerun; the texts take every branch of
the parser, and the histories are none and the heaviest. Six rows of messages
are three answered messages, so a confirmation with two prompts before it, of
two overlapping requests, or two confirmations of one prompt; requests that
were given up leave rows nobody sees. What TLC cannot reach by bounds the theorems cover where there are any.

**Deadlock** checking is off: a task that has ended and whose clients are
silent may stop for good, and the history bounds stop clients.

**Fairness.** Liveness of `TaskExecution` assumes that a committed submission
is sent and that a worker that can take a message or finish a node does
(`WF`): Celery delivers, and models, searches and tools have timeouts. Nothing
is assumed of the clients, and crashes are excluded, since a worker that dies after
the acknowledgement leaves the task RUNNING for good (`RunningIsAttended`
says so). `RevisionActivation` assumes `SF` on each request's own step: a
request waiting for a row lock that others take again and again is enabled
infinitely often but not continuously, and PostgreSQL's lock queues serve it;
under `WF` alone TLC finds the starvation. Failing requests are never forced,
only the deadlock detector is. `WorkbenchClient` assumes `WF` of the end of
transactions, the server's poll, the answers, the renders and the polling
timer, and nothing of the user or of faults. `ProcessingPipeline` assumes `WF`
of the steps of a run only: one thread runs it, and nothing makes it wait.
`MessageStream` assumes `WF` of the thread, of the generator (an ASGI server
iterates it while the connection stands) and of the tab; that a connection
breaks is never forced, and no attempt of the model is forced to succeed.
`MessageIntake` and `Conversation` state safety only.

## 4. Properties

`TaskExecution`

* `QueuedIsServed`: a QUEUED task has a submission on its way or a worker that has
  yet to decide about it. Only three things leave one behind, and it names them:
  a lost message, a dead worker, and the clarification that is not stored
  (section 6). It ties the row to queue and workers over corrections, rejections
  and the finalizers of a second run.
* `RunningIsAttended`: a task is RUNNING only with a worker inside its steps,
  or after a crash. It ties the row to the control points of all workers, over
  every except block and forced finalizer.
* `SuccessHasOutputs`, `OutputsFromPipeline`: SUCCESS rests on a finished last
  step, and published outputs on a pipeline that succeeded, although two
  workers share the steps.
* `StepsNeverReopen`: an ended step keeps its outcome.
* `StartIsGated`: a run starts only where a worker has seen the task QUEUED and
  its active revision neither blocked nor asking. Between that check and the
  write a correction may block the task, and the write overwrites it (section 6):
  a revision that is blocked at the start is one made after the check.
* `TerminalIsFinal`, `StartIsApproved`, `SuccessArtifactsComplete`: hold
  when nobody races, and are theorems there; under races the first is a
  finding, and the others are not claimed.
* `RunsEnd`, `ApprovedIsDecided`: liveness.

`RevisionActivation`

* `OneActive`: one active revision, the latest, mirrored.
* `CorrectionsCounted`: the counter of the active revision is the number of
  corrections.
* `Linear`: a correction that commits was made from the revision active until
  that moment.
* `ReadersAgree`: a backfill that loses the race for revision 1 finds the
  winner's.
* `Implements`: the transactions refine `RevisionHistory`.
* `RequestsEnd`: liveness.

`WorkbenchClient`

* `ShownAdvances`: while the user only watches, an older state never replaces a
  newer one on the screen, although events and timers start refreshes at any time.
* `WatcherCatchesUp`: then the screen ends up with the task's last state. It
  names what the code does not survive: a refresh that fails while streaming, a
  detail read before the commit whose events were read after it, and an event
  committed below the cursor. Nothing else can lose the task for a watcher.
* `PollingCatchesUp`: after the fallback to polling, anything the user or those
  races have left is repaired, as long as the task shown is the selected one,
  and except for one livelock TLC found: `refreshTaskState` repeats a queued
  refresh for the task of the previous one, so if answers take longer than the
  polling interval, the refresh of a task that is no longer selected repeats
  for ever.

`MessageStream`

* `ResultDelivered`: a result that reached the queue reaches a tab that is still
  there. The two looks at thread and queue are safe in the order in which the
  code takes them, and a timeout between the last put and the end of the thread
  loses nothing.
* `ShowsTheReply`: what the tab has put together at the end is the stored reply,
  behind nothing but the pieces of attempts that were given up: a retry repeats,
  and never loses.
* `StreamEnds`: liveness, also when the thread dies without a word.

`MessageIntake`

* `BornAsModelled`: every row that is committed, however its task came about, is
  an initial state of `TaskExecution`: the two models meet there.
* `AreaIsResolved`: a task that may run has a geometry of the kind its words ask
  for, after its creation and after corrections.
* `ActsOnEvidence`: no history of a session lifts a field that nothing speaks
  for over the threshold at which the program acts.

`Conversation`

* `ConfirmsWhatWasAsked`: the newest answer a confirmation sees is the answer to
  the message that it turns into a task, however requests overlap: the candidate
  is found by the order of rows, which does not say what answers what.
* `OneTaskPerRequest`: a request becomes two tasks only if both confirmations
  were decided before either committed (which the code does not exclude).
* `UnderstandingNamesItsRevision`: the understanding of a correction, stored in a
  later transaction, names the revision made of that message.
* `SnapshotIsCurrent`: as long as requests come one at a time, wherever they
  stop, the session's memory points to a revision that is active in its task.
  With overlapping requests it may not, see section 6.

`ProcessingPipeline`

* `CyclesAreFound`: the guard's walk refuses exactly the dependency relations
  that have a cycle, checked against a fixpoint.
* `SortRespectsDependencies`: the order the guard validates in holds every node
  once and after its dependencies, so that no node's inputs go unchecked.
* `NeverStuck`: no plan that gets to the pipeline, reviewed or built, has
  dependencies its passes cannot resolve, although they go by another order.
* `DeclaredWiringIsRead`: a node that names the output of a node it depends on
  reads that output and, as a single source, nothing else. It names what the
  code does not do: it holds for declared dependencies, not for the `rasters` of
  a mosaic, which no code looks up, and not for an uploaded vector that the
  pipeline does not open (`Unopened`: a `.shp`, `.gpkg` or `.zip`, or a raster),
  which it drops without a word. Section 6 has what it computes with instead.
* `WiredNodesFindSources`: a run that ends for want of a source ends at an
  upload, a mosaic, or a node one of whose inputs names nothing readable. A node
  wired to what was made is never left without, in whatever order nodes ran.
* `ExportsWhatIsWired`: an export holds the data of its own input in every
  format that can hold it, not of the raster that was registered first. An
  upload that the pipeline does not open has no such format.
* `PreflightHolds`: an upload that the review resolved, the run finds, although
  other nodes have registered their files by then, and it is the file it names.
* `RunEnds`: liveness.

Each property of a passing run has a mutant in `PROJECT.json`: a plausible bug
in the code it depends on, written next to the action it mutates (`Mutant...`),
under which TLC finds the property violated.

## 5. Proofs

The theorems are for any finite or infinite set of requests, workers, tasks,
texts and plans and any value of the bounds. They rest on the assumptions on
constants alone, with one exception that their statements show: three serial
theorems of `TaskExecutionProofs` assume one worker or one request, because
without it they are false (section 6).

`TaskExecutionProofs`

* `TypeCorrect` first, action by action.
* `StepsKeepOutcome` is an action property: every write of a step goes through
  the table (`CanSetStep`), whose terminal statuses have no successor.
* `SuccessWentThroughOutputs` needs to know what a worker in `finish` has done
  (`EndsInv`): it only gets there from its own last step, which `StepsKeepOutcome`
  keeps ended.
* `OutputsRestOnPipeline` needs that a worker whose run has pipeline outputs
  has made the pipeline step succeed, which no other worker undoes.
* `RunningHasWorker` rests on `RunningIsHeld`: whoever writes RUNNING is at the
  start of its steps, and every action that takes a worker out of them writes
  another status to the row, even over a stale copy.
* `RunStartsGated` rests on `AskInv` and `StartInv`: a worker about to start has
  seen neither RUNNING nor a question in the row, and the revision it has checked
  is not blocked and does not ask as long as it is the active one. The lemma
  `SubmissionsConserved`, that no message is taken twice, is needed for the first.
* `QueuedTasksAreServed` rests on `QueuedServed`, in which a worker about to start
  has seen QUEUED itself (another would be refused and leave the task alone).
* `ArtifactsAreComplete` assumes `SoleWorker`, one worker, but lets requests race
  and workers die. `ArtifactInv`: a handler that runs has its step RUNNING, and
  the artifacts are complete once their step has succeeded, because no handler that
  could delete them runs again.
* `LifeIsSerial` assumes `OneAtATime`: one request, which is not a correction (a
  correction forces the status), and any number of workers. `SerialInv` says that a
  request in flight has the row to itself (`ReviewAlone`), that the status goes
  with how far the task's one submission has come (`RowSerial`: waiting, none was
  made; running or ended, it was taken), and that one worker at most is inside the
  graph, over a row whose status is the one its node expects (`WorkerSerial`).
  `TerminalStatusesAreFinal` and `RunsStartApproved` are read off it.

`RevisionActivationProofs`

The invariant `Inv` is the whole argument. `Committed`: the committed revisions
are `1..mirror`, the last one is active and counts one correction less than its
number. `OneInserter`: at most one transaction has uncommitted revisions; those
that want the same number wait at the index. `Standing`: what a transaction has
read, inserted and cleared, for each point of its program; in particular, one
with uncommitted rows has read the revision that is still the latest, because
any commit in between would have taken the number it has inserted. The FOR
UPDATE lock is not used: the unique index alone excludes two writers, the lock
only orders them. From `Inv` follow `OneRevisionActive`, `NoCorrectionLost`,
`LosersFindTheWinner`, `HistoryIsLinear` and the refinement `ImplementsHistory`,
in which only `Commit` takes abstract steps.

`ConversationProofs`

`Invariant` proves `Inv`, a conjunction of named parts. `Rows`: a row that is
committed has its answer, and only such a row has an understanding. `Flights`:
each request answers a row of its own and no other request's. `Tasks`: what
requests, tasks and the snapshot point to exists, and only a request that is
still deciding has updated the snapshot. `Used` carries `OneTaskPerRequest`:
words that became a task are linked *or* two answers follow them, so the window
of `Candidates`, which ends at the last answer but one, never finds them again;
the confirmation that stops before it links its source is the case for the
second half. `Confirmations` says what a confirmation has found. That its prompt
answers its source, `ConfirmsWhatWasAsked`, is shown where it is found: an
uncommitted request can have no answer, so among the committed rows after the
last answer but one there is one request and its answer. `WillName` and `AllNamed`
carry what is going to be recorded from the correction to the commit. `Serial`
is `Fresh` for every request while none have overlapped: what it has read is
still so. None of the 287,030
states of the instance of `conversation` violates `Inv`.
The latest row, task and revision are defined with CHOOSE; that they exist is an
induction, which `Extremes` gets from the well-foundedness of the naturals.

`MessageStreamProofs`

`QueueInv` (what has been put, for each place of the thread), `GeneratorInv` (a
generator that doubts has a dead thread; one that has ended has taken all) and
`FailureInv` (why the tab failed) give `BodiesAreWhole` and `ResultsDelivered`. `StreamTells`
adds what is in the queue. `DeltasFirst`: nothing comes before a delta but
deltas. `StreamedInv`: the last deltas are those of the attempt in progress, and
what is before them is superseded; a retry turns the ones into the others.
`ReplyInv`: the reply, and what is stored, is the text of those last deltas or a
text of which none was sent. `ShownInv`: the tab shows the deltas it has read.
At the end it has read them all, and `TabsShowTheReply` follows.

`MessageIntakeProofs`

`IntakeTypes` goes through every operator of parser and policy.
`EvidenceIsNeeded` is arithmetic: with no score at all, the greatest share of the
history keeps the confidence below the medium threshold (`NoEvidenceIsLow`), and
every acting branch of `decide_response` asks for it. `RowsFit` is the invariant
`RowFits`, which says for each stage of a creation or a correction what the row
and the specification have by then (the area looked up, the block set or lifted,
the status of the plan), together with `HasItsArea` of the latest task, from which
follow-ups, corrections and reruns start. `AreasAreResolved` and
`TasksAreBornAsModelled` are its last stage: they hold for all texts, answers and
histories, not only for those of the run.

`WorkbenchClientProofs`

`ClientTypes`, and `WatcherNeverGoesBack` from `Alone` (one refresh at a time),
`Wired` (what streams is the rendered task), `Locked` (one open transaction holds
a row, and advances it) and `Watching`: until the user asks for something, every
answer on its way was read at or after the state shown.

`ProcessingPipelineProofs`

The argument has one predicate in its middle, `PlanFits`: the references of a plan
are distinct, its steps have a rank that grows along dependencies, and an input that
names the output of an ancestor accepts its type. Around it are five parts.

* *The pipeline, for any plan.* `RunInv` ties `pending`, `visiting` and `progressed`
  to what was completed: a pass without progress has left only steps that wait for
  a pending one. From it follows `RunsAreWhole`: no success with a node left, no
  node before its dependencies.
* *The pipeline, for a plan that fits.* Among the steps left one has the smallest
  rank (`Extremes`), and a pass completes it: never stuck. `RefsInv` says that
  the dict holds the outputs of exactly the completed nodes, each under a
  reference of its own and, uploaded vectors and exports apart, with the type of
  what its operation makes, so that a node reads what it names (`NamedFileIsRead`,
  unopened uploads excepted) and finds a source (`SourcesFound`):
  `FittingPlansRun`.
* *Which plans fit.* The built ones do (`BuiltPlansFit`, so `BuiltPlansRun`), although
  nothing validates them: `BuiltNodes` is a recursive function, which is unfolded
  by the smallest place at which it would fail. Those that the guard accepts do
  as well: `NoRunIsStuck`, `WiringIsRead`, `WiredSourcesAreFound` and
  `ExportsFollowWiring` have no hypothesis left.
* *What the guard computes.* `CyclesAreRefused`: the calls in progress are a path
  along dependencies, and what is visited waits for visited steps only and never
  for itself (`WalkGood`), so a step met twice is on a cycle and a walk that ends
  has none; it ends, since every step of it raises twice the number of the visited
  steps plus the length of the path (`Walked`). `SortIsSound`: a step's counter is
  the number of places at which it names a step that is not ordered yet, and what
  counts nothing is ordered or queued (`SortGood`), so that with an empty queue and
  no cycle (`AcyclicRanked`) nothing is left. Both iterations are unfolded with
  `IteratesIn` and `Counting` of `Extremes`.
* *What the review found.* `PreflightIsKept` compares the run with a preflight that
  registers uploads only. `ReviewInv` has them go side by side (`Aligned`): when
  the run stands behind step m of its pass n, the preflight had completed the same
  steps there. It needs the passes to be in the order of the plan (`Sorted`),
  since the preflight walks over all steps and the run over those that are left
  (`Unmoved`). What is registered may differ by then, and with it what an
  `upload_id` resolves to: no longer to the file at the path, but to what a
  completed node made. That is a file that is there, also when an export made it
  (`ExportMade`), and so `UploadFound`. A preflight that did not raise in the end
  never did (`RaisedStays`), and a run in the preflight's last pass is done at its
  end, so that the preflight always has a pass for the next one of the run
  (`PassAligns`).

Model-checked only: all liveness (outside TLAPS), and the findings.

## 6. Findings

1. **An approval revives a cancelled task** (`approve_after_reject`).
   `approve_task_plan` checks the status it loaded and commits after its
   preflight, with neither lock nor version.
2. **Clarification of a rerun is not stored** (`clarification_not_saved`).
   `finalize_success_node` changes a detached row; the task stays QUEUED.
3. **A rerun loses an uploaded area** (`rerun_loses_area`). `rerun_task` hands the
   original's AOI to `_build_task`, but for an uploaded area it is never looked
   at: the area is read when the first revision is activated, from the files of
   this request, of which a rerun has none. The row is committed blocked and
   waiting for a boundary that its parent has.

Seen besides. The models have the following too; no property of a passing run
excludes it.

* Approval and runtime: a revision that becomes blocked does not stop a run in
  progress, the gate is checked once (`nodes.py:233`, against
  `docs/superpowers/specs/2026-04-08-conversation-understanding-revisions-design.md:1068`).
  Nor does one that commits between that check and the start (`nodes.py:160` and
  `:190`): its status is overwritten with RUNNING, from the row loaded before, and
  the blocked revision runs (against the same document, :1035-1036 and :1068).
  A lazy backfill that loses the race for the session's snapshot fails the read
  (`task_revisions.py:185`, against the same document, :1118 and :1125).
* Plans: an uploaded shapefile, zip or GeoPackage is handed to the plan as its
  vector (`upload_handler.py:274`) and passes guard and preflight, but the
  pipeline reads GeoJSON only (`processing_pipeline.py:342`): an operation on it
  computes with another geometry it was given or the demonstration one
  (`:383-384`), an export of it as GeoJSON writes another vector of the plan or
  the demonstration one (`:1669-1678`), as GeoPackage or shapefile always the
  latter (`:1698`, `:1721`). Nothing tells the user.
  An accepted clip may copy its raster, since the guard takes a path in
  any of some thirty params for an area and the pipeline reads seven others
  (`plan_guard.py:225`). A node that reads an output without depending on its
  producer may run before it and reads the first raster or demonstration data; a
  path given as the input `raster`, or as `rasters` of a mosaic, is accepted and
  not read; the registry's default export formats hold `summary_md`, which the
  pipeline refuses, so that a built plan whose last operation is an export fails
  at it.
* Messages, one at a time: the understanding of a message that starts a new task
  is stored with the old task's revision, and the memory stays there
  (`orchestrator.py:465-475`). A session whose active revision is blocked answers
  every message with the question for a boundary, also the correction that would
  lift it (`response_policy.py:58-76`). `execute_now` may execute nothing, when
  the two calls of the classifier disagree (`orchestrator.py:184`,
  `understanding.py:118`). A reply about uploads stores whatever mode was
  decided, so that a later "confirm" can turn the question into a task
  (`orchestrator.py:343-364`). A failed parse of a clip with both paths is not
  asked about (`parser.py:799`); a follow-up keeps its parent's missing fields
  (`task_lifecycle.py:239-245`); a named area is labelled an upload when the
  session has one (`parser.py:922-928`).
* Messages that overlap: two confirmations of one request, decided before either
  commits, make two tasks (`orchestrator.py:262`); one that comes between the
  commit of a prompt and of its understanding is refused (`message_handler.py:340`);
  an understanding stored late moves the memory back to an older revision, or its
  task and revision apart.
* Streams: a retried call shows the first deltas again until the result replaces
  them.

## 7. Not modelled, and why

* *Catalogue search, recommendation, quality checks, explanation*: remote search
  and numeric scores; each is one runtime step that returns or raises.
* *Uploads, storage, previews*: file and raster input and output. What an upload
  is to the rest, a kind of file that is there or not, is in `MessageIntake` and
  `PlanBuilder`.
* *Migrations*: SQL text under an advisory lock, sharing no state with the rest.
  The hazard that the lock is released before the commit is listed.
* *API surface, schemas, configuration, views*: declarations and rendering.

Within the modelled components: what a node of the pipeline computes and the names
of files; of the registry's params those that do not name an input, and plural
keys beside their singular ones; preferred outputs and per-operation overrides.
Geometry, scores of scenes, prompts, regular expressions and word lists are free
choices among their outcomes. Of the settings, the defaults: the older paths
without router, understanding or memory are left out, and the prompt before
every task. Of the session's memory the events, links, summaries, the version
counter and the ranking of what is retrieved, on which nothing decides. Of the
tab: uploads, layers, the list of messages. Timestamps, durations, texts of
events and log records; no property is about them. Inside `TaskExecution` a
correction is one load and one write, because `RevisionActivation` covers the
transactions underneath; in `RevisionActivation` the snapshot is a row and its
lock, because `Conversation` covers its contents.

## 8. What is left

The first plan put the life of an approved task first, then the transactions of
revisions, the event stream and client, plans, and messages; these are the modules
above. What would come next, in order of worth:

1. The row locks of `Conversation` and `RevisionActivation` in one model: the
   refresh of the snapshot holds its row while the model is asked, and a
   correction then waits for it with the task locked.
2. Start-up of several processes (`migrations.py`).
