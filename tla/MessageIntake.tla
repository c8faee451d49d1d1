--------------------------- MODULE MessageIntake ---------------------------
(***************************************************************************)
(* From the words of a message to the row of a task: create_message        *)
(* understands the message and decides on an answer, and where the answer  *)
(* is a task, create_message_and_task parses the words again, merges them  *)
(* into the session's latest task when they follow it up, and _build_task  *)
(* writes the row.  rerun_task builds a row from the latest one.           *)
(*                                                                         *)
(* One message at a time; the messages of a session that overlap are in    *)
(* Conversation.  The calls of the language model are the nondeterminism.  *)
(***************************************************************************)
EXTENDS ResponsePolicy

CONSTANTS
    Words,       \* the texts users send
    Answers,     \* what the parser's model answers when its JSON is valid
    Remembered,  \* what the session may remember of its fields
    MaxTurns     \* bound on messages and reruns

ASSUME IntakeInputs ==
    /\ Words \subseteq Texts
    /\ Answers \subseteq Payloads
    /\ Remembered \subseteq Histories
    /\ MaxTurns \in Nat

VARIABLES
    uploads,  \* kinds of the files uploaded in the session
    stage,    \* where the request in progress is
    msg,      \* its text, its route and the understanding's base intent
    intent,   \* the expanded intent
    files,    \* files handed to the task's creation
    spec,     \* the specification parsed last
    mode,     \* the answer decided last
    row,      \* the task row in the open transaction
    asked,    \* request text awaiting a confirmation, if any
    latest,   \* the session's latest committed task
    turns     \* messages and reruns so far

vars == <<uploads, stage, msg, intent, files, spec, mode, row, asked, latest, turns>>
rowVars == <<row, latest>>
-----------------------------------------------------------------------------
FileKinds == {"raster", "vector"}
Stages == {"idle", "parse", "decide", "revise", "reparse",
           "resolve", "build", "plan", "activate", "built"}
Statuses == {"queued", "waiting_clarification", "awaiting_approval"}
Shapes == {"none", "bbox", "named", "file"}
Plans == [st : {"ready", "needs_clarification"}, op : {"none", "draft"}, ver : 0..1]

Rows == [known : BOOLEAN, spec : Specs, shape : Shapes, status : Statuses,
         plan : Plans, cur : {"parse_task", "awaiting_approval", "normalize_aoi"},
         blocked : BOOLEAN, heir : BOOLEAN, approve : BOOLEAN]

NoSpec == [area |-> "none", source |-> "none", time |-> FALSE, type |-> "WORKFLOW",
           params |-> NoParams, missing |-> {}, ask |-> FALSE, failed |-> FALSE]
NoPlan == [st |-> "ready", op |-> "none", ver |-> 0]
NoTask == [known |-> FALSE, spec |-> NoSpec, shape |-> "none", status |-> "queued",
           plan |-> NoPlan, cur |-> "parse_task", blocked |-> FALSE,
           heir |-> FALSE, approve |-> TRUE]
NoText == [area |-> "none", file |-> FALSE, time |-> FALSE, hint |-> "none",
           clip |-> FALSE, other |-> FALSE, raster |-> FALSE, vector |-> FALSE,
           verb |-> FALSE, change |-> FALSE, confirm |-> FALSE]
NoMessage == [text |-> NoText, route |-> "chat", base |-> "chat"]

Init ==
    /\ uploads \in SUBSET FileKinds
    /\ stage = "idle"
    /\ msg = NoMessage
    /\ intent = "chat"
    /\ files = {}
    /\ spec = NoSpec
    /\ mode = "chat_reply"
    /\ row = NoTask
    /\ asked = NoText
    /\ latest = NoTask
    /\ turns = 0

\* The request answers without a task: what it holds is dropped.
Answer ==
    /\ stage' = "idle"
    /\ msg' = NoMessage
    /\ intent' = "chat"
    /\ files' = {}
    /\ spec' = NoSpec
    /\ row' = NoTask
-----------------------------------------------------------------------------
(* Understanding and decision.                                             *)

\* A message that does not confirm.  The router and the understanding call
\* the classifier separately, and may get different answers.
Receive(text, route, base) ==
    /\ stage = "idle"
    /\ turns < MaxTurns
    /\ ~text.confirm
    /\ turns' = turns + 1
    /\ msg' = [text |-> text, route |-> route, base |-> base]
    /\ intent' = ExpandIntent(base, text, latest)
    /\ stage' = IF intent' \in TaskLikeIntents THEN "parse" ELSE "decide"
    /\ files' = uploads
    /\ UNCHANGED <<uploads, spec, mode, asked, rowVars>>

\* A confirmation of the request asked about creates its task; any other
\* one is told that there is nothing to confirm.
Confirm(text) ==
    /\ stage = "idle"
    /\ turns < MaxTurns
    /\ text.confirm
    /\ turns' = turns + 1
    /\ \/ /\ asked = NoText
          /\ UNCHANGED <<stage, msg, files>>
       \/ /\ asked # NoText
          /\ msg' = [text |-> asked, route |-> "task", base |-> "task"]
          /\ files' \in IF asked.file THEN {uploads} ELSE {{}, uploads}
          /\ stage' = "reparse"
    /\ UNCHANGED <<uploads, intent, spec, mode, asked, rowVars>>

\* The understanding takes any upload of the session, or a word for one, as
\* an upload; the creation of a task only the files it was handed.
HasUpload == IF stage = "parse" THEN uploads # {} \/ msg.text.file ELSE files # {}

Parsed(result) ==
    /\ stage \in {"parse", "reparse"}
    /\ spec' = result
    /\ stage' = IF stage = "parse" THEN "decide" ELSE "resolve"
    /\ UNCHANGED <<uploads, msg, intent, files, mode, asked, rowVars, turns>>

\* parse_task_message: an answer that passes the schema, or none after the
\* repairs and the client's own retries.
ParserAnswers(payload) == Parsed(ModelSpec(payload, msg.text, HasUpload))
ParserFails == Parsed(FallbackSpec(msg.text, HasUpload))

\* decide_response, and the routing of its answer.
Decide(h, cautious) ==
    LET parsed == intent \in TaskLikeIntents
        decision == DecideResponse(intent, parsed, spec, msg.text, latest, h, cautious)
    IN  /\ stage = "decide"
        /\ mode' = decision
        /\ \/ /\ decision = "show_revision"
              /\ stage' = "revise"
              /\ UNCHANGED <<msg, intent, files, spec, row, asked>>
           \/ /\ decision \in {"execute_now", "chat_reply"}
              /\ msg.route = "task"
              /\ stage' = "reparse"
              /\ UNCHANGED <<msg, intent, files, spec, row, asked>>
           \/ /\ \/ decision \in {"ask_missing_fields", "confirm_understanding"}
                 \/ decision \in {"execute_now", "chat_reply"} /\ msg.route # "task"
              /\ asked' = IF decision = "confirm_understanding" THEN msg.text ELSE NoText
              /\ Answer
        /\ UNCHANGED <<uploads, latest, turns>>
-----------------------------------------------------------------------------
(* A correction of the latest task.                                        *)

\* The geometry normalize_task_aoi finds for a specification: "error" stands
\* for the exceptions, "none" for no geometry.  A registry entry, and a file
\* that can be read, are the environment's.
Normalised(s, given) ==
    IF s.source = "file_upload"
    THEN IF given = {} THEN {"none"}
         ELSE IF "vector" \in given THEN {"file", "error"} ELSE {"error"}
    ELSE IF s.area = "bbox" THEN {"bbox", "error"}
    ELSE IF s.area # "none" /\ s.source \in {"admin_name", "place_alias"}
    THEN {"named", "none"} ELSE {"none"}

\* normalize_active_revision_aoi: a requested area without a geometry
\* blocks the revision.
Refresh(task, found) ==
    LET wanted == task.spec.source = "file_upload" \/ task.spec.area # "none"
    IN  IF found = "error" \/ (found = "none" /\ wanted)
        THEN [task EXCEPT !.blocked = TRUE,
                          !.status = "waiting_clarification",
                          !.cur = "normalize_aoi",
                          !.spec.ask = TRUE,
                          !.spec.missing = @ \cup {"aoi_boundary"}]
        ELSE [task EXCEPT !.blocked = FALSE,
                          !.shape = IF found = "none" THEN @ ELSE found]

\* _apply_correction_revision: the fields the new parse has replace the old.
Revise(found) ==
    LET merged == [spec EXCEPT
                     !.area = IF @ = "none" THEN latest.spec.area ELSE @,
                     !.source = IF @ = "none" THEN latest.spec.source ELSE @,
                     !.time = @ \/ latest.spec.time,
                     !.params = [ops |-> IF @.ops = {} THEN latest.spec.params.ops
                                         ELSE @.ops,
                                 raster |-> @.raster \/ latest.spec.params.raster,
                                 vector |-> @.vector \/ latest.spec.params.vector,
                                 expr |-> @.expr \/ latest.spec.params.expr]]
        refreshed == Refresh([latest EXCEPT !.spec = merged, !.heir = FALSE], found)
    IN  /\ stage = "revise"
        /\ found \in Normalised(merged, uploads)
        /\ latest' = IF refreshed.blocked THEN refreshed
                     ELSE [refreshed EXCEPT !.spec.ask = FALSE,
                                            !.spec.missing = {},
                                            !.status = "awaiting_approval",
                                            !.cur = "awaiting_approval"]
        /\ asked' = NoText
        /\ Answer
        /\ UNCHANGED <<uploads, mode, turns>>
-----------------------------------------------------------------------------
(* A new task.                                                             *)

FollowsUp ==
    /\ files = {}
    /\ latest.known
    /\ Overrides(msg.text) # {}
    /\ msg.text.change \/ spec.ask

\* should_inherit_original_aoi.
Inherits(parent, s, overrides) ==
    /\ parent.shape # "none"
    /\ "area" \notin overrides
    /\ s.area = parent.spec.area
    /\ s.source = parent.spec.source

\* _resolve_followup_context.
Resolve ==
    LET merged == IF FollowsUp THEN MergeSpec(latest.spec, msg.text) ELSE spec
    IN  /\ stage = "resolve"
        /\ row' = [NoTask EXCEPT
                     !.known = TRUE,
                     !.spec = merged,
                     !.status = IF merged.ask THEN "waiting_clarification" ELSE "queued",
                     !.heir = FollowsUp /\ Inherits(latest, merged, Overrides(msg.text))]
        /\ stage' = "build"
        /\ UNCHANGED <<uploads, msg, intent, files, spec, mode, asked, latest, turns>>

\* rerun_task with an override of nothing or of the time range.
Rerun(retimed) ==
    LET again == [latest.spec EXCEPT !.time = @ \/ retimed]
    IN  /\ stage = "idle"
        /\ turns < MaxTurns
        /\ latest.known
        /\ turns' = turns + 1
        /\ files' = {}
        /\ row' = [NoTask EXCEPT
                     !.known = TRUE,
                     !.spec = again,
                     !.status = IF again.ask THEN "waiting_clarification" ELSE "queued",
                     !.heir = Inherits(latest, again, {}),
                     !.approve = FALSE]
        /\ stage' = "build"
        /\ UNCHANGED <<uploads, msg, intent, spec, mode, asked, latest>>

\* An exception on the way: the transaction is rolled back.
Fail ==
    /\ Answer
    /\ UNCHANGED <<uploads, mode, asked, latest, turns>>

AskForBoundary(task) ==
    [task EXCEPT !.status = "waiting_clarification",
                 !.spec.ask = TRUE,
                 !.spec.missing = @ \cup {"aoi_boundary"}]

MutantShapeRow(found) ==
    IF found # "none" THEN [row EXCEPT !.shape = found]
    ELSE IF row.heir THEN [row EXCEPT !.shape = latest.shape]
    ELSE row

\* The geometry of an area that is not a file: found, inherited, or asked for.
ShapeRow(found) ==
    IF found # "none" THEN [row EXCEPT !.shape = found]
    ELSE IF row.heir THEN [row EXCEPT !.shape = latest.shape]
    ELSE IF row.spec.area # "none" /\ row.spec.source \in {"admin_name", "place_alias"}
    THEN AskForBoundary(row)
    ELSE row

\* _build_task up to the plan.
Build(found) ==
    /\ stage = "build"
    /\ IF row.spec.source = "file_upload"
       THEN found = "none" /\ row' = row
       ELSE found \in Normalised(row.spec, files) \ {"error"} /\ row' = ShapeRow(found)
    /\ stage' = "plan"
    /\ UNCHANGED <<uploads, msg, intent, files, spec, mode, asked, latest, turns>>

BuildFails ==
    /\ stage = "build"
    /\ row.spec.source # "file_upload"
    /\ "error" \in Normalised(row.spec, files)
    /\ Fail

MutantSketched(more) == [row EXCEPT !.plan.st = IF more = {} THEN "ready"
                                               ELSE "needs_clarification"]

\* build_task_plan: the planner may miss something more.
Sketched(more) ==
    LET missing == row.spec.missing \cup more IN
    IF ~row.spec.ask /\ missing = {} THEN row
    ELSE [row EXCEPT !.plan.st = "needs_clarification",
                     !.status = "waiting_clarification",
                     !.spec.ask = TRUE,
                     !.spec.missing = IF row.spec.ask THEN @ ELSE missing]

\* The first operation plan of a task that has to be approved.
Draft(task) ==
    IF task.approve /\ ~task.spec.ask
    THEN [task EXCEPT !.plan.op = "draft", !.plan.ver = 1,
                      !.status = "awaiting_approval", !.cur = "awaiting_approval"]
    ELSE task

Plan(more) ==
    /\ stage = "plan"
    /\ row' = Draft(Sketched(more))
    /\ stage' = "activate"
    /\ UNCHANGED <<uploads, msg, intent, files, spec, mode, asked, latest, turns>>

\* No operation plan can be made of the specification.
PlanFails ==
    /\ stage = "plan"
    /\ row.approve /\ ~row.spec.ask
    /\ Fail

\* The first revision becomes active; only now is an uploaded area read.
Activate(found) ==
    /\ stage = "activate"
    /\ IF row.spec.source = "file_upload"
       THEN found \in Normalised(row.spec, files) /\ row' = Refresh(row, found)
       ELSE found = "none" /\ row' = row
    /\ stage' = "built"
    /\ UNCHANGED <<uploads, msg, intent, files, spec, mode, asked, latest, turns>>

Commit ==
    /\ stage = "built"
    /\ latest' = row
    /\ asked' = NoText
    /\ Answer
    /\ UNCHANGED <<uploads, mode, turns>>

Next ==
    \/ \E text \in Words :
         \/ Confirm(text)
         \/ \E route, base \in BaseIntents : Receive(text, route, base)
    \/ \E payload \in Answers : ParserAnswers(payload)
    \/ ParserFails
    \/ \E h \in Remembered, cautious \in BOOLEAN : Decide(h, cautious)
    \/ \E found \in Shapes \cup {"error"} : Revise(found) \/ Build(found) \/ Activate(found)
    \/ Resolve
    \/ \E retimed \in BOOLEAN : Rerun(retimed)
    \/ BuildFails \/ PlanFails
    \/ \E more \in {{}, {"planning_context"}} : Plan(more)
    \/ Commit

Spec == Init /\ [][Next]_vars
-----------------------------------------------------------------------------
TypeOK ==
    /\ uploads \in SUBSET FileKinds
    /\ stage \in Stages
    /\ msg \in [text : Texts, route : BaseIntents, base : BaseIntents]
    /\ intent \in Intents
    /\ files \in SUBSET FileKinds
    /\ spec \in Specs
    /\ mode \in Modes
    /\ row \in Rows
    /\ asked \in Texts
    /\ latest \in Rows
    /\ turns \in 0..MaxTurns

NewTask == INSTANCE TaskExecution WITH
    Requests <- {}, Workers <- {}, Kinds <- {},
    Planned <- {"run_processing_pipeline", "generate_outputs"},
    Births <- {"approval", "clarify", "blocked", "rerun"},
    MaxVersion <- 1, MaxRevision <- 1, MaxGrants <- 1, MaxFaults <- 0,
    task <- [status |-> row.status, cur |-> row.cur, plan |-> row.plan],
    spec <- [rev |-> 1, blocked |-> row.blocked, ask |-> row.spec.ask],
    step <- [s \in {"plan_task", "normalize_aoi", "search_candidates",
                    "recommend_dataset", "run_processing_pipeline",
                    "generate_outputs"} |-> "absent"],
    artifacts <- "none", req <- <<>>, wk <- <<>>, inbox <- 0,
    unsent <- IF row.status = "queued" THEN 1 ELSE 0,
    granted <- IF row.status = "queued" THEN 1 ELSE 0,
    taken <- 0, lost <- 0, crashes <- 0, clarified <- FALSE

\* However a task comes about - from clear words, from words with gaps, from
\* a confirmation, as a follow-up or a rerun, its area found, inherited, asked
\* for or refused - the row that is committed is one the life of a task starts
\* from: status, current step, plan status, operation plan and the active
\* revision's flags fit one another.
BornAsModelled == stage = "built" => NewTask!Init

\* A task that may run covers the area it was asked for: a box, a named place
\* and an uploaded boundary have a geometry of their kind or the row waits for
\* the user, after its creation and after every correction.
HasItsArea(task) ==
    \/ ~task.known \/ task.status = "waiting_clarification"
    \/ /\ task.spec.source = "file_upload" => task.shape = "file"
       /\ task.spec.area = "bbox" /\ task.spec.source # "file_upload"
             => task.shape = "bbox"
       /\ task.spec.area # "none" /\ task.spec.source \in {"admin_name", "place_alias"}
             => task.shape # "none"
AreaIsResolved == HasItsArea(latest) /\ (stage = "built" => HasItsArea(row))

\* No history of a session, however long and however favourable, makes the
\* program act on a request, show a correction or ask to confirm it while
\* nothing in the message, its context or its parse speaks for a field the
\* request needs: then it asks for the field.
ActsOnEvidence ==
    [][stage = "decide" /\ mode' \in {"execute_now", "confirm_understanding", "show_revision"}
         => \A field \in RequiredFields(TRUE, spec, latest) :
              BaseScore(field, spec, msg.text, latest, intent) > 0]_vars

\* What tests/test_orchestrator.py:147 says of a rerun or a follow-up that
\* does not touch the area: it inherits the original one.  The row may be
\* committed blocked for want of a boundary although the parent has it.
InheritedAreaIsUsed == stage = "built" /\ row.heir => ~row.blocked
=============================================================================
