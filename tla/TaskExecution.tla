--------------------------- MODULE TaskExecution ---------------------------
(***************************************************************************)
(* One task between the HTTP requests that edit, approve, reject or        *)
(* correct it, the Celery queue, and the workers that walk the LangGraph   *)
(* runtime over it.                                                        *)
(*                                                                         *)
(* The task_runs row is the record `task`.  Every request and every graph  *)
(* node has a SQLAlchemy session of its own under READ COMMITTED without a *)
(* version column: it loads the row, decides on what it loaded, and its    *)
(* flush writes back the columns whose value it changed (Save).  Where the *)
(* code does slow work between the load and the flush (the preflight of a  *)
(* plan, AOI normalisation, a call to the planner or ReAct model, a tool), *)
(* or may wait for another transaction between them (the start of a run),  *)
(* the load and the write are two actions; elsewhere one action is the     *)
(* whole transaction.                                                      *)
(***************************************************************************)
EXTENDS Naturals, TaskStatus

CONSTANTS
    Requests,    \* HTTP requests that can be in flight at once
    Workers,     \* Celery worker processes
    Planned,     \* graph steps listed in the task's plan
    Births,      \* how the task was created: keys of BirthRows
    Kinds,       \* the requests clients send
    MaxVersion,  \* bound on operation_plan_version
    MaxRevision, \* bound on revision_number
    MaxGrants,   \* bound on submissions for execution
    MaxFaults    \* bound on worker crashes and lost enqueues

GraphSteps == {"normalize_aoi", "search_candidates", "recommend_dataset",
               "run_processing_pipeline", "generate_outputs"}
Steps == GraphSteps \cup {"plan_task"}
BirthKinds == {"approval", "clarify", "blocked", "rerun"}
RequestKinds == {"patch", "approve", "reject", "correct"}

ASSUME ConstantsAssumption ==
    /\ Planned \subseteq GraphSteps
    /\ {"run_processing_pipeline", "generate_outputs"} \subseteq Planned
    /\ Births \subseteq BirthKinds
    /\ Kinds \subseteq RequestKinds
    /\ MaxVersion \in Nat \ {0}
    /\ MaxRevision \in Nat \ {0}
    /\ MaxGrants \in Nat
    /\ MaxFaults \in Nat

VARIABLES
    task,       \* the task_runs row: status, plan (plan_json), cur (current_step)
    spec,       \* active revision and its task_specs mirror: rev, blocked, ask
    step,       \* status of each task_steps row
    artifacts,  \* the task's artifact rows: "none", "partial" or "complete"
    req,        \* what each HTTP request has loaded
    unsent,     \* committed submissions whose Celery message is not sent yet
    inbox,      \* Celery messages waiting in the broker
    wk,         \* where each worker is in the graph and what it has loaded
    granted,    \* history: submissions for execution so far
    taken,      \* history: messages taken by workers
    lost,       \* history: submissions whose message was never sent
    crashes,    \* history: workers that stopped in the middle of a run
    clarified   \* history: whether a run has ended by asking for clarification

vars == <<task, spec, step, artifacts, req, unsent, inbox, wk,
          granted, taken, lost, crashes, clarified>>

apiVars == <<req, granted>>
queueVars == <<unsent, inbox, taken, lost>>
endVars == <<crashes, clarified>>
-----------------------------------------------------------------------------
PlanStatuses == {"ready", "needs_clarification", "running", "success", "failed"}
OpStatuses == {"none", "draft", "validated", "approved", "rejected"}

Plan == [st : PlanStatuses, op : OpStatuses, ver : 0..MaxVersion]
CurrentSteps == Steps \cup {"parse_task", "awaiting_approval"}
Row == [status : TaskStatuses, plan : Plan, cur : CurrentSteps]

NoPlan == [st |-> "ready", op |-> "none", ver |-> 0]
NoRow == [status |-> "draft", plan |-> NoPlan, cur |-> "parse_task"]

\* A session's flush: only the columns whose value differs from the loaded
\* one are in the UPDATE, the others keep what is in the database by then.
Save(seen, new) ==
    [status |-> IF new.status = seen.status THEN task.status ELSE new.status,
     plan   |-> IF new.plan = seen.plan THEN task.plan ELSE new.plan,
     cur    |-> IF new.cur = seen.cur THEN task.cur ELSE new.cur]

\* The rows _build_task leaves behind.
BirthRows ==
    [approval |-> {[status |-> "awaiting_approval", cur |-> "awaiting_approval",
                    plan |-> [st |-> "ready", op |-> "draft", ver |-> 1]]},
     clarify  |-> {[status |-> "waiting_clarification", cur |-> "parse_task",
                    plan |-> [NoPlan EXCEPT !.st = "needs_clarification"]]},
     blocked  |-> {[status |-> "waiting_clarification", cur |-> "normalize_aoi",
                    plan |-> plan] :
                     plan \in {NoPlan, [NoPlan EXCEPT !.st = "needs_clarification"],
                              [st |-> "ready", op |-> "draft", ver |-> 1]}},
     rerun    |-> {[status |-> "queued", cur |-> "parse_task", plan |-> NoPlan]}]

IdleRequest == [kind |-> "none", seen |-> NoRow, ver |-> 0, rev |-> 0]
IdleWorker == [pc |-> "idle", node |-> "normalize_aoi", seen |-> NoRow,
               ask |-> FALSE, rev |-> 0, outputs |-> FALSE]

Init ==
    \E kind \in Births :
      LET sent == IF kind = "rerun" THEN 1 ELSE 0 IN
      /\ task \in BirthRows[kind]
      /\ spec = [rev |-> 1, blocked |-> kind = "blocked",
                 ask |-> kind \in {"clarify", "blocked"}]
      /\ step = [s \in Steps |-> "absent"]
      /\ artifacts = "none"
      /\ req = [r \in Requests |-> IdleRequest]
      /\ wk = [w \in Workers |-> IdleWorker]
      /\ unsent = sent
      /\ granted = sent
      /\ inbox = 0
      /\ taken = 0
      /\ lost = 0
      /\ crashes = 0
      /\ clarified = FALSE
-----------------------------------------------------------------------------
(* The HTTP requests.                                                      *)

MutantReviewable == task.status \in {"awaiting_approval", "cancelled"}

\* Patch, approve and reject refuse a task that is not awaiting approval.
Reviewable == task.status = "awaiting_approval"

\* PATCH, approve and reject: _load_task and the checks on what it loaded.
LoadForReview(r, kind, v) ==
    /\ req[r].kind = "none"
    /\ kind \in Kinds
    /\ Reviewable
    /\ \/ kind = "patch" /\ v > task.plan.ver
       \/ kind = "approve" /\ v = task.plan.ver /\ task.plan.op # "none"
       \/ kind = "reject" /\ v = task.plan.ver
    /\ req' = [req EXCEPT ![r] =
                 [kind |-> kind, seen |-> task, ver |-> v, rev |-> 0]]
    /\ UNCHANGED <<task, spec, step, artifacts, queueVars, wk, granted, endVars>>

\* update_task_plan_draft, from the validated plan to the commit.
Patch(r) ==
    LET seen == req[r].seen IN
    /\ req[r].kind = "patch"
    /\ task' = Save(seen, [seen EXCEPT !.plan.op = "validated",
                                       !.plan.ver = req[r].ver])
    /\ req' = [req EXCEPT ![r] = IdleRequest]
    /\ UNCHANGED <<spec, step, artifacts, queueVars, wk, granted, endVars>>

MutantApproveWithoutSend(r) ==
    LET seen == req[r].seen IN
    /\ req[r].kind = "approve"
    /\ granted < MaxGrants
    /\ task' = Save(seen, [seen EXCEPT !.plan.op = "approved",
                                       !.status = "queued"])
    /\ granted' = granted + 1
    /\ req' = [req EXCEPT ![r] = IdleRequest]
    /\ UNCHANGED <<spec, step, artifacts, queueVars, wk, endVars>>

\* approve_task_plan after its preflight: plan approved, APPROVED and QUEUED
\* in one commit; the Celery message is sent after it (Send).
Approve(r) ==
    LET seen == req[r].seen IN
    /\ req[r].kind = "approve"
    /\ granted < MaxGrants
    /\ task' = Save(seen, [seen EXCEPT !.plan.op = "approved",
                                       !.status = "queued"])
    /\ granted' = granted + 1
    /\ unsent' = unsent + 1
    /\ req' = [req EXCEPT ![r] = IdleRequest]
    /\ UNCHANGED <<spec, step, artifacts, inbox, taken, lost, wk, endVars>>

\* reject_task_plan: rejected_at makes plan_json differ from what was loaded.
Reject(r) ==
    LET seen == req[r].seen
        op   == IF seen.plan.op = "none" THEN "none" ELSE "rejected"
    IN
    /\ req[r].kind = "reject"
    /\ task' = [Save(seen, [seen EXCEPT !.status = "cancelled",
                                        !.cur = "awaiting_approval"])
                EXCEPT !.plan = [seen.plan EXCEPT !.op = op]]
    /\ req' = [req EXCEPT ![r] = IdleRequest]
    /\ UNCHANGED <<spec, step, artifacts, queueVars, wk, granted, endVars>>

\* A message read as a correction of the task: the active revision it is
\* based on and the task row are loaded, whatever the task's status.  What the
\* row's plan_json holds is not kept: a correction never writes that column.
LoadForCorrection(r) ==
    /\ req[r].kind = "none"
    /\ "correct" \in Kinds
    /\ spec.rev < MaxRevision
    /\ req' = [req EXCEPT ![r] =
                 [kind |-> "correct", seen |-> [task EXCEPT !.plan = NoPlan],
                  ver |-> 0, rev |-> spec.rev]]
    /\ UNCHANGED <<task, spec, step, artifacts, queueVars, wk, granted, endVars>>

\* _apply_correction_revision.  The unique index on (task_id,
\* revision_number) refuses base + 1 when another correction got there first.
\* AOI normalisation either blocks the new revision or forces the task back
\* to awaiting_approval; plan_json is not touched.
Correct(r, blocked) ==
    LET seen == req[r].seen
        new  == IF blocked
                THEN [seen EXCEPT !.status = "waiting_clarification",
                                  !.cur = "normalize_aoi"]
                ELSE [seen EXCEPT !.status = "awaiting_approval",
                                  !.cur = "awaiting_approval"]
    IN
    /\ req[r].kind = "correct"
    /\ spec.rev = req[r].rev
    /\ spec' = [rev |-> spec.rev + 1, blocked |-> blocked, ask |-> blocked]
    /\ task' = Save(seen, new)
    /\ req' = [req EXCEPT ![r] = IdleRequest]
    /\ UNCHANGED <<step, artifacts, queueVars, wk, granted, endVars>>

\* A request that ends in an error response: get_db rolls back.
Abandon(r) ==
    /\ req[r].kind # "none"
    /\ req' = [req EXCEPT ![r] = IdleRequest]
    /\ UNCHANGED <<task, spec, step, artifacts, queueVars, wk, granted, endVars>>

\* _queue_or_run: run_task_async.delay after the commit.
Send ==
    /\ unsent > 0
    /\ unsent' = unsent - 1
    /\ inbox' = inbox + 1
    /\ UNCHANGED <<task, spec, step, artifacts, apiVars, taken, lost, wk, endVars>>

\* The API process stops, or the broker refuses, after the commit.
SendLost ==
    /\ unsent > 0
    /\ lost + crashes < MaxFaults
    /\ unsent' = unsent - 1
    /\ lost' = lost + 1
    /\ UNCHANGED <<task, spec, step, artifacts, apiVars, inbox, taken, wk, endVars>>
-----------------------------------------------------------------------------
(* The worker: run_task_graph, one action per session of a graph node.     *)

Moves(w, to) == wk' = [wk EXCEPT ![w].pc = to, ![w].seen = NoRow]
Stops(w) == wk' = [wk EXCEPT ![w] = IdleWorker]

\* The message is acknowledged when it is taken, before the task runs.
Take(w) ==
    /\ wk[w].pc = "idle"
    /\ inbox > 0
    /\ inbox' = inbox - 1
    /\ taken' = taken + 1
    /\ wk' = [wk EXCEPT ![w].pc = "parse"]
    /\ UNCHANGED <<task, spec, step, artifacts, apiVars, unsent, lost, endVars>>

\* parse_task_node and route_after_parse
ParseNode(w) ==
    /\ wk[w].pc = "parse"
    /\ Moves(w, IF spec.ask THEN "clarify" ELSE "plan")
    /\ UNCHANGED <<task, spec, step, artifacts, apiVars, queueVars, endVars>>

\* plan_task_node up to build_task_plan, and route_after_plan.
PlanNode(w) ==
    LET gated == \/ task.status = "awaiting_approval"
                 \/ task.plan.op \in {"draft", "validated"}
    IN
    /\ wk[w].pc = "plan"
    /\ \/ /\ gated
          /\ Moves(w, "approval")
       \/ /\ ~gated
          /\ task.plan.op = "approved"
          /\ wk' = [wk EXCEPT ![w].ask = spec.ask,
                              ![w].pc = IF task.plan.st = "failed"
                                        THEN "failed" ELSE "begin"]
       \/ /\ ~gated
          /\ task.plan.op # "approved"
          /\ wk' = [wk EXCEPT ![w].ask = spec.ask, ![w].seen = task,
                              ![w].pc = "build"]
    /\ UNCHANGED <<task, spec, step, artifacts, apiVars, queueVars, endVars>>

MutantBuiltPlan(seen, asks) ==
    IF asks THEN [NoPlan EXCEPT !.st = "needs_clarification"]
    ELSE IF seen.plan.op = "none"
         THEN [st |-> "ready", op |-> "validated", ver |-> 1]
         ELSE NoPlan

\* The plan built from the spec, which becomes an approved operation plan when
\* the task had none.
BuiltPlan(seen, asks) ==
    IF asks THEN [NoPlan EXCEPT !.st = "needs_clarification"]
    ELSE IF seen.plan.op = "none"
         THEN [st |-> "ready", op |-> "approved", ver |-> 1]
         ELSE NoPlan

\* The rest of plan_task_node: build_task_plan (a spec that asks always yields
\* a plan that asks, and so may the planner), then plan_json is replaced.
BuildPlan(w, asks) ==
    LET seen == wk[w].seen IN
    /\ wk[w].pc = "build"
    /\ wk[w].ask => asks
    /\ task' = Save(seen, [seen EXCEPT !.plan = BuiltPlan(seen, asks)])
    /\ Moves(w, IF asks THEN "clarify" ELSE "begin")
    /\ UNCHANGED <<spec, step, artifacts, apiVars, queueVars, endVars>>

MutantExecutionBlocked == FALSE

\* maybe_skip_runtime_for_execution_block: what the active revision says now.
ExecutionBlocked == spec.blocked

\* normalize_aoi_node: the task is loaded and, unless it is running already,
\* the checks of _prepare_runtime_start are made.  The status changes here are
\* outside the node's try block: an illegal one leaves the graph, uncommitted.
CheckStart(w) ==
    LET clarifying == task.status = "waiting_clarification" \/ wk[w].ask IN
    /\ wk[w].pc = "begin"
    /\ \/ /\ task.status = "running"
          /\ Moves(w, "step")
          /\ UNCHANGED task
       \/ /\ task.status # "running"
          /\ ExecutionBlocked
          /\ task' = [status |-> "waiting_clarification", cur |-> "normalize_aoi",
                      plan |-> [task.plan EXCEPT !.st = "needs_clarification"]]
          /\ Moves(w, "clarify")
       \/ /\ task.status # "running"
          /\ ~ExecutionBlocked
          /\ clarifying
          /\ CanSetTask(task.status, "waiting_clarification")
          /\ task' = IF task.status = "waiting_clarification" THEN task
                     ELSE [task EXCEPT !.status = "waiting_clarification",
                                       !.cur = "parse_task"]
          /\ Moves(w, "clarify")
       \/ /\ task.status # "running"
          /\ ~ExecutionBlocked
          /\ clarifying
          /\ ~CanSetTask(task.status, "waiting_clarification")
          /\ Stops(w)
          /\ UNCHANGED task
       \/ /\ task.status # "running"
          /\ ~ExecutionBlocked
          /\ ~clarifying
          /\ wk' = [wk EXCEPT ![w].pc = "start", ![w].seen = task,
                              ![w].rev = spec.rev]
          /\ UNCHANGED task
    /\ UNCHANGED <<spec, step, artifacts, apiVars, queueVars, endVars>>

\* The rest of _prepare_runtime_start.  ensure_task_steps inserts the missing
\* steps, and their foreign key waits for a correction that has the task's
\* row locked; RUNNING is then written over the row as it was loaded.
Start(w) ==
    LET seen == wk[w].seen IN
    /\ wk[w].pc = "start"
    /\ \/ /\ CanSetTask(seen.status, "running")
          /\ task' = Save(seen, [status |-> "running", cur |-> "plan_task",
                                 plan |-> [seen.plan EXCEPT !.st = "running"]])
          /\ step' = [s \in Steps |->
                        IF s \in Planned \cup {"plan_task"} /\ step[s] = "absent"
                        THEN "pending" ELSE step[s]]
          /\ wk' = [wk EXCEPT ![w].pc = "step", ![w].seen = NoRow, ![w].rev = 0]
       \/ /\ ~CanSetTask(seen.status, "running")
          /\ Stops(w)
          /\ UNCHANGED <<task, step>>
    /\ UNCHANGED <<spec, artifacts, apiVars, queueVars, endVars>>

NextNode ==
    [normalize_aoi           |-> "search_candidates",
     search_candidates       |-> "recommend_dataset",
     recommend_dataset       |-> "run_processing_pipeline",
     run_processing_pipeline |-> "generate_outputs"]

MutantAdvance(w) ==
    wk' = [wk EXCEPT ![w].pc = IF wk[w].node = "run_processing_pipeline"
                               THEN "finish" ELSE "step",
                     ![w].node = IF @ = "generate_outputs" THEN @
                                 ELSE NextNode[@],
                     ![w].seen = NoRow]

\* The edge out of a node whose step was skipped.
Advance(w) ==
    wk' = [wk EXCEPT ![w].pc = IF wk[w].node = "generate_outputs"
                               THEN "finish" ELSE "step",
                     ![w].node = IF @ = "generate_outputs" THEN @
                                 ELSE NextNode[@],
                     ![w].seen = NoRow]

\* set_task_plan_step_status for a step that has not failed.
StepPlan(p) ==
    IF p.st \in {"needs_clarification", "success"} THEN p
    ELSE [p EXCEPT !.st = "running"]

\* The except block of _run_runtime_step over the row its session has loaded.
\* A FAILED the table refuses escapes it, and nothing of it is committed.
Fail(w, seen) ==
    LET fails == {s \in Steps : s = seen.cur /\ step[s] \in {"pending", "running"}}
        saved == Save(seen, [seen EXCEPT !.status = "failed",
                                         !.plan.st = "failed"])
    IN
    \/ /\ CanSetTask(seen.status, "failed")
       /\ step' = [s \in Steps |-> IF s \in fails THEN "failed" ELSE step[s]]
       /\ task' = IF fails = {} THEN saved
                  ELSE [saved EXCEPT !.plan = [seen.plan EXCEPT !.st = "failed"]]
       /\ Moves(w, "failed")
    \/ /\ ~CanSetTask(seen.status, "failed")
       /\ Stops(w)
       /\ UNCHANGED <<task, step>>

\* Position of a node in the graph.
Position ==
    [normalize_aoi           |-> 1,
     search_candidates       |-> 2,
     recommend_dataset       |-> 3,
     run_processing_pipeline |-> 4,
     generate_outputs        |-> 5]

\* _run_runtime_step: a node whose step the plan does not list only appends an
\* event, so the node that loads the task is the first listed one.
LoadStep(w) ==
    /\ wk[w].pc = "step"
    /\ \E n \in Planned :
         /\ Position[n] >= Position[wk[w].node]
         /\ \A m \in Planned : Position[m] >= Position[wk[w].node]
                                 => Position[n] <= Position[m]
         /\ wk' = [wk EXCEPT ![w].pc = "react", ![w].node = n, ![w].seen = task]
    /\ UNCHANGED <<task, spec, step, artifacts, apiVars, queueVars, endVars>>

\* execute_tool_step before the handler: the ReAct decision is skip or call.
\* Recording it is a step transition the table may refuse.
React(w, target) ==
    LET s == wk[w].node
        seen == wk[w].seen
    IN
    /\ wk[w].pc = "react"
    /\ target \in {"skipped", "running"}
    /\ CanSetStep(step[s], target)
    /\ step' = [step EXCEPT ![s] = target]
    /\ LET saved == [Save(seen, [seen EXCEPT !.cur = s])
                     EXCEPT !.plan = StepPlan(seen.plan)]
       IN  /\ task' = saved
           /\ IF target = "skipped" THEN Advance(w)
              ELSE wk' = [wk EXCEPT ![w].pc = "tool", ![w].seen = saved]
    /\ UNCHANGED <<spec, artifacts, apiVars, queueVars, endVars>>

\* A limit exceeded, a ReAct verdict of fail, an unknown function, or a step
\* transition the table refuses.
ReactFails(w) ==
    /\ wk[w].pc = "react"
    /\ Fail(w, wk[w].seen)
    /\ UNCHANGED <<spec, artifacts, apiVars, queueVars, endVars>>

MutantHasOutputs(w) == TRUE

\* generate_outputs raises without the pipeline outputs of this very run.
HasOutputs(w) == wk[w].node = "generate_outputs" => wk[w].outputs

MutantArtifactsAfter(s) == artifacts

\* generate_outputs replaces the artifact rows.
ArtifactsAfter(s) == IF s = "generate_outputs" THEN "complete" ELSE artifacts

\* The handler returned: the step succeeds, unless the table refuses it.
\* plan_json is written from the copy loaded when the handler started.
ToolReturns(w) ==
    LET s == wk[w].node
        seen == wk[w].seen
    IN
    /\ wk[w].pc = "tool"
    /\ HasOutputs(w)
    /\ artifacts' = ArtifactsAfter(s)
    /\ \/ /\ CanSetStep(step[s], "success")
          /\ step' = [step EXCEPT ![s] = "success"]
          /\ task' = [Save(seen, [seen EXCEPT !.cur = s])
                      EXCEPT !.plan = StepPlan(seen.plan)]
          /\ wk' = [wk EXCEPT ![w].pc = IF s = "generate_outputs"
                                        THEN "finish" ELSE "step",
                              ![w].node = IF s = "generate_outputs" THEN s
                                          ELSE NextNode[s],
                              ![w].seen = NoRow,
                              ![w].outputs = @ \/ s = "run_processing_pipeline"]
       \/ /\ ~CanSetStep(step[s], "success")
          /\ Fail(w, seen)
    /\ UNCHANGED <<spec, apiVars, queueVars, endVars>>

\* The handler raised: what it had flushed is committed with the event.
\* generate_outputs may have deleted the old artifact rows by then.
ToolRaises(w) ==
    /\ wk[w].pc = "tool"
    /\ Moves(w, "except")
    /\ \/ UNCHANGED artifacts
       \/ /\ wk[w].node = "generate_outputs"
          /\ wk[w].outputs
          /\ artifacts' = "partial"
    /\ UNCHANGED <<task, spec, step, apiVars, queueVars, endVars>>

MutantHandleFailure(w) ==
    /\ wk[w].pc = "except"
    /\ Stops(w)
    /\ UNCHANGED <<task, spec, step, artifacts, apiVars, queueVars, endVars>>

\* The except block after a handler that raised: the commit of its event has
\* expired the row, so the block sees the task as it is now.
HandleFailure(w) ==
    /\ wk[w].pc = "except"
    /\ Fail(w, task)
    /\ UNCHANGED <<spec, artifacts, apiVars, queueVars, endVars>>

\* generate_outputs_node after its step: SUCCESS, or the except block when the
\* table refuses it.
Finish(w) ==
    /\ wk[w].pc = "finish"
    /\ \/ /\ CanSetTask(task.status, "success")
          /\ task' = [status |-> "success", cur |-> "generate_outputs",
                      plan |-> [task.plan EXCEPT !.st = "success"]]
          /\ Stops(w)
          /\ UNCHANGED step
       \/ /\ ~CanSetTask(task.status, "success")
          /\ Fail(w, task)
    /\ UNCHANGED <<spec, artifacts, apiVars, queueVars, endVars>>

MutantFinalizeFailed(w) ==
    /\ wk[w].pc = "failed"
    /\ task' = IF task.status = "running"
               THEN [task EXCEPT !.status = "failed"] ELSE task
    /\ Stops(w)
    /\ UNCHANGED <<spec, step, artifacts, apiVars, queueVars, endVars>>

\* finalize_failed_node
FinalizeFailed(w) ==
    /\ wk[w].pc = "failed"
    /\ task' = [task EXCEPT !.status = "failed"]
    /\ Stops(w)
    /\ UNCHANGED <<spec, step, artifacts, apiVars, queueVars, endVars>>

MutantFinalizeApproval(w) ==
    /\ wk[w].pc = "approval"
    /\ task' = [task EXCEPT !.status = "awaiting_approval",
                            !.cur = "awaiting_approval",
                            !.plan.st = "approval_required"]
    /\ Stops(w)
    /\ UNCHANGED <<spec, step, artifacts, apiVars, queueVars, endVars>>

\* finalize_approval_required_node
FinalizeApproval(w) ==
    /\ wk[w].pc = "approval"
    /\ task' = IF task.status = "awaiting_approval" THEN task
               ELSE [task EXCEPT !.status = "awaiting_approval",
                                 !.cur = "awaiting_approval"]
    /\ Stops(w)
    /\ UNCHANGED <<spec, step, artifacts, apiVars, queueVars, endVars>>

\* finalize_success_node with need_clarification: the session is closed before
\* the task is changed, so the object is detached and no UPDATE is issued;
\* only the event is written.
FinalizeClarification(w) ==
    /\ wk[w].pc = "clarify"
    /\ Stops(w)
    /\ clarified' = TRUE
    /\ UNCHANGED <<task, spec, step, artifacts, apiVars, queueVars, crashes>>

\* The worker process dies, or an exception leaves the graph: the open
\* transaction is rolled back and the message is not delivered again.
Crash(w) ==
    /\ wk[w].pc # "idle"
    /\ lost + crashes < MaxFaults
    /\ crashes' = crashes + 1
    /\ Stops(w)
    /\ UNCHANGED <<task, spec, step, artifacts, apiVars, queueVars, clarified>>
-----------------------------------------------------------------------------
Request(r) ==
    \/ \E kind \in {"patch", "approve", "reject"}, v \in 0..MaxVersion :
         LoadForReview(r, kind, v)
    \/ LoadForCorrection(r)
    \/ Patch(r)
    \/ Approve(r)
    \/ Reject(r)
    \/ \E blocked \in BOOLEAN : Correct(r, blocked)
    \/ Abandon(r)

Work(w) ==
    \/ ParseNode(w)
    \/ PlanNode(w)
    \/ \E asks \in BOOLEAN : BuildPlan(w, asks)
    \/ CheckStart(w)
    \/ Start(w)
    \/ LoadStep(w)
    \/ \E target \in {"skipped", "running"} : React(w, target)
    \/ ReactFails(w)
    \/ ToolReturns(w)
    \/ ToolRaises(w)
    \/ HandleFailure(w)
    \/ Finish(w)
    \/ FinalizeFailed(w)
    \/ FinalizeApproval(w)
    \/ FinalizeClarification(w)

Next ==
    \/ \E r \in Requests : Request(r)
    \/ Send
    \/ SendLost
    \/ \E w \in Workers : Take(w) \/ Work(w) \/ Crash(w)

Spec == Init /\ [][Next]_vars

\* The API process and the workers keep running: a committed submission is
\* sent, an idle worker takes a waiting message, and a graph node returns
\* (model calls, tools and searches have timeouts).  Clients owe nothing.
Fairness ==
    /\ WF_vars(Send)
    /\ \A w \in Workers : WF_vars(Take(w) \/ Work(w))

FairSpec == Spec /\ Fairness
-----------------------------------------------------------------------------
PCs == {"idle", "parse", "plan", "build", "begin", "start", "step", "react",
        "tool", "except", "finish", "failed", "approval", "clarify"}

RequestState == [kind : RequestKinds \cup {"none"}, seen : Row,
                 ver : 0..MaxVersion, rev : 0..(MaxRevision - 1)]
WorkerState == [pc : PCs, node : GraphSteps, seen : Row,
                ask : BOOLEAN, rev : 0..MaxRevision, outputs : BOOLEAN]

\* Every variable holds a value the columns and the graph state can hold.
TypeOK ==
    /\ task \in Row
    /\ spec \in [rev : 1..MaxRevision, blocked : BOOLEAN, ask : BOOLEAN]
    /\ step \in [Steps -> StepStatuses]
    /\ artifacts \in {"none", "partial", "complete"}
    /\ req \in [Requests -> RequestState]
    /\ wk \in [Workers -> WorkerState]
    /\ unsent \in Nat
    /\ inbox \in Nat
    /\ granted \in Nat
    /\ taken \in Nat
    /\ lost \in Nat
    /\ crashes \in Nat
    /\ clarified \in BOOLEAN

\* Where a worker is that has not said yet what becomes of its submission.
Deciding(w) == wk[w].pc \in {"parse", "plan", "build", "begin", "start",
                             "failed", "approval", "clarify"}

\* A QUEUED task is not forgotten: its submission is still on its way, or a
\* worker has it and has not decided.  However approvals, corrections and runs
\* of the same task overlap, only a message that was never sent, a worker that
\* died, or a question that was not stored leaves QUEUED behind.
QueuedIsServed ==
    task.status = "queued" =>
        \/ unsent + inbox > 0
        \/ \E w \in Workers : Deciding(w)
        \/ lost + crashes > 0
        \/ clarified

Executing(w) == wk[w].pc \in {"step", "react", "tool", "except", "finish"}

\* A task shown as RUNNING has a worker inside its runtime steps, unless a
\* worker died: no path through the except blocks, the forced finalizers and
\* the concurrent edits of the row leaves RUNNING behind.
RunningIsAttended ==
    task.status = "running" => crashes > 0 \/ \E w \in Workers : Executing(w)

\* A successful task went through its last step: SUCCESS is only reached by
\* a run whose generate_outputs step returned, or was skipped by ReAct.
SuccessHasOutputs ==
    task.status = "success" => step["generate_outputs"] \in {"success", "skipped"}

\* The outputs a task publishes come from a pipeline that succeeded, and the
\* step is not marked otherwise later by another run of the same task.
OutputsFromPipeline ==
    step["generate_outputs"] = "success" =>
        step["run_processing_pipeline"] = "success"

\* A step that has ended keeps its outcome, whatever runs, corrections and
\* failures of other runs come after it.
StepsNeverReopen ==
    [][\A s \in Steps : step[s] \in TerminalStepStatuses => step'[s] = step[s]]_vars

\* The runtime starts where a worker has seen the task QUEUED and its active
\* revision neither execution_blocked nor waiting for an answer.  If it is by
\* the time of the start, a correction came between the two: the worker writes
\* RUNNING over the row that correction has left.
StartIsGated ==
    [][task.status # "running" /\ task'.status = "running" =>
         \E w \in Workers :
           /\ wk[w].pc = "start" /\ wk[w].seen.status = "queued"
           /\ spec.blocked \/ spec.ask => spec.rev > wk[w].rev]_vars

\* A task that succeeded, failed or was cancelled keeps that status.
TerminalIsFinal ==
    [][task.status \in TerminalStatuses => task'.status = task.status]_vars

\* The runtime starts on an operation plan that is approved at that moment.
StartIsApproved ==
    [][task.status # "running" /\ task'.status = "running" =>
         task'.plan.op = "approved"]_vars

\* A successful task that produced outputs has all of its artifact rows.
SuccessArtifactsComplete ==
    task.status = "success" /\ step["generate_outputs"] = "success" =>
        artifacts = "complete"

\* A run that started ends: the task leaves RUNNING.
RunsEnd == task.status = "running" ~> task.status # "running"

\* A task queued on an approved plan and with nothing to ask is decided: it
\* starts, fails or goes back to review, unless its plan is replaced first.
ApprovedIsDecided ==
    task.status = "queued" /\ task.plan.op = "approved" /\ ~spec.ask
        ~> task.status # "queued" \/ task.plan.op # "approved" \/ spec.ask

\* A run that ends by asking for clarification leaves the task waiting for it.
ClarificationPersisted ==
    [][\A w \in Workers :
         FinalizeClarification(w) => task'.status = "waiting_clarification"]_vars
=============================================================================
