------------------------ MODULE TaskExecutionProofs ------------------------
(***************************************************************************)
(* What holds of TaskExecution for every set of requests and workers and   *)
(* every value of the bounds.                                              *)
(***************************************************************************)
EXTENDS TaskExecution, TLAPS

\* Writing back part of a row yields a row.
LEMMA SaveType ==
    ASSUME task \in Row, NEW seen \in Row, NEW new \in Row
    PROVE  Save(seen, new) \in Row
BY DEF Save, Row

\* The placeholder values of idle requests and workers.
LEMMA IdleTypes ==
    /\ NoPlan \in Plan
    /\ NoRow \in Row
    /\ IdleRequest \in RequestState
    /\ IdleWorker \in WorkerState
<1>1. NoPlan \in Plan
  BY ConstantsAssumption DEF NoPlan, Plan, PlanStatuses, OpStatuses
<1>2. NoRow \in Row
  BY <1>1 DEF NoRow, Row, CurrentSteps, Steps, TaskStatuses
<1>3. IdleRequest \in RequestState
  BY <1>2, ConstantsAssumption DEF IdleRequest, RequestState, RequestKinds
<1>4. IdleWorker \in WorkerState
  BY <1>2, ConstantsAssumption DEF IdleWorker, WorkerState, PCs, GraphSteps
<1> QED
  BY <1>1, <1>2, <1>3, <1>4

\* A worker that changes node or stops stays in a state of the graph.
LEMMA MovesType ==
    ASSUME wk \in [Workers -> WorkerState], NEW w \in Workers,
           NEW to \in PCs, Moves(w, to)
    PROVE  wk' \in [Workers -> WorkerState]
BY IdleTypes DEF Moves, WorkerState

LEMMA StopsType ==
    ASSUME wk \in [Workers -> WorkerState], NEW w \in Workers, Stops(w)
    PROVE  wk' \in [Workers -> WorkerState]
BY IdleTypes DEF Stops

\* The initial states are typed.
LEMMA InitType == Init => TypeOK
<1> SUFFICES ASSUME Init PROVE TypeOK
  OBVIOUS
<1>1. PICK kind \in Births : task \in BirthRows[kind]
  BY DEF Init
<1>2. kind \in BirthKinds /\ 1 \in 0..MaxVersion
  BY ConstantsAssumption
<1>3. [st |-> "ready", op |-> "draft", ver |-> 1] \in Plan
  BY <1>2 DEF Plan, PlanStatuses, OpStatuses
<1>4. [NoPlan EXCEPT !.st = "needs_clarification"] \in Plan
  BY IdleTypes DEF Plan, PlanStatuses
<1>5. task \in Row
  BY <1>1, <1>2, <1>3, <1>4, IdleTypes
     DEF BirthRows, BirthKinds, Row, CurrentSteps, Steps, GraphSteps, TaskStatuses
<1>6. spec \in [rev : 1..MaxRevision, blocked : BOOLEAN, ask : BOOLEAN]
  BY ConstantsAssumption DEF Init
<1>7. step \in [Steps -> StepStatuses] /\ artifacts = "none"
  BY DEF Init, StepStatuses
<1>8. req \in [Requests -> RequestState] /\ wk \in [Workers -> WorkerState]
  BY IdleTypes DEF Init
<1>9. /\ unsent \in Nat /\ granted \in Nat
      /\ inbox = 0 /\ taken = 0 /\ lost = 0 /\ crashes = 0 /\ clarified = FALSE
  BY DEF Init
<1> QED
  BY <1>5, <1>6, <1>7, <1>8, <1>9 DEF TypeOK

-----------------------------------------------------------------------------
(* Every action keeps the types.                                           *)

LEMMA LoadForReviewType ==
    ASSUME TypeOK, NEW r \in Requests, NEW kind \in {"patch", "approve", "reject"},
           NEW v \in 0..MaxVersion, LoadForReview(r, kind, v)
    PROVE  TypeOK'
<1>1. [kind |-> kind, seen |-> task, ver |-> v, rev |-> 0] \in RequestState
  BY ConstantsAssumption DEF TypeOK, RequestState, RequestKinds
<1>2. req' \in [Requests -> RequestState]
  BY <1>1 DEF LoadForReview, TypeOK
<1> QED
  BY <1>2 DEF LoadForReview, TypeOK, queueVars, endVars

LEMMA PatchType ==
    ASSUME TypeOK, NEW r \in Requests, Patch(r)
    PROVE  TypeOK'
<1> DEFINE new == [req[r].seen EXCEPT !.plan.op = "validated", !.plan.ver = req[r].ver]
<1>1. req[r].seen \in Row /\ req[r].ver \in 0..MaxVersion /\ task \in Row
  BY DEF TypeOK, RequestState
<1>2. new \in Row
  BY <1>1 DEF Row, Plan, OpStatuses
<1>3. task' \in Row
  <2>1. Save(req[r].seen, new) \in Row
    BY <1>1, <1>2, SaveType
  <2> QED
    BY <2>1 DEF Patch
<1>4. req' \in [Requests -> RequestState]
  BY IdleTypes DEF Patch, TypeOK
<1> QED
  BY <1>3, <1>4 DEF Patch, TypeOK, queueVars, endVars

LEMMA ApproveType ==
    ASSUME TypeOK, NEW r \in Requests, Approve(r)
    PROVE  TypeOK'
<1> DEFINE new == [req[r].seen EXCEPT !.plan.op = "approved", !.status = "queued"]
<1>1. req[r].seen \in Row /\ task \in Row
  BY DEF TypeOK, RequestState
<1>2. new \in Row
  BY <1>1 DEF Row, Plan, OpStatuses, TaskStatuses
<1>3. task' \in Row
  <2>1. Save(req[r].seen, new) \in Row
    BY <1>1, <1>2, SaveType
  <2> QED
    BY <2>1 DEF Approve
<1>4. req' \in [Requests -> RequestState]
  BY IdleTypes DEF Approve, TypeOK
<1>5. granted' \in Nat /\ unsent' \in Nat
  BY DEF Approve, TypeOK
<1> QED
  BY <1>3, <1>4, <1>5 DEF Approve, TypeOK, endVars

LEMMA RejectType ==
    ASSUME TypeOK, NEW r \in Requests, Reject(r)
    PROVE  TypeOK'
<1> DEFINE seen == req[r].seen
           op == IF seen.plan.op = "none" THEN "none" ELSE "rejected"
           new == [seen EXCEPT !.status = "cancelled", !.cur = "awaiting_approval"]
<1>1. seen \in Row /\ task \in Row
  BY DEF TypeOK, RequestState
<1>2. new \in Row
  BY <1>1 DEF Row, TaskStatuses, CurrentSteps
<1>3. [seen.plan EXCEPT !.op = op] \in Plan
  BY <1>1 DEF Row, Plan, OpStatuses
<1>4. Save(seen, new) \in Row
  BY <1>1, <1>2, SaveType
<1>5. [Save(seen, new) EXCEPT !.plan = [seen.plan EXCEPT !.op = op]] \in Row
  BY <1>3, <1>4 DEF Row
<1>6. task' \in Row
  BY <1>5 DEF Reject
<1>7. req' \in [Requests -> RequestState]
  BY IdleTypes DEF Reject, TypeOK
<1> QED
  BY <1>6, <1>7 DEF Reject, TypeOK, queueVars, endVars

LEMMA LoadForCorrectionType ==
    ASSUME TypeOK, NEW r \in Requests, LoadForCorrection(r)
    PROVE  TypeOK'
<1>1. [task EXCEPT !.plan = NoPlan] \in Row
  BY IdleTypes DEF TypeOK, Row
<1>2. spec.rev \in 0..(MaxRevision - 1)
  BY ConstantsAssumption DEF LoadForCorrection, TypeOK
<1>3. [kind |-> "correct", seen |-> [task EXCEPT !.plan = NoPlan],
       ver |-> 0, rev |-> spec.rev] \in RequestState
  BY <1>1, <1>2, ConstantsAssumption DEF RequestState, RequestKinds
<1>4. req' \in [Requests -> RequestState]
  BY <1>3 DEF LoadForCorrection, TypeOK
<1> QED
  BY <1>4 DEF LoadForCorrection, TypeOK, queueVars, endVars

LEMMA CorrectType ==
    ASSUME TypeOK, NEW r \in Requests, NEW blocked \in BOOLEAN, Correct(r, blocked)
    PROVE  TypeOK'
<1> DEFINE seen == req[r].seen
           new == IF blocked
                  THEN [seen EXCEPT !.status = "waiting_clarification",
                                    !.cur = "normalize_aoi"]
                  ELSE [seen EXCEPT !.status = "awaiting_approval",
                                    !.cur = "awaiting_approval"]
<1>1. seen \in Row /\ task \in Row
  BY DEF TypeOK, RequestState
<1>2. new \in Row
  BY <1>1 DEF Row, TaskStatuses, CurrentSteps, Steps, GraphSteps
<1>3. Save(seen, new) \in Row
  BY <1>1, <1>2, SaveType
<1>4. task' \in Row
  BY <1>3 DEF Correct
<1>5. req' \in [Requests -> RequestState]
  BY IdleTypes DEF Correct, TypeOK
<1>6. spec' \in [rev : 1..MaxRevision, blocked : BOOLEAN, ask : BOOLEAN]
  <2>1. req[r].rev \in 0..(MaxRevision - 1)
    BY DEF TypeOK, RequestState
  <2>2. spec.rev + 1 \in 1..MaxRevision
    BY <2>1, ConstantsAssumption DEF Correct
  <2> QED
    BY <2>2 DEF Correct
<1> QED
  BY <1>4, <1>5, <1>6 DEF Correct, TypeOK, queueVars, endVars

LEMMA AbandonType ==
    ASSUME TypeOK, NEW r \in Requests, Abandon(r)
    PROVE  TypeOK'
<1>1. req' \in [Requests -> RequestState]
  BY IdleTypes DEF Abandon, TypeOK
<1> QED
  BY <1>1 DEF Abandon, TypeOK, queueVars, endVars

LEMMA QueueType ==
    ASSUME TypeOK, Send \/ SendLost
    PROVE  TypeOK'
BY DEF Send, SendLost, TypeOK, apiVars, endVars

LEMMA TakeType ==
    ASSUME TypeOK, NEW w \in Workers, Take(w)
    PROVE  TypeOK'
<1>1. wk' \in [Workers -> WorkerState]
  BY DEF Take, TypeOK, WorkerState, PCs
<1> QED
  BY <1>1 DEF Take, TypeOK, apiVars, endVars

LEMMA ParseNodeType ==
    ASSUME TypeOK, NEW w \in Workers, ParseNode(w)
    PROVE  TypeOK'
<1>1. PICK to \in PCs : Moves(w, to)
  BY DEF ParseNode, PCs
<1>2. wk' \in [Workers -> WorkerState]
  BY <1>1, MovesType DEF TypeOK
<1> QED
  BY <1>2 DEF ParseNode, TypeOK, apiVars, queueVars, endVars

LEMMA PlanNodeType ==
    ASSUME TypeOK, NEW w \in Workers, PlanNode(w)
    PROVE  TypeOK'
<1>1. wk' \in [Workers -> WorkerState]
  <2>1. CASE Moves(w, "approval")
    BY <2>1, MovesType DEF TypeOK, PCs
  <2>2. CASE wk' = [wk EXCEPT ![w].ask = spec.ask,
                              ![w].pc = IF task.plan.st = "failed"
                                        THEN "failed" ELSE "begin"]
    <3> DEFINE new == [wk[w] EXCEPT !.ask = spec.ask,
                                    !.pc = IF task.plan.st = "failed"
                                           THEN "failed" ELSE "begin"]
    <3>1. new \in WorkerState
      BY DEF TypeOK, WorkerState, PCs
    <3>2. wk' = [wk EXCEPT ![w] = new]
      BY <2>2
    <3> HIDE DEF new
    <3> QED
      BY <3>1, <3>2 DEF TypeOK
  <2>3. CASE wk' = [wk EXCEPT ![w].ask = spec.ask, ![w].seen = task,
                              ![w].pc = "build"]
    <3> DEFINE new == [wk[w] EXCEPT !.ask = spec.ask, !.seen = task, !.pc = "build"]
    <3>1. new \in WorkerState
      BY DEF TypeOK, WorkerState, PCs
    <3>2. wk' = [wk EXCEPT ![w] = new]
      BY <2>3
    <3> HIDE DEF new
    <3> QED
      BY <3>1, <3>2 DEF TypeOK
  <2> QED
    BY <2>1, <2>2, <2>3 DEF PlanNode
<1> QED
  BY <1>1 DEF PlanNode, TypeOK, apiVars, queueVars, endVars

LEMMA BuildPlanType ==
    ASSUME TypeOK, NEW w \in Workers, NEW asks \in BOOLEAN, BuildPlan(w, asks)
    PROVE  TypeOK'
<1> DEFINE seen == wk[w].seen
<1>1. seen \in Row /\ task \in Row
  BY DEF TypeOK, WorkerState
<1>2. BuiltPlan(seen, asks) \in Plan
  BY <1>1, IdleTypes, ConstantsAssumption
     DEF BuiltPlan, Plan, PlanStatuses, OpStatuses
<1>3. [seen EXCEPT !.plan = BuiltPlan(seen, asks)] \in Row
  BY <1>1, <1>2 DEF Row
<1>4. Save(seen, [seen EXCEPT !.plan = BuiltPlan(seen, asks)]) \in Row
  BY <1>1, <1>3, SaveType
<1>5. task' \in Row
  BY <1>4 DEF BuildPlan
<1>6. wk' \in [Workers -> WorkerState]
  <2>1. PICK to \in PCs : Moves(w, to)
    BY DEF BuildPlan, PCs
  <2> QED
    BY <2>1, MovesType DEF TypeOK
<1> QED
  BY <1>5, <1>6 DEF BuildPlan, TypeOK, apiVars, queueVars, endVars

LEMMA CheckStartType ==
    ASSUME TypeOK, NEW w \in Workers, CheckStart(w)
    PROVE  TypeOK'
<1>1. task \in Row /\ task.plan \in Plan /\ spec.rev \in 0..MaxRevision
  BY ConstantsAssumption DEF TypeOK, Row
<1>2. [task.plan EXCEPT !.st = "needs_clarification"] \in Plan
  BY <1>1 DEF Plan, PlanStatuses
<1>3. task' \in Row
  <2>1. CASE task' = task
    BY <1>1, <2>1
  <2>2. CASE task' = [status |-> "waiting_clarification", cur |-> "normalize_aoi",
                      plan |-> [task.plan EXCEPT !.st = "needs_clarification"]]
    BY <1>2, <2>2 DEF Row, CurrentSteps, Steps, GraphSteps, TaskStatuses
  <2>3. CASE task' = [task EXCEPT !.status = "waiting_clarification",
                                  !.cur = "parse_task"]
    BY <1>1, <2>3 DEF Row, CurrentSteps, TaskStatuses
  <2> QED
    BY <2>1, <2>2, <2>3 DEF CheckStart
<1>4. wk' \in [Workers -> WorkerState]
  <2>1. CASE Moves(w, "step") \/ Moves(w, "clarify")
    BY <2>1, MovesType DEF TypeOK, PCs
  <2>2. CASE Stops(w)
    BY <2>2, StopsType DEF TypeOK
  <2>3. CASE wk' = [wk EXCEPT ![w].pc = "start", ![w].seen = task,
                              ![w].rev = spec.rev]
    <3> DEFINE new == [wk[w] EXCEPT !.pc = "start", !.seen = task, !.rev = spec.rev]
    <3>1. new \in WorkerState
      BY <1>1 DEF TypeOK, WorkerState, PCs
    <3>2. wk' = [wk EXCEPT ![w] = new]
      BY <2>3
    <3> HIDE DEF new
    <3> QED
      BY <3>1, <3>2 DEF TypeOK
  <2> QED
    BY <2>1, <2>2, <2>3 DEF CheckStart
<1> QED
  BY <1>3, <1>4 DEF CheckStart, TypeOK, apiVars, queueVars, endVars

LEMMA StartType ==
    ASSUME TypeOK, NEW w \in Workers, Start(w)
    PROVE  TypeOK'
<1> DEFINE seen == wk[w].seen
           row == [status |-> "running", cur |-> "plan_task",
                   plan |-> [seen.plan EXCEPT !.st = "running"]]
<1>1. seen \in Row /\ task \in Row
  BY DEF TypeOK, WorkerState
<1>2. row \in Row
  BY <1>1 DEF Row, Plan, PlanStatuses, CurrentSteps, Steps, TaskStatuses
<1>3. Save(seen, row) \in Row
  BY <1>1, <1>2, SaveType
<1>4. task' \in Row
  BY <1>1, <1>3 DEF Start
<1>5. step' \in [Steps -> StepStatuses]
  BY DEF Start, TypeOK, StepStatuses
<1>6. wk' \in [Workers -> WorkerState]
  <2>1. CASE wk' = [wk EXCEPT ![w].pc = "step", ![w].seen = NoRow, ![w].rev = 0]
    <3> DEFINE new == [wk[w] EXCEPT !.pc = "step", !.seen = NoRow, !.rev = 0]
    <3>1. NoRow \in Row /\ 0 \in 0..MaxRevision /\ wk[w] \in WorkerState
      BY IdleTypes, ConstantsAssumption DEF TypeOK
    <3>2. new \in WorkerState
      BY <3>1 DEF WorkerState, PCs
    <3>3. wk' = [wk EXCEPT ![w] = new]
      BY <2>1
    <3> HIDE DEF new
    <3> QED
      BY <3>2, <3>3 DEF TypeOK
  <2>2. CASE Stops(w)
    BY <2>2, StopsType DEF TypeOK
  <2> QED
    BY <2>1, <2>2 DEF Start
<1> QED
  BY <1>4, <1>5, <1>6 DEF Start, TypeOK, apiVars, queueVars, endVars

LEMMA LoadStepType ==
    ASSUME TypeOK, NEW w \in Workers, LoadStep(w)
    PROVE  TypeOK'
<1>1. PICK n \in GraphSteps :
        wk' = [wk EXCEPT ![w].pc = "react", ![w].node = n, ![w].seen = task]
  BY ConstantsAssumption DEF LoadStep
<1>2. [wk[w] EXCEPT !.pc = "react", !.node = n, !.seen = task] \in WorkerState
  BY DEF TypeOK, WorkerState, PCs
<1>3. wk' = [wk EXCEPT ![w] = [wk[w] EXCEPT !.pc = "react", !.node = n, !.seen = task]]
  BY <1>1
<1>4. wk' \in [Workers -> WorkerState]
  BY <1>2, <1>3 DEF TypeOK
<1> QED
  BY <1>4 DEF LoadStep, TypeOK, apiVars, queueVars, endVars

\* The shared effects of the runtime steps.
LEMMA StepPlanType ==
    ASSUME NEW p \in Plan
    PROVE  StepPlan(p) \in Plan
BY DEF StepPlan, Plan, PlanStatuses

LEMMA AdvanceType ==
    ASSUME wk \in [Workers -> WorkerState], NEW w \in Workers, Advance(w)
    PROVE  wk' \in [Workers -> WorkerState]
<1>1. \A n \in GraphSteps \ {"generate_outputs"} : NextNode[n] \in GraphSteps
  BY DEF NextNode, GraphSteps
<1> DEFINE new == [wk[w] EXCEPT
             !.pc = IF wk[w].node = "generate_outputs" THEN "finish" ELSE "step",
             !.node = IF @ = "generate_outputs" THEN @ ELSE NextNode[@],
             !.seen = NoRow]
<1>2. new \in WorkerState
  BY <1>1, IdleTypes DEF WorkerState, PCs
<1>3. wk' = [wk EXCEPT ![w] = new]
  BY DEF Advance
<1> HIDE DEF new
<1> QED
  BY <1>2, <1>3

LEMMA FailType ==
    ASSUME TypeOK, NEW w \in Workers, NEW seen \in Row, Fail(w, seen)
    PROVE  /\ task' \in Row
           /\ step' \in [Steps -> StepStatuses]
           /\ wk' \in [Workers -> WorkerState]
<1> DEFINE new == [seen EXCEPT !.status = "failed", !.plan.st = "failed"]
<1>1. task \in Row
  BY DEF TypeOK
<1>2. new \in Row /\ [seen.plan EXCEPT !.st = "failed"] \in Plan
  BY DEF Row, Plan, PlanStatuses, TaskStatuses
<1>3. Save(seen, new) \in Row
  BY <1>1, <1>2, SaveType
<1>4. [Save(seen, new) EXCEPT !.plan = [seen.plan EXCEPT !.st = "failed"]] \in Row
  BY <1>2, <1>3 DEF Row
<1>5. task' \in Row
  BY <1>1, <1>3, <1>4 DEF Fail
<1>6. step' \in [Steps -> StepStatuses]
  BY DEF Fail, TypeOK, StepStatuses
<1>7. wk' \in [Workers -> WorkerState]
  <2>1. CASE Moves(w, "failed")
    BY <2>1, MovesType DEF TypeOK, PCs
  <2>2. CASE Stops(w)
    BY <2>2, StopsType DEF TypeOK
  <2> QED
    BY <2>1, <2>2 DEF Fail
<1> QED
  BY <1>5, <1>6, <1>7

LEMMA StepSaveType ==
    ASSUME TypeOK, NEW seen \in Row, NEW s \in GraphSteps
    PROVE  [Save(seen, [seen EXCEPT !.cur = s])
              EXCEPT !.plan = StepPlan(seen.plan)] \in Row
<1>1. [seen EXCEPT !.cur = s] \in Row
  BY DEF Row, CurrentSteps, Steps
<1>2. Save(seen, [seen EXCEPT !.cur = s]) \in Row
  BY <1>1, SaveType DEF TypeOK
<1>3. StepPlan(seen.plan) \in Plan
  BY StepPlanType DEF Row
<1> QED
  BY <1>2, <1>3 DEF Row

LEMMA ReactType ==
    ASSUME TypeOK, NEW w \in Workers, NEW target \in {"skipped", "running"},
           React(w, target)
    PROVE  TypeOK'
<1> DEFINE s == wk[w].node
           seen == wk[w].seen
           saved == [Save(seen, [seen EXCEPT !.cur = s])
                       EXCEPT !.plan = StepPlan(seen.plan)]
<1>1. seen \in Row /\ s \in GraphSteps
  BY DEF TypeOK, WorkerState
<1>2. saved \in Row
  BY <1>1, StepSaveType
<1>3. task' = saved
  BY DEF React
<1>4. step' \in [Steps -> StepStatuses]
  BY <1>1 DEF React, TypeOK, Steps, StepStatuses
<1>5. wk' \in [Workers -> WorkerState]
  <2>1. CASE target = "skipped"
    BY <2>1, AdvanceType DEF React, TypeOK
  <2>2. CASE target # "skipped"
    <3>1. [wk[w] EXCEPT !.pc = "tool", !.seen = saved] \in WorkerState
      BY <1>2 DEF TypeOK, WorkerState, PCs
    <3>2. wk' = [wk EXCEPT ![w] = [wk[w] EXCEPT !.pc = "tool", !.seen = saved]]
      BY <2>2 DEF React
    <3> QED
      BY <3>1, <3>2 DEF TypeOK
  <2> QED
    BY <2>1, <2>2
<1> QED
  BY <1>2, <1>3, <1>4, <1>5 DEF React, TypeOK, apiVars, queueVars, endVars

LEMMA FailingType ==
    ASSUME TypeOK, NEW w \in Workers, ReactFails(w) \/ HandleFailure(w)
    PROVE  TypeOK'
<1>1. PICK seen \in Row : Fail(w, seen)
  BY DEF ReactFails, HandleFailure, TypeOK, WorkerState
<1> QED
  BY <1>1, FailType DEF ReactFails, HandleFailure, TypeOK, apiVars, queueVars, endVars

LEMMA ToolReturnsType ==
    ASSUME TypeOK, NEW w \in Workers, ToolReturns(w)
    PROVE  TypeOK'
<1> DEFINE s == wk[w].node
           seen == wk[w].seen
<1>1. seen \in Row /\ s \in GraphSteps
  BY DEF TypeOK, WorkerState
<1>2. artifacts' \in {"none", "partial", "complete"}
  BY DEF ToolReturns, ArtifactsAfter, TypeOK
<1>3. CASE Fail(w, seen)
  BY <1>1, <1>2, <1>3, FailType DEF ToolReturns, TypeOK, apiVars, queueVars, endVars
<1>4. CASE ~Fail(w, seen)
  <2>1. task' \in Row
    BY <1>1, <1>4, StepSaveType DEF ToolReturns
  <2>2. step' \in [Steps -> StepStatuses]
    BY <1>1, <1>4 DEF ToolReturns, TypeOK, Steps, StepStatuses
  <2>3. wk' \in [Workers -> WorkerState]
    <3> DEFINE new == [wk[w] EXCEPT
                         !.pc = IF s = "generate_outputs" THEN "finish" ELSE "step",
                         !.node = IF s = "generate_outputs" THEN s ELSE NextNode[s],
                         !.seen = NoRow,
                         !.outputs = @ \/ s = "run_processing_pipeline"]
    <3>1. \A n \in GraphSteps \ {"generate_outputs"} : NextNode[n] \in GraphSteps
      BY DEF NextNode, GraphSteps
    <3>2. new \in WorkerState
      BY <1>1, <3>1, IdleTypes DEF TypeOK, WorkerState, PCs
    <3>3. wk' = [wk EXCEPT ![w] = new]
      BY <1>4 DEF ToolReturns
    <3> HIDE DEF new
    <3> QED
      BY <3>2, <3>3 DEF TypeOK
  <2> QED
    BY <1>2, <2>1, <2>2, <2>3 DEF ToolReturns, TypeOK, apiVars, queueVars, endVars
<1> QED
  BY <1>3, <1>4

LEMMA ToolRaisesType ==
    ASSUME TypeOK, NEW w \in Workers, ToolRaises(w)
    PROVE  TypeOK'
<1>1. wk' \in [Workers -> WorkerState]
  BY MovesType DEF ToolRaises, TypeOK, PCs
<1>2. artifacts' \in {"none", "partial", "complete"}
  BY DEF ToolRaises, TypeOK
<1> QED
  BY <1>1, <1>2 DEF ToolRaises, TypeOK, apiVars, queueVars, endVars

LEMMA FinishType ==
    ASSUME TypeOK, NEW w \in Workers, Finish(w)
    PROVE  TypeOK'
<1>1. CASE Fail(w, task)
  BY <1>1, FailType DEF Finish, TypeOK, apiVars, queueVars, endVars
<1>2. CASE ~Fail(w, task)
  <2>1. [task.plan EXCEPT !.st = "success"] \in Plan
    BY DEF TypeOK, Row, Plan, PlanStatuses
  <2>2. task' \in Row
    BY <1>2, <2>1 DEF Finish, Row, CurrentSteps, Steps, GraphSteps, TaskStatuses
  <2>3. wk' \in [Workers -> WorkerState]
    BY <1>2, StopsType DEF Finish, TypeOK
  <2> QED
    BY <1>2, <2>2, <2>3 DEF Finish, TypeOK, apiVars, queueVars, endVars
<1> QED
  BY <1>1, <1>2

LEMMA FinalizeType ==
    ASSUME TypeOK, NEW w \in Workers,
           \/ FinalizeFailed(w) \/ FinalizeApproval(w)
           \/ FinalizeClarification(w) \/ Crash(w)
    PROVE  TypeOK'
<1>1. wk' \in [Workers -> WorkerState]
  BY StopsType DEF FinalizeFailed, FinalizeApproval, FinalizeClarification,
                   Crash, TypeOK
<1>2. task' \in Row
  BY DEF FinalizeFailed, FinalizeApproval, FinalizeClarification, Crash,
         TypeOK, Row, TaskStatuses, CurrentSteps
<1>3. crashes' \in Nat
  BY DEF FinalizeFailed, FinalizeApproval, FinalizeClarification, Crash, TypeOK, endVars
<1>4. clarified' \in BOOLEAN
  <2>1. clarified' = clarified \/ clarified' = TRUE
    BY DEF FinalizeFailed, FinalizeApproval, FinalizeClarification, Crash, endVars
  <2>2. CASE clarified' = clarified
    BY <2>2 DEF TypeOK
  <2>3. CASE clarified' = TRUE
    BY <2>3
  <2> QED
    BY <2>1, <2>2, <2>3
<1> QED
  BY <1>1, <1>2, <1>3, <1>4
     DEF FinalizeFailed, FinalizeApproval, FinalizeClarification, Crash,
         TypeOK, apiVars, queueVars, endVars

\* No step of a request, of the queue or of a worker leaves the types.
LEMMA NextType == TypeOK /\ [Next]_vars => TypeOK'
<1> SUFFICES ASSUME TypeOK, [Next]_vars PROVE TypeOK'
  OBVIOUS
<1>1. ASSUME NEW r \in Requests, Request(r) PROVE TypeOK'
  BY <1>1, LoadForReviewType, PatchType, ApproveType, RejectType,
     LoadForCorrectionType, CorrectType, AbandonType DEF Request
<1>2. CASE Send \/ SendLost
  BY <1>2, QueueType
<1>3. ASSUME NEW w \in Workers, Take(w) \/ Work(w) \/ Crash(w) PROVE TypeOK'
  BY <1>3, TakeType, ParseNodeType, PlanNodeType, BuildPlanType, CheckStartType,
     StartType, LoadStepType, ReactType, FailingType, ToolReturnsType, ToolRaisesType,
     FinishType, FinalizeType DEF Work
<1>4. CASE UNCHANGED vars
  BY <1>4 DEF TypeOK, vars
<1> QED
  BY <1>1, <1>2, <1>3, <1>4 DEF Next

\* Every column of the row and every state of a request, a step and a worker
\* stays in its domain, in every interleaving.
THEOREM TypeCorrect == Spec => []TypeOK
<1>1. Init => TypeOK
  BY InitType
<1>2. TypeOK /\ [Next]_vars => TypeOK'
  BY NextType
<1> QED
  BY <1>1, <1>2, PTL DEF Spec

-----------------------------------------------------------------------------
(* Submissions and messages.                                               *)

\* Every submission is in one place: committed and unsent, in the broker,
\* taken by a worker, or lost.  A bookkeeping fact the arguments below count on.
SubmissionsAccounted == granted = unsent + inbox + taken + lost

LEMMA SubmissionsConserved == Spec => []SubmissionsAccounted
<1>1. Init => SubmissionsAccounted
  BY DEF Init, SubmissionsAccounted
<1>2. TypeOK /\ SubmissionsAccounted /\ [Next]_vars => SubmissionsAccounted'
  <2> SUFFICES ASSUME TypeOK, SubmissionsAccounted, [Next]_vars
               PROVE  SubmissionsAccounted'
    OBVIOUS
  <2>1. ASSUME NEW r \in Requests, Request(r) PROVE SubmissionsAccounted'
    <3>1. CASE Approve(r)
      BY <3>1 DEF Approve, SubmissionsAccounted, TypeOK
    <3>2. CASE ~Approve(r)
      BY <2>1, <3>2 DEF Request, LoadForReview, Patch, Reject, LoadForCorrection,
         Correct, Abandon, SubmissionsAccounted, queueVars
    <3> QED
      BY <3>1, <3>2
  <2>2. CASE Send \/ SendLost
    BY <2>2 DEF Send, SendLost, SubmissionsAccounted, TypeOK, apiVars, endVars
  <2>3. ASSUME NEW w \in Workers, Take(w) PROVE SubmissionsAccounted'
    BY <2>3 DEF Take, SubmissionsAccounted, TypeOK, apiVars, endVars
  <2>4. ASSUME NEW w \in Workers, Work(w) \/ Crash(w) PROVE SubmissionsAccounted'
    <3>1. UNCHANGED <<apiVars, queueVars>>
      BY <2>4 DEF Work, Crash, ParseNode, PlanNode, BuildPlan, CheckStart, Start, LoadStep,
         React, ReactFails, ToolReturns, ToolRaises, HandleFailure, Finish,
         FinalizeFailed, FinalizeApproval, FinalizeClarification
    <3> QED
      BY <3>1 DEF apiVars, queueVars, SubmissionsAccounted
  <2>5. CASE UNCHANGED vars
    BY <2>5 DEF vars, SubmissionsAccounted
  <2> QED
    BY <2>1, <2>2, <2>3, <2>4, <2>5 DEF Next
<1> QED
  BY <1>1, <1>2, TypeCorrect, PTL DEF Spec

-----------------------------------------------------------------------------
(* Step outcomes.                                                          *)

StepsFrozen == \A s \in Steps : step[s] \in TerminalStepStatuses => step'[s] = step[s]

\* The transition table lets nothing out of an ended step.
LEMMA TerminalIsTerminal ==
    ASSUME NEW from \in TerminalStepStatuses, NEW to, CanSetStep(from, to)
    PROVE  to = from
BY DEF CanSetStep, CanTransition, StepTransitions, TerminalStepStatuses

\* The except block only touches a step that has not ended.
LEMMA FailFrozen ==
    ASSUME TypeOK, NEW w \in Workers, NEW seen \in Row, Fail(w, seen)
    PROVE  StepsFrozen
BY DEF Fail, TypeOK, StepsFrozen, TerminalStepStatuses

LEMMA NextFrozen == TypeOK /\ [Next]_vars => StepsFrozen
<1> SUFFICES ASSUME TypeOK, [Next]_vars PROVE StepsFrozen
  OBVIOUS
<1>1. ASSUME NEW r \in Requests, Request(r) PROVE StepsFrozen
  BY <1>1 DEF Request, LoadForReview, Patch, Approve, Reject, LoadForCorrection,
              Correct, Abandon, StepsFrozen
<1>2. CASE Send \/ SendLost \/ UNCHANGED vars
  BY <1>2 DEF Send, SendLost, vars, StepsFrozen
<1>3. ASSUME NEW w \in Workers, Take(w) \/ Work(w) \/ Crash(w) PROVE StepsFrozen
  <2>1. CASE CheckStart(w) \/ Start(w)
    BY <2>1 DEF CheckStart, Start, TypeOK, StepsFrozen, TerminalStepStatuses
  <2>2. ASSUME NEW target, React(w, target) PROVE StepsFrozen
    BY <2>2, TerminalIsTerminal DEF React, TypeOK, StepsFrozen
  <2>3. CASE ReactFails(w) \/ HandleFailure(w)
    <3>1. PICK seen \in Row : Fail(w, seen)
      BY <2>3 DEF ReactFails, HandleFailure, TypeOK, WorkerState
    <3> QED
      BY <3>1, FailFrozen
  <2>4. CASE ToolReturns(w)
    <3>1. wk[w].seen \in Row
      BY DEF TypeOK, WorkerState
    <3>2. CASE Fail(w, wk[w].seen)
      BY <3>1, <3>2, FailFrozen
    <3>3. CASE ~Fail(w, wk[w].seen)
      BY <2>4, <3>3, TerminalIsTerminal DEF ToolReturns, TypeOK, StepsFrozen
    <3> QED
      BY <3>2, <3>3
  <2>5. CASE Finish(w)
    <3>1. CASE Fail(w, task)
      BY <3>1, FailFrozen DEF TypeOK
    <3>2. CASE ~Fail(w, task)
      BY <2>5, <3>2 DEF Finish, StepsFrozen
    <3> QED
      BY <3>1, <3>2
  <2>6. CASE \/ Take(w) \/ ParseNode(w) \/ PlanNode(w) \/ LoadStep(w)
             \/ ToolRaises(w) \/ FinalizeFailed(w) \/ FinalizeApproval(w)
             \/ FinalizeClarification(w) \/ Crash(w)
             \/ \E asks \in BOOLEAN : BuildPlan(w, asks)
    BY <2>6 DEF Take, ParseNode, PlanNode, BuildPlan, LoadStep, ToolRaises,
       FinalizeFailed, FinalizeApproval, FinalizeClarification, Crash, StepsFrozen
  <2> QED
    BY <1>3, <2>1, <2>2, <2>3, <2>4, <2>5, <2>6 DEF Work
<1> QED
  BY <1>1, <1>2, <1>3 DEF Next

\* An ended step keeps its outcome through later runs, corrections and
\* failures: no except block or retry reopens it.
THEOREM StepsKeepOutcome == Spec => StepsNeverReopen
<1>1. TypeOK /\ [Next]_vars =>
        [\A s \in Steps : step[s] \in TerminalStepStatuses => step'[s] = step[s]]_vars
  BY NextFrozen DEF StepsFrozen
<1> QED
  BY <1>1, TypeCorrect, PTL DEF Spec, StepsNeverReopen

-----------------------------------------------------------------------------
(* What SUCCESS and published outputs rest on.                             *)

OutputsGiven == step["generate_outputs"] \in {"success", "skipped"}

\* A run that reaches the end of the graph has left an outcome of
\* generate_outputs behind, and a run that holds pipeline outputs has made the
\* pipeline step succeed.  Neither can be undone: ended steps are frozen.
EndsInv ==
    /\ SuccessHasOutputs
    /\ OutputsFromPipeline
    /\ \A w \in Workers : wk[w].pc = "finish" => OutputsGiven
    /\ \A w \in Workers : wk[w].outputs => step["run_processing_pipeline"] = "success"

\* A step of the system that starts none of what EndsInv is about.
NoNewEnds ==
    /\ \A w \in Workers : wk'[w].outputs => wk[w].outputs
    /\ \A w \in Workers : wk'[w].pc = "finish" => wk[w].pc = "finish"
    /\ task'.status = "success" => task.status = "success"
    /\ step'["generate_outputs"] = "success" => step["generate_outputs"] = "success"

LEMMA NoNewEndsKeeps ==
    ASSUME TypeOK, EndsInv, StepsFrozen, NoNewEnds
    PROVE  EndsInv'
BY DEF EndsInv, StepsFrozen, NoNewEnds, OutputsGiven, SuccessHasOutputs,
       OutputsFromPipeline, Steps, GraphSteps, TerminalStepStatuses

\* Writing back a row changes the status only to a new one.
LEMMA SaveStatus ==
    ASSUME NEW seen, NEW new
    PROVE  /\ new.status = seen.status => Save(seen, new).status = task.status
           /\ new.status # seen.status => Save(seen, new).status = new.status
BY DEF Save

LEMMA StopsNoEnds ==
    ASSUME TypeOK, NEW w \in Workers, Stops(w)
    PROVE  /\ \A v \in Workers : wk'[v].outputs => wk[v].outputs
           /\ \A v \in Workers : wk'[v].pc = "finish" => wk[v].pc = "finish"
BY DEF Stops, TypeOK, IdleWorker

LEMMA MovesNoEnds ==
    ASSUME TypeOK, NEW w \in Workers, NEW to, to # "finish", Moves(w, to)
    PROVE  /\ \A v \in Workers : wk'[v].outputs => wk[v].outputs
           /\ \A v \in Workers : wk'[v].pc = "finish" => wk[v].pc = "finish"
<1>1. ASSUME NEW v \in Workers, v # w PROVE wk'[v] = wk[v]
  BY <1>1 DEF Moves, TypeOK
<1>2. wk'[w].outputs = wk[w].outputs /\ wk'[w].pc = to
  BY DEF Moves, TypeOK, WorkerState
<1> QED
  BY <1>1, <1>2

LEMMA FailNoEnds ==
    ASSUME TypeOK, NEW w \in Workers, NEW seen \in Row, Fail(w, seen)
    PROVE  NoNewEnds
<1>1. /\ \A v \in Workers : wk'[v].outputs => wk[v].outputs
      /\ \A v \in Workers : wk'[v].pc = "finish" => wk[v].pc = "finish"
  <2>1. CASE Moves(w, "failed")
    BY <2>1, MovesNoEnds
  <2>2. CASE Stops(w)
    BY <2>2, StopsNoEnds
  <2> QED
    BY <2>1, <2>2 DEF Fail
<1>2. step'["generate_outputs"] = "success" => step["generate_outputs"] = "success"
  BY DEF Fail, TypeOK, Steps, GraphSteps
<1>3. task'.status = "success" => task.status = "success"
  <2> DEFINE new == [seen EXCEPT !.status = "failed", !.plan.st = "failed"]
  <2>1. new.status = "failed"
    BY DEF Row
  <2>2. Save(seen, new).status = "success" => task.status = "success"
    BY <2>1, SaveStatus
  <2>3. [Save(seen, new) EXCEPT !.plan = [seen.plan EXCEPT !.st = "failed"]].status
          = Save(seen, new).status
    BY DEF Save
  <2> QED
    BY <2>2, <2>3 DEF Fail
<1> QED
  BY <1>1, <1>2, <1>3 DEF NoNewEnds

\* What a request can leave in the status column.
LEMMA RequestStatus ==
    ASSUME TypeOK, NEW r \in Requests, Request(r)
    PROVE  \/ task'.status = task.status
           \/ Approve(r) /\ task'.status = "queued"
           \/ Reject(r) /\ task'.status = "cancelled"
           \/ /\ \E blocked \in BOOLEAN : Correct(r, blocked)
              /\ task'.status \in {"waiting_clarification", "awaiting_approval"}
<1> DEFINE seen == req[r].seen
<1>1. seen \in Row
  BY DEF TypeOK, RequestState
<1>2. CASE Patch(r)
  <2> DEFINE new == [seen EXCEPT !.plan.op = "validated", !.plan.ver = req[r].ver]
  <2>1. new.status = seen.status
    BY <1>1 DEF Row
  <2>2. task' = Save(seen, new)
    BY <1>2 DEF Patch
  <2> HIDE DEF new
  <2> QED
    BY <2>1, <2>2, SaveStatus
<1>3. CASE Approve(r)
  <2> DEFINE new == [seen EXCEPT !.plan.op = "approved", !.status = "queued"]
  <2>1. new.status = "queued"
    BY <1>1 DEF Row
  <2>2. task' = Save(seen, new)
    BY <1>3 DEF Approve
  <2> HIDE DEF new
  <2> QED
    BY <1>3, <2>1, <2>2, SaveStatus
<1>4. CASE Reject(r)
  <2> DEFINE new == [seen EXCEPT !.status = "cancelled", !.cur = "awaiting_approval"]
  <2>1. new.status = "cancelled"
    BY <1>1 DEF Row
  <2>2. task'.status = Save(seen, new).status
    BY <1>4 DEF Reject, Save
  <2> HIDE DEF new
  <2> QED
    BY <1>4, <2>1, <2>2, SaveStatus
<1>5. ASSUME NEW blocked \in BOOLEAN, Correct(r, blocked)
      PROVE  \/ task'.status = task.status
             \/ task'.status \in {"waiting_clarification", "awaiting_approval"}
  <2> DEFINE new == IF blocked
                    THEN [seen EXCEPT !.status = "waiting_clarification",
                                      !.cur = "normalize_aoi"]
                    ELSE [seen EXCEPT !.status = "awaiting_approval",
                                      !.cur = "awaiting_approval"]
  <2>1. new.status \in {"waiting_clarification", "awaiting_approval"}
    BY <1>1 DEF Row
  <2>2. task' = Save(seen, new)
    BY <1>5 DEF Correct
  <2> HIDE DEF new
  <2> QED
    BY <2>1, <2>2, SaveStatus
<1> QED
  BY <1>2, <1>3, <1>4, <1>5 DEF Request, LoadForReview, LoadForCorrection, Abandon

LEMMA RequestNoEnds ==
    ASSUME TypeOK, NEW r \in Requests, Request(r)
    PROVE  NoNewEnds
<1>1. UNCHANGED <<step, wk>>
  BY DEF Request, LoadForReview, Patch, Approve, Reject, LoadForCorrection,
         Correct, Abandon
<1>2. task'.status = "success" => task.status = "success"
  BY RequestStatus
<1> QED
  BY <1>1, <1>2 DEF NoNewEnds

\* What a worker can leave in the status column when it checks a task for the
\* runtime, and when it starts it.
LEMMA CheckStartStatus ==
    ASSUME TypeOK, NEW w \in Workers, CheckStart(w)
    PROVE  task' = task \/ task'.status = "waiting_clarification"
<1>1. task \in Row
  BY DEF TypeOK
<1>2. \/ task' = task
      \/ task' = [status |-> "waiting_clarification", cur |-> "normalize_aoi",
                  plan |-> [task.plan EXCEPT !.st = "needs_clarification"]]
      \/ task' = [task EXCEPT !.status = "waiting_clarification",
                              !.cur = "parse_task"]
  BY DEF CheckStart
<1>3. [task EXCEPT !.status = "waiting_clarification",
                   !.cur = "parse_task"].status = "waiting_clarification"
  BY <1>1 DEF Row
<1>4. CASE task' = [status |-> "waiting_clarification", cur |-> "normalize_aoi",
                    plan |-> [task.plan EXCEPT !.st = "needs_clarification"]]
  BY <1>4
<1>5. CASE task' = [task EXCEPT !.status = "waiting_clarification",
                                !.cur = "parse_task"]
  BY <1>3, <1>5
<1> QED
  BY <1>2, <1>4, <1>5

LEMMA StartStatus ==
    ASSUME TypeOK, NEW w \in Workers, Start(w)
    PROVE  \/ /\ CanSetTask(wk[w].seen.status, "running")
              /\ wk'[w].pc = "step"
              /\ wk[w].seen.status # "running" => task'.status = "running"
              /\ wk[w].seen.status = "running" => task'.status = task.status
           \/ /\ ~CanSetTask(wk[w].seen.status, "running")
              /\ task' = task /\ Stops(w)
<1> DEFINE seen == wk[w].seen
           row == [status |-> "running", cur |-> "plan_task",
                   plan |-> [seen.plan EXCEPT !.st = "running"]]
<1>1. CASE /\ CanSetTask(seen.status, "running")
           /\ task' = Save(seen, row)
           /\ wk' = [wk EXCEPT ![w].pc = "step", ![w].seen = NoRow, ![w].rev = 0]
  <2>1. wk'[w].pc = "step"
    BY <1>1 DEF TypeOK, WorkerState
  <2>2. row.status = "running"
    OBVIOUS
  <2> HIDE DEF row
  <2> QED
    BY <1>1, <2>1, <2>2, SaveStatus
<1> QED
  BY <1>1 DEF Start

\* Building a plan does not touch the status.
LEMMA BuildPlanStatus ==
    ASSUME TypeOK, NEW w \in Workers, NEW asks \in BOOLEAN, BuildPlan(w, asks)
    PROVE  task'.status = task.status
<1> DEFINE new == [wk[w].seen EXCEPT !.plan = BuiltPlan(wk[w].seen, asks)]
<1>1. new.status = wk[w].seen.status
  BY DEF TypeOK, WorkerState, Row
<1>2. task' = Save(wk[w].seen, new)
  BY DEF BuildPlan
<1> HIDE DEF new
<1> QED
  BY <1>1, <1>2, SaveStatus

\* What a worker does outside React, ToolReturns and Finish.
LEMMA QuietNoEnds ==
    ASSUME TypeOK, NEW w \in Workers,
           \/ Take(w) \/ ParseNode(w) \/ PlanNode(w) \/ LoadStep(w)
           \/ CheckStart(w) \/ Start(w) \/ \E asks \in BOOLEAN : BuildPlan(w, asks)
           \/ ToolRaises(w) \/ FinalizeFailed(w) \/ FinalizeApproval(w)
           \/ FinalizeClarification(w) \/ Crash(w)
    PROVE  NoNewEnds
<1>1. /\ \A v \in Workers : wk'[v].outputs => wk[v].outputs
      /\ \A v \in Workers : wk'[v].pc = "finish" => wk[v].pc = "finish"
  <2>1. ASSUME NEW to, to # "finish", Moves(w, to)
        PROVE  /\ \A v \in Workers : wk'[v].outputs => wk[v].outputs
               /\ \A v \in Workers : wk'[v].pc = "finish" => wk[v].pc = "finish"
    BY <2>1, MovesNoEnds
  <2>2. CASE Stops(w)
    BY <2>2, StopsNoEnds
  <2>3. CASE Take(w) \/ LoadStep(w) \/ PlanNode(w)
    <3>1. \A v \in Workers : v # w => wk'[v] = wk[v]
      BY <2>3 DEF Take, LoadStep, PlanNode, Moves, TypeOK
    <3>2. wk'[w].outputs = wk[w].outputs /\ wk'[w].pc # "finish"
      <4>1. wk[w] \in WorkerState /\ w \in DOMAIN wk
        BY DEF TypeOK
      <4>2. CASE Take(w)
        BY <4>1, <4>2 DEF Take, WorkerState
      <4>3. CASE LoadStep(w)
        <5>1. PICK n \in Planned :
                wk' = [wk EXCEPT ![w].pc = "react", ![w].node = n, ![w].seen = task]
          BY <4>3 DEF LoadStep
        <5>2. wk'[w] = [wk[w] EXCEPT !.pc = "react", !.node = n, !.seen = task]
          BY <4>1, <5>1
        <5> QED
          BY <4>1, <5>2 DEF WorkerState
      <4>4. CASE PlanNode(w)
        <5>1. CASE Moves(w, "approval")
          BY <4>1, <5>1 DEF Moves, WorkerState
        <5>2. CASE wk' = [wk EXCEPT ![w].ask = spec.ask,
                                    ![w].pc = IF task.plan.st = "failed"
                                              THEN "failed" ELSE "begin"]
          <6>1. wk'[w] = [wk[w] EXCEPT !.ask = spec.ask,
                                       !.pc = IF task.plan.st = "failed"
                                              THEN "failed" ELSE "begin"]
            BY <4>1, <5>2
          <6> QED
            BY <4>1, <6>1 DEF WorkerState
        <5>3. CASE wk' = [wk EXCEPT ![w].ask = spec.ask, ![w].seen = task,
                                    ![w].pc = "build"]
          <6>1. wk'[w] = [wk[w] EXCEPT !.ask = spec.ask, !.seen = task, !.pc = "build"]
            BY <4>1, <5>3
          <6> QED
            BY <4>1, <6>1 DEF WorkerState
        <5> QED
          BY <4>4, <5>1, <5>2, <5>3 DEF PlanNode
      <4> QED
        BY <2>3, <4>2, <4>3, <4>4
    <3> QED
      BY <3>1, <3>2
  <2>4. ASSUME NEW asks \in BOOLEAN, BuildPlan(w, asks)
        PROVE  \E to : to # "finish" /\ Moves(w, to)
    BY <2>4 DEF BuildPlan
  <2>5. CASE ParseNode(w) \/ ToolRaises(w)
    <3>1. \E to : to # "finish" /\ Moves(w, to)
      BY <2>5 DEF ParseNode, ToolRaises
    <3> QED
      BY <3>1, <2>1
  <2>6. CASE CheckStart(w) \/ Start(w)
    <3>1. CASE Moves(w, "step") \/ Moves(w, "clarify") \/ Stops(w)
      BY <3>1, <2>1, <2>2
    <3>2. CASE \/ wk' = [wk EXCEPT ![w].pc = "start", ![w].seen = task,
                                   ![w].rev = spec.rev]
               \/ wk' = [wk EXCEPT ![w].pc = "step", ![w].seen = NoRow, ![w].rev = 0]
      <4>1. \A v \in Workers : v # w => wk'[v] = wk[v]
        BY <3>2 DEF TypeOK
      <4>2. wk'[w].outputs = wk[w].outputs /\ wk'[w].pc \in {"start", "step"}
        BY <3>2 DEF TypeOK, WorkerState
      <4> QED
        BY <4>1, <4>2
    <3> QED
      BY <2>6, <3>1, <3>2 DEF CheckStart, Start
  <2>7. FinalizeFailed(w) \/ FinalizeApproval(w) \/ FinalizeClarification(w) \/ Crash(w)
          => Stops(w)
    BY DEF FinalizeFailed, FinalizeApproval, FinalizeClarification, Crash
  <2> QED
    BY <2>1, <2>2, <2>3, <2>4, <2>5, <2>6, <2>7
<1>2. step'["generate_outputs"] = "success" => step["generate_outputs"] = "success"
  BY DEF Take, ParseNode, PlanNode, CheckStart, Start, LoadStep, BuildPlan, ToolRaises,
         FinalizeFailed, FinalizeApproval, FinalizeClarification, Crash,
         TypeOK, Steps, GraphSteps
<1>3. task'.status = "success" => task.status = "success"
  <2>1. CASE Take(w) \/ ParseNode(w) \/ PlanNode(w) \/ LoadStep(w) \/ ToolRaises(w)
             \/ FinalizeClarification(w) \/ Crash(w)
    BY <2>1 DEF Take, ParseNode, PlanNode, LoadStep, ToolRaises,
                FinalizeClarification, Crash
  <2>2. CASE FinalizeFailed(w) \/ FinalizeApproval(w)
    BY <2>2 DEF FinalizeFailed, FinalizeApproval, TypeOK, Row
  <2>3. CASE CheckStart(w) \/ Start(w)
    BY <2>3, CheckStartStatus, StartStatus
  <2>4. CASE \E asks \in BOOLEAN : BuildPlan(w, asks)
    BY <2>4, BuildPlanStatus
  <2> QED
    BY <2>1, <2>2, <2>3, <2>4
<1> QED
  BY <1>1, <1>2, <1>3 DEF NoNewEnds

\* Recording a step writes neither a status nor another step.
LEMMA StepSaveStatus ==
    ASSUME TypeOK, NEW seen \in Row, NEW s
    PROVE  [Save(seen, [seen EXCEPT !.cur = s])
              EXCEPT !.plan = StepPlan(seen.plan)].status = task.status
BY DEF Save, Row

LEMMA ReactKeepsEnds ==
    ASSUME TypeOK, EndsInv, StepsFrozen, NEW w \in Workers,
           NEW target \in {"skipped", "running"}, React(w, target)
    PROVE  EndsInv'
<1> DEFINE s == wk[w].node
<1>1. s \in GraphSteps /\ wk[w].seen \in Row
  BY DEF TypeOK, WorkerState
<1>2. task'.status = task.status
  BY <1>1, StepSaveStatus DEF React
<1>3. step' = [step EXCEPT ![s] = target] /\ step \in [Steps -> StepStatuses]
  BY DEF React, TypeOK
<1>4. \A v \in Workers : wk'[v].outputs = wk[v].outputs
  <2>1. \A v \in Workers : v # w => wk'[v] = wk[v]
    BY DEF React, Advance, TypeOK
  <2>2. wk'[w].outputs = wk[w].outputs
    BY DEF React, Advance, TypeOK, WorkerState
  <2> QED
    BY <2>1, <2>2
<1>5. \A v \in Workers : wk'[v].pc = "finish" =>
        \/ wk[v].pc = "finish"
        \/ s = "generate_outputs" /\ target = "skipped"
  <2>1. \A v \in Workers : v # w => wk'[v] = wk[v]
    BY DEF React, Advance, TypeOK
  <2>2. wk'[w].pc = "finish" => s = "generate_outputs" /\ target = "skipped"
    BY DEF React, Advance, TypeOK, WorkerState
  <2> QED
    BY <2>1, <2>2
<1>6. OutputsGiven => OutputsGiven'
  BY DEF StepsFrozen, OutputsGiven, Steps, GraphSteps, TerminalStepStatuses
<1>7. step["run_processing_pipeline"] = "success" => step'["run_processing_pipeline"] = "success"
  BY DEF StepsFrozen, Steps, GraphSteps, TerminalStepStatuses
<1>8. step'["generate_outputs"] = "success" => step["generate_outputs"] = "success"
  BY <1>3 DEF Steps, GraphSteps
<1>9. s = "generate_outputs" /\ target = "skipped" => OutputsGiven'
  BY <1>3 DEF OutputsGiven, Steps, GraphSteps
<1> QED
  BY <1>2, <1>4, <1>5, <1>6, <1>7, <1>8, <1>9
     DEF EndsInv, SuccessHasOutputs, OutputsFromPipeline, OutputsGiven

LEMMA ToolReturnsKeepsEnds ==
    ASSUME TypeOK, EndsInv, StepsFrozen, NEW w \in Workers, ToolReturns(w)
    PROVE  EndsInv'
<1> DEFINE s == wk[w].node
<1>1. s \in GraphSteps /\ wk[w].seen \in Row
  BY DEF TypeOK, WorkerState
<1>2. CASE Fail(w, wk[w].seen)
  BY <1>1, <1>2, FailNoEnds, NoNewEndsKeeps
<1>3. CASE ~Fail(w, wk[w].seen)
  <2>1. task'.status = task.status
    BY <1>1, <1>3, StepSaveStatus DEF ToolReturns
  <2>2. step' = [step EXCEPT ![s] = "success"] /\ step \in [Steps -> StepStatuses]
    BY <1>3 DEF ToolReturns, TypeOK
  <2>3. \A v \in Workers : v # w => wk'[v] = wk[v]
    BY <1>3 DEF ToolReturns, TypeOK
  <2>4. /\ wk'[w].outputs => wk[w].outputs \/ s = "run_processing_pipeline"
        /\ wk'[w].pc = "finish" => s = "generate_outputs"
    BY <1>3 DEF ToolReturns, TypeOK, WorkerState
  <2>5. s = "generate_outputs" => wk[w].outputs
    BY DEF ToolReturns, HasOutputs
  <2>6. OutputsGiven => OutputsGiven'
    BY DEF StepsFrozen, OutputsGiven, Steps, GraphSteps, TerminalStepStatuses
  <2>7. step["run_processing_pipeline"] = "success" => step'["run_processing_pipeline"] = "success"
    BY DEF StepsFrozen, Steps, GraphSteps, TerminalStepStatuses
  <2>8. step'["generate_outputs"] = "success" =>
          step["generate_outputs"] = "success" \/ s = "generate_outputs"
    BY <2>2 DEF Steps, GraphSteps
  <2>9. /\ s = "generate_outputs" => OutputsGiven'
        /\ s = "run_processing_pipeline" => step'["run_processing_pipeline"] = "success"
    BY <2>2 DEF OutputsGiven, Steps, GraphSteps
  <2> QED
    BY <2>1, <2>3, <2>4, <2>5, <2>6, <2>7, <2>8, <2>9
       DEF EndsInv, SuccessHasOutputs, OutputsFromPipeline, OutputsGiven
<1> QED
  BY <1>2, <1>3

LEMMA FinishKeepsEnds ==
    ASSUME TypeOK, EndsInv, StepsFrozen, NEW w \in Workers, Finish(w)
    PROVE  EndsInv'
<1>1. CASE Fail(w, task)
  <2>1. task \in Row
    BY DEF TypeOK
  <2> QED
    BY <1>1, <2>1, FailNoEnds, NoNewEndsKeeps
<1>2. CASE ~Fail(w, task)
  <2>1. step' = step /\ Stops(w) /\ wk[w].pc = "finish"
    BY <1>2 DEF Finish
  <2>2. /\ \A v \in Workers : wk'[v].outputs => wk[v].outputs
        /\ \A v \in Workers : wk'[v].pc = "finish" => wk[v].pc = "finish"
    BY <2>1, StopsNoEnds
  <2>3. OutputsGiven
    BY <2>1 DEF EndsInv
  <2> QED
    BY <2>1, <2>2, <2>3
       DEF EndsInv, SuccessHasOutputs, OutputsFromPipeline, OutputsGiven
<1> QED
  BY <1>1, <1>2

LEMMA NextEnds == TypeOK /\ EndsInv /\ [Next]_vars => EndsInv'
<1> SUFFICES ASSUME TypeOK, EndsInv, [Next]_vars PROVE EndsInv'
  OBVIOUS
<1>1. StepsFrozen
  BY NextFrozen
<1>2. ASSUME NEW r \in Requests, Request(r) PROVE EndsInv'
  BY <1>1, <1>2, RequestNoEnds, NoNewEndsKeeps
<1>3. CASE Send \/ SendLost \/ UNCHANGED vars
  <2>1. NoNewEnds
    BY <1>3 DEF Send, SendLost, vars, NoNewEnds
  <2> QED
    BY <1>1, <2>1, NoNewEndsKeeps
<1>4. ASSUME NEW w \in Workers, Take(w) \/ Work(w) \/ Crash(w) PROVE EndsInv'
  <2>1. CASE \E target \in {"skipped", "running"} : React(w, target)
    BY <1>1, <2>1, ReactKeepsEnds
  <2>2. CASE ToolReturns(w)
    BY <1>1, <2>2, ToolReturnsKeepsEnds
  <2>3. CASE Finish(w)
    BY <1>1, <2>3, FinishKeepsEnds
  <2>4. CASE ReactFails(w) \/ HandleFailure(w)
    <3>1. PICK seen \in Row : Fail(w, seen)
      BY <2>4 DEF ReactFails, HandleFailure, TypeOK, WorkerState
    <3> QED
      BY <1>1, <3>1, FailNoEnds, NoNewEndsKeeps
  <2>5. CASE \/ Take(w) \/ ParseNode(w) \/ PlanNode(w) \/ LoadStep(w)
             \/ CheckStart(w) \/ Start(w) \/ \E asks \in BOOLEAN : BuildPlan(w, asks)
             \/ ToolRaises(w) \/ FinalizeFailed(w) \/ FinalizeApproval(w)
             \/ FinalizeClarification(w) \/ Crash(w)
    <3>1. NoNewEnds
      BY <2>5, QuietNoEnds
    <3> QED
      BY <1>1, <3>1, NoNewEndsKeeps
  <2> QED
    BY <1>4, <2>1, <2>2, <2>3, <2>4, <2>5 DEF Work
<1> QED
  BY <1>2, <1>3, <1>4 DEF Next

LEMMA InitEnds == Init => EndsInv
<1> SUFFICES ASSUME Init PROVE EndsInv
  OBVIOUS
<1>1. PICK kind \in BirthKinds : task \in BirthRows[kind]
  BY ConstantsAssumption DEF Init
<1>2. task.status # "success"
  BY <1>1 DEF BirthRows, BirthKinds
<1>3. \A s \in Steps : step[s] = "absent"
  BY DEF Init
<1>4. \A w \in Workers : wk[w].pc = "idle" /\ ~wk[w].outputs
  BY DEF Init, IdleWorker
<1> QED
  BY <1>2, <1>3, <1>4
     DEF EndsInv, SuccessHasOutputs, OutputsFromPipeline, Steps, GraphSteps

\* SUCCESS is never shown for a task whose last step was not gone through.
THEOREM SuccessWentThroughOutputs == Spec => []SuccessHasOutputs
<1>1. EndsInv => SuccessHasOutputs
  BY DEF EndsInv
<1> QED
  BY <1>1, InitEnds, NextEnds, TypeCorrect, PTL DEF Spec

\* Published outputs always rest on a pipeline step that succeeded.
THEOREM OutputsRestOnPipeline == Spec => []OutputsFromPipeline
<1>1. EndsInv => OutputsFromPipeline
  BY DEF EndsInv
<1> QED
  BY <1>1, InitEnds, NextEnds, TypeCorrect, PTL DEF Spec

-----------------------------------------------------------------------------
(* RUNNING has a worker behind it.                                         *)

\* A worker inside the runtime steps that can still take the task out of
\* RUNNING.  Between the load and the write of a step it must have seen
\* RUNNING: only then does the except block write FAILED over it.
Holds(w) ==
    /\ Executing(w)
    /\ wk[w].pc \in {"react", "tool"} => wk[w].seen.status = "running"

RunningIsHeld ==
    task.status = "running" => crashes > 0 \/ \E w \in Workers : Holds(w)

\* One worker's step keeps RunningIsHeld when it starts no RUNNING and lets go
\* of the task only by taking it out of RUNNING.
LEMMA WorkerKeepsHeld ==
    ASSUME RunningIsHeld, NEW w \in Workers, crashes' = crashes,
           \A v \in Workers : v # w => wk'[v] = wk[v],
           task'.status = "running" =>
             \/ Holds(w)'
             \/ task.status = "running" /\ ~Holds(w)
    PROVE  RunningIsHeld'
<1> SUFFICES ASSUME task'.status = "running", ~(crashes' > 0), ~Holds(w)'
             PROVE  \E v \in Workers : Holds(v)'
  BY DEF RunningIsHeld
<1>1. task.status = "running" /\ ~Holds(w)
  OBVIOUS
<1>2. PICK v \in Workers : Holds(v)
  BY <1>1 DEF RunningIsHeld
<1>3. v # w /\ wk'[v] = wk[v]
  BY <1>1, <1>2
<1>4. Holds(v)'
  BY <1>2, <1>3 DEF Holds, Executing
<1> QED
  BY <1>4

\* The except block takes a RUNNING it has seen to FAILED.
LEMMA FailEndsRunning ==
    ASSUME TypeOK, NEW w \in Workers, NEW seen \in Row, Fail(w, seen)
    PROVE  /\ \A v \in Workers : v # w => wk'[v] = wk[v]
           /\ task'.status = "running" =>
                task.status = "running" /\ seen.status # "running"
<1>1. \A v \in Workers : v # w => wk'[v] = wk[v]
  BY DEF Fail, Moves, Stops, TypeOK
<1> DEFINE new == [seen EXCEPT !.status = "failed", !.plan.st = "failed"]
<1>2. new.status = "failed"
  BY DEF Row
<1>3. CASE CanSetTask(seen.status, "failed")
  <2>1. task'.status = Save(seen, new).status
    BY <1>3 DEF Fail, Save
  <2> HIDE DEF new
  <2>2. task'.status = IF seen.status = "failed" THEN task.status ELSE "failed"
    BY <1>2, <2>1, SaveStatus
  <2> QED
    BY <1>1, <2>2
<1>4. CASE ~CanSetTask(seen.status, "failed")
  <2>1. task' = task
    BY <1>4 DEF Fail
  <2>2. seen.status # "running"
    BY <1>4 DEF CanSetTask, CanTransition, TaskTransitions
  <2> QED
    BY <1>1, <2>1, <2>2
<1> QED
  BY <1>3, <1>4

\* Steps of a worker outside the runtime steps.
LEMMA OutsideKeepsHeld ==
    ASSUME TypeOK, RunningIsHeld, NEW w \in Workers,
           \/ Take(w) \/ ParseNode(w) \/ PlanNode(w)
           \/ \E asks \in BOOLEAN : BuildPlan(w, asks)
           \/ FinalizeFailed(w) \/ FinalizeApproval(w) \/ FinalizeClarification(w)
    PROVE  RunningIsHeld'
<1>1. crashes' = crashes
  BY DEF Take, ParseNode, PlanNode, BuildPlan, FinalizeFailed, FinalizeApproval,
         FinalizeClarification, endVars
<1>2. \A v \in Workers : v # w => wk'[v] = wk[v]
  BY DEF Take, ParseNode, PlanNode, BuildPlan, FinalizeFailed, FinalizeApproval,
         FinalizeClarification, Moves, Stops, TypeOK
<1>3. ~Holds(w)
  BY DEF Take, ParseNode, PlanNode, BuildPlan, FinalizeFailed, FinalizeApproval,
         FinalizeClarification, Holds, Executing
<1>4. task'.status = "running" => task.status = "running"
  <2>1. CASE Take(w) \/ ParseNode(w) \/ PlanNode(w) \/ FinalizeClarification(w)
    BY <2>1 DEF Take, ParseNode, PlanNode, FinalizeClarification
  <2>2. CASE FinalizeFailed(w) \/ FinalizeApproval(w)
    BY <2>2 DEF FinalizeFailed, FinalizeApproval, TypeOK, Row
  <2>3. ASSUME NEW asks \in BOOLEAN, BuildPlan(w, asks)
        PROVE  task'.status = "running" => task.status = "running"
    BY <2>3, BuildPlanStatus
  <2> QED
    BY <2>1, <2>2, <2>3
<1> QED
  BY <1>1, <1>2, <1>3, <1>4, WorkerKeepsHeld

\* Steps of a worker inside them.
LEMMA InsideKeepsHeld ==
    ASSUME TypeOK, RunningIsHeld, NEW w \in Workers,
           \/ CheckStart(w) \/ Start(w) \/ LoadStep(w) \/ ToolRaises(w)
           \/ \E target \in {"skipped", "running"} : React(w, target)
    PROVE  RunningIsHeld'
<1>1. crashes' = crashes
  BY DEF CheckStart, Start, LoadStep, ToolRaises, React, endVars
<1>2. \A v \in Workers : v # w => wk'[v] = wk[v]
  BY DEF CheckStart, Start, LoadStep, ToolRaises, React, Advance, Moves, Stops, TypeOK
<1>3. task'.status = "running" =>
        Holds(w)' \/ (task.status = "running" /\ ~Holds(w))
  <2>1. CASE CheckStart(w) \/ Start(w)
    <3>1. ~Holds(w)
      BY <2>1 DEF CheckStart, Start, Holds, Executing
    <3>2. CASE CheckStart(w)
      BY <3>1, <3>2, CheckStartStatus
    <3>3. CASE Start(w)
      <4>1. wk'[w].pc = "step" => Holds(w)'
        BY DEF Holds, Executing
      <4> QED
        BY <3>1, <3>3, <4>1, StartStatus
    <3> QED
      BY <2>1, <3>2, <3>3
  <2>2. CASE LoadStep(w)
    <3>1. PICK n \in Planned :
            wk' = [wk EXCEPT ![w].pc = "react", ![w].node = n, ![w].seen = task]
      BY <2>2 DEF LoadStep
    <3>2. wk'[w] = [wk[w] EXCEPT !.pc = "react", !.node = n, !.seen = task]
      BY <3>1 DEF TypeOK
    <3>3. wk[w] \in WorkerState /\ task' = task
      BY <2>2 DEF LoadStep, TypeOK
    <3>4. wk'[w].pc = "react" /\ wk'[w].seen = task'
      BY <3>2, <3>3 DEF WorkerState
    <3> QED
      BY <3>4 DEF Holds, Executing
  <2>3. CASE ToolRaises(w)
    <3>1. wk'[w].pc = "except"
      BY <2>3 DEF ToolRaises, Moves, TypeOK, WorkerState
    <3> QED
      BY <3>1 DEF Holds, Executing
  <2>4. ASSUME NEW target \in {"skipped", "running"}, React(w, target)
        PROVE  task'.status = "running" => Holds(w)'
    <3>1. task'.status = task.status
      BY <2>4, StepSaveStatus DEF React, TypeOK, WorkerState
    <3>2. CASE target = "skipped"
      <4>1. wk'[w].pc \in {"finish", "step"}
        BY <2>4, <3>2 DEF React, Advance, TypeOK, WorkerState
      <4> QED
        BY <4>1 DEF Holds, Executing
    <3>3. CASE target = "running"
      <4>1. wk' = [wk EXCEPT ![w].pc = "tool", ![w].seen = task']
        BY <2>4, <3>3 DEF React
      <4>2. wk'[w] = [wk[w] EXCEPT !.pc = "tool", !.seen = task']
        BY <4>1 DEF TypeOK
      <4>3. wk'[w].pc = "tool" /\ wk'[w].seen = task'
        BY <4>2 DEF TypeOK, WorkerState
      <4> QED
        BY <4>3 DEF Holds, Executing
    <3> QED
      BY <3>2, <3>3
  <2> QED
    BY <2>1, <2>2, <2>3, <2>4
<1> QED
  BY <1>1, <1>2, <1>3, WorkerKeepsHeld

\* Steps of a worker that may take the task out of RUNNING.
LEMMA EndingKeepsHeld ==
    ASSUME TypeOK, RunningIsHeld, NEW w \in Workers,
           ReactFails(w) \/ ToolReturns(w) \/ HandleFailure(w) \/ Finish(w)
    PROVE  RunningIsHeld'
<1>1. crashes' = crashes
  BY DEF ReactFails, ToolReturns, HandleFailure, Finish, endVars
<1>2. ASSUME NEW seen \in Row, Fail(w, seen),
             Holds(w) /\ task.status = "running" => seen.status = "running"
      PROVE  RunningIsHeld'
  BY <1>1, <1>2, FailEndsRunning, WorkerKeepsHeld
<1>3. wk[w].seen \in Row /\ task \in Row
  BY DEF TypeOK, WorkerState
<1>4. CASE ReactFails(w)
  BY <1>2, <1>3, <1>4 DEF ReactFails, Holds
<1>5. CASE HandleFailure(w)
  BY <1>2, <1>3, <1>5 DEF HandleFailure
<1>6. CASE ToolReturns(w)
  <2>1. CASE Fail(w, wk[w].seen)
    BY <1>2, <1>3, <1>6, <2>1 DEF ToolReturns, Holds
  <2>2. CASE ~Fail(w, wk[w].seen)
    <3>1. task'.status = task.status
      BY <1>3, <1>6, <2>2, StepSaveStatus DEF ToolReturns
    <3>2. \A v \in Workers : v # w => wk'[v] = wk[v]
      BY <1>6, <2>2 DEF ToolReturns, TypeOK
    <3>3. wk'[w].pc \in {"finish", "step"}
      BY <1>6, <2>2 DEF ToolReturns, TypeOK, WorkerState
    <3> QED
      BY <1>1, <3>1, <3>2, <3>3, WorkerKeepsHeld DEF Holds, Executing
  <2> QED
    BY <2>1, <2>2
<1>7. CASE Finish(w)
  <2>1. CASE Fail(w, task)
    BY <1>2, <1>3, <2>1
  <2>2. CASE ~Fail(w, task)
    <3>1. task'.status = "success" /\ Stops(w)
      BY <1>7, <2>2 DEF Finish
    <3>2. \A v \in Workers : v # w => wk'[v] = wk[v]
      BY <3>1 DEF Stops, TypeOK
    <3> QED
      BY <1>1, <3>1, <3>2, WorkerKeepsHeld
  <2> QED
    BY <2>1, <2>2
<1> QED
  BY <1>4, <1>5, <1>6, <1>7

LEMMA NextHeld == TypeOK /\ RunningIsHeld /\ [Next]_vars => RunningIsHeld'
<1> SUFFICES ASSUME TypeOK, RunningIsHeld, [Next]_vars PROVE RunningIsHeld'
  OBVIOUS
<1>1. ASSUME NEW r \in Requests, Request(r) PROVE RunningIsHeld'
  <2>1. UNCHANGED <<wk, crashes>>
    BY <1>1 DEF Request, LoadForReview, Patch, Approve, Reject, LoadForCorrection,
                Correct, Abandon, endVars
  <2>2. task'.status = "running" => task.status = "running"
    BY <1>1, RequestStatus
  <2> QED
    BY <2>1, <2>2 DEF RunningIsHeld, Holds, Executing
<1>2. CASE Send \/ SendLost \/ UNCHANGED vars
  BY <1>2 DEF Send, SendLost, vars, endVars, RunningIsHeld, Holds, Executing
<1>3. ASSUME NEW w \in Workers, Take(w) \/ Work(w) \/ Crash(w) PROVE RunningIsHeld'
  <2>1. CASE Crash(w)
    BY <2>1 DEF Crash, RunningIsHeld, TypeOK
  <2> QED
    BY <1>3, <2>1, OutsideKeepsHeld, InsideKeepsHeld, EndingKeepsHeld DEF Work
<1> QED
  BY <1>1, <1>2, <1>3 DEF Next

\* A RUNNING task has a worker that is still inside its steps, or one died:
\* no interleaving of edits, corrections and other runs leaves RUNNING behind.
THEOREM RunningHasWorker == Spec => []RunningIsAttended
<1>1. Init => RunningIsHeld
  <2> SUFFICES ASSUME Init PROVE task.status # "running"
    BY DEF RunningIsHeld
  <2>1. PICK kind \in BirthKinds : task \in BirthRows[kind]
    BY ConstantsAssumption DEF Init
  <2> QED
    BY <2>1 DEF BirthRows, BirthKinds
<1>2. RunningIsHeld => RunningIsAttended
  BY DEF RunningIsHeld, RunningIsAttended, Holds
<1> QED
  BY <1>1, <1>2, NextHeld, TypeCorrect, PTL DEF Spec

-----------------------------------------------------------------------------
(* What starts a run.                                                      *)

\* A worker is in the graph only after taking a message, and a question that
\* was there from the start is still unanswered only while the task has never
\* been reviewable: nobody could approve it, so nothing was ever submitted.
AskInv ==
    /\ \A w \in Workers : wk[w].pc # "idle" => taken > 0
    /\ spec.ask /\ ~spec.blocked =>
         /\ granted = 0
         /\ task.status = "waiting_clarification"
         /\ \A r \in Requests : req[r].kind \in {"none", "correct"}

\* Without a submission there is no message, and no worker in the graph.
LEMMA NothingGranted ==
    ASSUME TypeOK, AskInv, SubmissionsAccounted, granted = 0
    PROVE  /\ unsent = 0 /\ inbox = 0 /\ taken = 0
           /\ \A w \in Workers : wk[w].pc = "idle"
<1>1. unsent = 0 /\ inbox = 0 /\ taken = 0
  BY DEF TypeOK, SubmissionsAccounted
<1> QED
  BY <1>1 DEF AskInv, TypeOK

LEMMA RequestKeepsAsk ==
    ASSUME TypeOK, AskInv, NEW r \in Requests, Request(r)
    PROVE  AskInv'
<1>1. UNCHANGED <<wk, taken>>
  BY DEF Request, LoadForReview, Patch, Approve, Reject, LoadForCorrection,
         Correct, Abandon, queueVars
<1>2. \A w \in Workers : wk'[w].pc # "idle" => taken' > 0
  BY <1>1 DEF AskInv
<1>3. ASSUME spec'.ask, ~spec'.blocked
      PROVE  /\ granted' = 0
             /\ task'.status = "waiting_clarification"
             /\ \A q \in Requests : req'[q].kind \in {"none", "correct"}
  <2>1. ~(\E blocked \in BOOLEAN : Correct(r, blocked))
    BY <1>3 DEF Correct
  <2>2. spec' = spec
    BY <2>1 DEF Request, LoadForReview, Patch, Approve, Reject, LoadForCorrection, Abandon
  <2>3. /\ granted = 0
        /\ task.status = "waiting_clarification"
        /\ \A q \in Requests : req[q].kind \in {"none", "correct"}
    BY <1>3, <2>2 DEF AskInv
  <2>4. LoadForCorrection(r) \/ Abandon(r)
    BY <2>1, <2>3 DEF Request, LoadForReview, Reviewable, Patch, Approve, Reject
  <2>5. task' = task /\ granted' = granted
    BY <2>4 DEF LoadForCorrection, Abandon
  <2>6. \A q \in Requests : req'[q].kind \in {"none", "correct"}
    BY <2>3, <2>4 DEF LoadForCorrection, Abandon, IdleRequest, TypeOK
  <2> QED
    BY <2>3, <2>5, <2>6
<1> QED
  BY <1>2, <1>3 DEF AskInv

LEMMA WorkKeepsTaken ==
    ASSUME TypeOK, AskInv, NEW w \in Workers, Take(w) \/ Work(w) \/ Crash(w)
    PROVE  \A v \in Workers : wk'[v].pc # "idle" => taken' > 0
<1>1. CASE Take(w)
  <2>1. taken' > 0
    BY <1>1 DEF Take, TypeOK
  <2> QED
    BY <2>1
<1>2. CASE Work(w) \/ Crash(w)
  <2>1. taken' = taken /\ taken > 0
    BY <1>2 DEF Work, Crash, ParseNode, PlanNode, BuildPlan, CheckStart, Start, LoadStep,
       React, ReactFails, ToolReturns, ToolRaises, HandleFailure, Finish,
       FinalizeFailed, FinalizeApproval, FinalizeClarification, queueVars, AskInv
  <2> QED
    BY <2>1
<1> QED
  BY <1>1, <1>2

LEMMA NextAsk ==
    TypeOK /\ SubmissionsAccounted /\ AskInv /\ [Next]_vars => AskInv'
<1> SUFFICES ASSUME TypeOK, SubmissionsAccounted, AskInv, [Next]_vars
             PROVE  AskInv'
  OBVIOUS
<1>1. ASSUME NEW r \in Requests, Request(r) PROVE AskInv'
  BY <1>1, RequestKeepsAsk
<1>2. CASE Send \/ SendLost \/ UNCHANGED vars
  BY <1>2 DEF Send, SendLost, vars, apiVars, AskInv
<1>3. ASSUME NEW w \in Workers, Take(w) \/ Work(w) \/ Crash(w) PROVE AskInv'
  <2>1. \A v \in Workers : wk'[v].pc # "idle" => taken' > 0
    BY <1>3, WorkKeepsTaken
  <2>2. UNCHANGED <<spec, apiVars>>
    BY <1>3 DEF Work, Take, Crash, ParseNode, PlanNode, BuildPlan, CheckStart, Start, LoadStep,
       React, ReactFails, ToolReturns, ToolRaises, HandleFailure, Finish,
       FinalizeFailed, FinalizeApproval, FinalizeClarification
  <2>3. ~(granted = 0)
    <3>1. inbox > 0 \/ wk[w].pc # "idle"
      BY <1>3 DEF Work, Take, Crash, ParseNode, PlanNode, BuildPlan, CheckStart, Start, LoadStep,
         React, ReactFails, ToolReturns, ToolRaises, HandleFailure, Finish,
         FinalizeFailed, FinalizeApproval, FinalizeClarification
    <3> QED
      BY <3>1, NothingGranted
  <2> QED
    BY <2>1, <2>2, <2>3 DEF apiVars, AskInv
<1> QED
  BY <1>1, <1>2, <1>3 DEF Next

\* Only Start starts a run.
LEMMA OnlyStartStarts ==
    ASSUME TypeOK, [Next]_vars, task.status # "running", task'.status = "running"
    PROVE  \E w \in Workers : Start(w)
<1>1. ASSUME NEW r \in Requests, Request(r) PROVE FALSE
  BY <1>1, RequestStatus
<1>2. CASE Send \/ SendLost \/ UNCHANGED vars
  BY <1>2 DEF Send, SendLost, vars
<1>3. ASSUME NEW w \in Workers, Take(w) \/ Work(w) \/ Crash(w) PROVE Start(w)
  <2>1. \A seen \in Row : ~Fail(w, seen)
    BY FailEndsRunning
  <2>2. wk[w].seen \in Row /\ task \in Row
    BY DEF TypeOK, WorkerState
  <2>3. ~(\E asks \in BOOLEAN : BuildPlan(w, asks)) /\ ~CheckStart(w)
    BY BuildPlanStatus, CheckStartStatus
  <2>4. ~(\E target \in {"skipped", "running"} : React(w, target))
    BY <2>2, StepSaveStatus DEF React
  <2>5. ~ToolReturns(w)
    BY <2>1, <2>2, StepSaveStatus DEF ToolReturns
  <2>6. ~ReactFails(w) /\ ~HandleFailure(w) /\ ~Finish(w)
    BY <2>1, <2>2 DEF ReactFails, HandleFailure, Finish
  <2>7. ~FinalizeFailed(w) /\ ~FinalizeApproval(w)
    BY <2>2 DEF FinalizeFailed, FinalizeApproval, Row
  <2>8. /\ ~Take(w) /\ ~ParseNode(w) /\ ~PlanNode(w) /\ ~LoadStep(w)
        /\ ~ToolRaises(w) /\ ~FinalizeClarification(w) /\ ~Crash(w)
    BY DEF Take, ParseNode, PlanNode, LoadStep, ToolRaises, FinalizeClarification, Crash
  <2> QED
    BY <1>3, <2>3, <2>4, <2>5, <2>6, <2>7, <2>8 DEF Work
<1> QED
  BY <1>1, <1>2, <1>3 DEF Next

\* A worker between the checks and the start has seen a task it may start, and
\* the revision it has checked neither blocks nor asks.
CheckedBy(w) ==
    wk[w].pc = "start" =>
      /\ wk[w].seen.status \notin {"running", "waiting_clarification"}
      /\ wk[w].rev <= spec.rev
      /\ spec.rev = wk[w].rev => ~spec.blocked /\ ~spec.ask

StartInv == \A w \in Workers : CheckedBy(w)

\* A worker gets between the two only by the checks.
LEMMA OnlyChecksReachStart ==
    ASSUME TypeOK, NEW w \in Workers, ~CheckStart(w),
           Take(w) \/ Work(w) \/ Crash(w)
    PROVE  \A v \in Workers : wk'[v].pc = "start" => wk'[v] = wk[v]
<1>1. ASSUME NEW to, to # "start", Moves(w, to)
      PROVE  \A v \in Workers : wk'[v].pc = "start" => wk'[v] = wk[v]
  BY <1>1 DEF Moves, TypeOK, WorkerState
<1>2. CASE Stops(w)
  BY <1>2 DEF Stops, IdleWorker, TypeOK
<1>3. ASSUME NEW seen, Fail(w, seen)
      PROVE  \A v \in Workers : wk'[v].pc = "start" => wk'[v] = wk[v]
  BY <1>1, <1>2, <1>3 DEF Fail
<1>4. CASE Advance(w)
  BY <1>4 DEF Advance, TypeOK, WorkerState
<1>5. CASE Take(w) \/ LoadStep(w)
  BY <1>5 DEF Take, LoadStep, TypeOK, WorkerState
<1>6. CASE PlanNode(w)
  BY <1>1, <1>6 DEF PlanNode, TypeOK, WorkerState
<1>7. CASE Start(w)
  BY <1>2, <1>7 DEF Start, TypeOK, WorkerState
<1>8. ASSUME NEW target, React(w, target)
      PROVE  \A v \in Workers : wk'[v].pc = "start" => wk'[v] = wk[v]
  BY <1>4, <1>8 DEF React, TypeOK, WorkerState
<1>9. CASE ToolReturns(w)
  <2>1. CASE Fail(w, wk[w].seen)
    BY <1>3, <2>1
  <2>2. CASE ~Fail(w, wk[w].seen)
    BY <1>9, <2>2 DEF ToolReturns, TypeOK, WorkerState
  <2> QED
    BY <2>1, <2>2
<1>10. ASSUME NEW asks \in BOOLEAN, BuildPlan(w, asks)
       PROVE  \E to : to # "start" /\ Moves(w, to)
  BY <1>10 DEF BuildPlan
<1>11. ParseNode(w) \/ ToolRaises(w) => \E to : to # "start" /\ Moves(w, to)
  BY DEF ParseNode, ToolRaises
<1>12. ReactFails(w) \/ HandleFailure(w) \/ Finish(w)
         => Stops(w) \/ \E seen : Fail(w, seen)
  BY DEF ReactFails, HandleFailure, Finish
<1>13. FinalizeFailed(w) \/ FinalizeApproval(w) \/ FinalizeClarification(w) \/ Crash(w)
         => Stops(w)
  BY DEF FinalizeFailed, FinalizeApproval, FinalizeClarification, Crash
<1> QED
  BY <1>1, <1>2, <1>3, <1>5, <1>6, <1>7, <1>8, <1>9, <1>10, <1>11, <1>12, <1>13
     DEF Work

\* What the checks leave with the worker that passes them.
LEMMA CheckStartChecks ==
    ASSUME TypeOK, SubmissionsAccounted, AskInv, NEW w \in Workers, CheckStart(w)
    PROVE  /\ \A v \in Workers : v # w => wk'[v] = wk[v]
           /\ wk'[w].pc = "start" =>
                /\ wk'[w].seen = task /\ wk'[w].rev = spec.rev
                /\ task.status \notin {"running", "waiting_clarification"}
                /\ ~spec.blocked /\ ~spec.ask
<1>1. \A v \in Workers : v # w => wk'[v] = wk[v]
  BY DEF CheckStart, Moves, Stops, TypeOK
<1>2. spec.ask => spec.blocked
  <2>1. wk[w].pc # "idle"
    BY DEF CheckStart
  <2> QED
    BY <2>1, NothingGranted DEF AskInv, TypeOK
<1>3. CASE Moves(w, "step") \/ Moves(w, "clarify") \/ Stops(w)
  <2>1. wk'[w].pc # "start"
    BY <1>3 DEF Moves, Stops, IdleWorker, TypeOK, WorkerState
  <2> QED
    BY <1>1, <2>1
<1>4. CASE /\ wk' = [wk EXCEPT ![w].pc = "start", ![w].seen = task, ![w].rev = spec.rev]
           /\ task.status \notin {"running", "waiting_clarification"}
           /\ ~spec.blocked
  <2>1. wk'[w].seen = task /\ wk'[w].rev = spec.rev
    BY <1>4 DEF TypeOK, WorkerState
  <2> QED
    BY <1>1, <1>2, <1>4, <2>1
<1> QED
  BY <1>3, <1>4 DEF CheckStart, ExecutionBlocked

LEMMA NextChecked ==
    TypeOK /\ SubmissionsAccounted /\ AskInv /\ StartInv /\ [Next]_vars => StartInv'
<1> SUFFICES ASSUME TypeOK, SubmissionsAccounted, AskInv, StartInv, [Next]_vars
             PROVE  StartInv'
  OBVIOUS
<1>1. ASSUME NEW r \in Requests, Request(r) PROVE StartInv'
  <2>1. wk' = wk
    BY <1>1 DEF Request, LoadForReview, Patch, Approve, Reject, LoadForCorrection,
                Correct, Abandon
  <2>2. CASE \E blocked \in BOOLEAN : Correct(r, blocked)
    <3>1. spec'.rev = spec.rev + 1
      BY <2>2 DEF Correct
    <3>2. spec.rev \in Nat /\ \A w \in Workers : wk[w].rev \in Nat
      BY ConstantsAssumption DEF TypeOK, WorkerState
    <3> QED
      BY <2>1, <3>1, <3>2 DEF StartInv, CheckedBy
  <2>3. CASE ~(\E blocked \in BOOLEAN : Correct(r, blocked))
    <3>1. spec' = spec
      BY <1>1, <2>3 DEF Request, LoadForReview, Patch, Approve, Reject,
                        LoadForCorrection, Abandon
    <3> QED
      BY <2>1, <3>1 DEF StartInv, CheckedBy
  <2> QED
    BY <2>2, <2>3
<1>2. CASE Send \/ SendLost \/ UNCHANGED vars
  BY <1>2 DEF Send, SendLost, vars, StartInv, CheckedBy
<1>3. ASSUME NEW w \in Workers, Take(w) \/ Work(w) \/ Crash(w) PROVE StartInv'
  <2>1. spec' = spec
    BY <1>3 DEF Work, Take, Crash, ParseNode, PlanNode, BuildPlan, CheckStart, Start,
       LoadStep, React, ReactFails, ToolReturns, ToolRaises, HandleFailure, Finish,
       FinalizeFailed, FinalizeApproval, FinalizeClarification
  <2>2. CASE CheckStart(w)
    <3>1. spec.rev <= spec.rev
      BY DEF TypeOK
    <3> QED
      BY <2>1, <2>2, <3>1, CheckStartChecks DEF StartInv, CheckedBy
  <2>3. CASE ~CheckStart(w)
    BY <1>3, <2>1, <2>3, OnlyChecksReachStart DEF StartInv, CheckedBy
  <2> QED
    BY <2>2, <2>3
<1> QED
  BY <1>1, <1>2, <1>3 DEF Next

StartsGated ==
    task.status # "running" /\ task'.status = "running" =>
        \E w \in Workers :
          /\ wk[w].pc = "start" /\ wk[w].seen.status = "queued"
          /\ spec.blocked \/ spec.ask => spec.rev > wk[w].rev

LEMMA NextGated ==
    TypeOK /\ StartInv /\ [Next]_vars => StartsGated
<1> SUFFICES ASSUME TypeOK, StartInv, [Next]_vars,
                    task.status # "running", task'.status = "running"
             PROVE  \E w \in Workers :
                      /\ wk[w].pc = "start" /\ wk[w].seen.status = "queued"
                      /\ spec.blocked \/ spec.ask => spec.rev > wk[w].rev
  BY DEF StartsGated
<1>1. PICK w \in Workers : Start(w)
  BY OnlyStartStarts
<1>2. wk[w].pc = "start" /\ CheckedBy(w)
  BY <1>1 DEF Start, StartInv
<1>3. CanSetTask(wk[w].seen.status, "running") /\ wk[w].seen.status # "running"
  BY <1>1, StartStatus
<1>4. wk[w].seen.status = "queued"
  BY <1>2, <1>3 DEF CheckedBy, CanSetTask, CanTransition, TaskTransitions, TypeOK,
     WorkerState, Row, TaskStatuses
<1>5. spec.blocked \/ spec.ask => spec.rev > wk[w].rev
  <2>1. spec.rev \in Nat /\ wk[w].rev \in Nat
    BY ConstantsAssumption DEF TypeOK, WorkerState
  <2> QED
    BY <1>2, <2>1 DEF CheckedBy
<1> QED
  BY <1>2, <1>4, <1>5

\* A run starts only where a worker has seen the task QUEUED and its revision
\* neither blocked nor asking; a revision that blocks at the start is a
\* correction that was committed after the check.
THEOREM RunStartsGated == Spec => StartIsGated
<1>1. Init => AskInv
  <2> SUFFICES ASSUME Init PROVE AskInv
    OBVIOUS
  <2>1. PICK kind \in BirthKinds :
          /\ task \in BirthRows[kind]
          /\ spec = [rev |-> 1, blocked |-> kind = "blocked",
                     ask |-> kind \in {"clarify", "blocked"}]
          /\ granted = IF kind = "rerun" THEN 1 ELSE 0
    BY ConstantsAssumption DEF Init
  <2>2. spec.ask /\ ~spec.blocked => kind = "clarify"
    BY <2>1
  <2>3. kind = "clarify" => granted = 0 /\ task.status = "waiting_clarification"
    BY <2>1 DEF BirthRows
  <2>4. /\ \A w \in Workers : wk[w].pc = "idle"
        /\ \A r \in Requests : req[r].kind = "none"
    BY DEF Init, IdleWorker, IdleRequest
  <2> QED
    BY <2>2, <2>3, <2>4 DEF AskInv
<1>2. Init => StartInv
  BY DEF Init, StartInv, CheckedBy, IdleWorker
<1>3. TypeOK /\ StartInv /\ [Next]_vars
        => [task.status # "running" /\ task'.status = "running" =>
              \E w \in Workers :
                /\ wk[w].pc = "start" /\ wk[w].seen.status = "queued"
                /\ spec.blocked \/ spec.ask => spec.rev > wk[w].rev]_vars
  BY NextGated DEF StartsGated
<1> QED
  BY <1>1, <1>2, <1>3, NextAsk, NextChecked, TypeCorrect, SubmissionsConserved, PTL
     DEF Spec, StartIsGated
-----------------------------------------------------------------------------
(* What becomes of a QUEUED task.                                          *)

\* A worker that will still write a status over QUEUED, or ask.  One that is
\* about to start the task from another status will be refused.
Serving(w) ==
    /\ Deciding(w)
    /\ wk[w].pc = "start" => wk[w].seen.status = "queued"

QueuedServed ==
    task.status = "queued" =>
        \/ unsent + inbox > 0
        \/ \E w \in Workers : Serving(w)
        \/ lost + crashes > 0
        \/ clarified

\* One worker's step keeps it when QUEUED is not new and the worker goes on
\* serving, if it was.
LEMMA WorkerKeepsServed ==
    ASSUME QueuedServed, NEW w \in Workers, UNCHANGED <<queueVars, endVars>>,
           \A v \in Workers : v # w => wk'[v] = wk[v],
           task'.status = "queued" =>
             task.status = "queued" /\ (Serving(w) => Serving(w)')
    PROVE  QueuedServed'
<1> SUFFICES ASSUME task'.status = "queued", ~(unsent + inbox > 0),
                    ~(lost + crashes > 0), ~clarified
             PROVE  \E v \in Workers : Serving(v)'
  BY DEF QueuedServed, queueVars, endVars
<1>1. PICK v \in Workers : Serving(v)
  BY DEF QueuedServed
<1>2. CASE v = w
  BY <1>1, <1>2
<1>3. CASE v # w
  <2>1. wk'[v] = wk[v]
    BY <1>3
  <2>2. Serving(v)'
    BY <1>1, <2>1 DEF Serving, Deciding
  <2> QED
    BY <2>2
<1> QED
  BY <1>2, <1>3

\* The except block writes no QUEUED.
LEMMA FailKeepsQueued ==
    ASSUME TypeOK, NEW seen \in Row, NEW w \in Workers, Fail(w, seen)
    PROVE  task'.status = "queued" => task.status = "queued"
<1> DEFINE new == [seen EXCEPT !.status = "failed", !.plan.st = "failed"]
<1>1. new.status = "failed"
  BY DEF Row
<1>2. CASE CanSetTask(seen.status, "failed")
  <2>1. task'.status = Save(seen, new).status
    BY <1>2 DEF Fail, Save
  <2> HIDE DEF new
  <2> QED
    BY <1>1, <2>1, SaveStatus
<1>3. CASE ~CanSetTask(seen.status, "failed")
  BY <1>3 DEF Fail
<1> QED
  BY <1>2, <1>3

\* Before the runtime starts a worker goes on serving, or leaves QUEUED.
LEMMA PlanningKeepsServed ==
    ASSUME TypeOK, QueuedServed, NEW w \in Workers,
           \/ ParseNode(w) \/ PlanNode(w) \/ CheckStart(w) \/ Start(w)
           \/ \E asks \in BOOLEAN : BuildPlan(w, asks)
    PROVE  QueuedServed'
<1>1. UNCHANGED <<queueVars, endVars>>
  BY DEF ParseNode, PlanNode, CheckStart, Start, BuildPlan
<1>2. \A v \in Workers : v # w => wk'[v] = wk[v]
  BY DEF ParseNode, PlanNode, CheckStart, Start, BuildPlan, Moves, Stops, TypeOK
<1>3. task'.status = "queued" =>
        task.status = "queued" /\ (Serving(w) => Serving(w)')
  <2>1. CASE ParseNode(w)
    <3>1. task' = task /\ wk'[w].pc \in {"clarify", "plan"}
      BY <2>1 DEF ParseNode, Moves, TypeOK, WorkerState
    <3> QED
      BY <3>1 DEF Serving, Deciding
  <2>2. CASE PlanNode(w)
    <3>1. task' = task /\ wk'[w].pc \in {"approval", "failed", "begin", "build"}
      BY <2>2 DEF PlanNode, Moves, TypeOK, WorkerState
    <3> QED
      BY <3>1 DEF Serving, Deciding
  <2>3. ASSUME NEW asks \in BOOLEAN, BuildPlan(w, asks)
        PROVE  task'.status = task.status /\ Serving(w)'
    <3>1. PICK to \in {"clarify", "begin"} : Moves(w, to)
      BY <2>3 DEF BuildPlan
    <3>2. wk'[w].pc = to
      BY <3>1 DEF Moves, TypeOK, WorkerState
    <3> QED
      BY <2>3, <3>2, BuildPlanStatus DEF Serving, Deciding
  <2>4. CASE CheckStart(w)
    <3>1. CASE task.status = "queued" /\ task' = task
      <4>1. CanSetTask(task.status, "waiting_clarification")
        BY <3>1 DEF CanSetTask, CanTransition, TaskTransitions
      <4>2. \/ Moves(w, "clarify")
            \/ wk' = [wk EXCEPT ![w].pc = "start", ![w].seen = task, ![w].rev = spec.rev]
        BY <2>4, <3>1, <4>1 DEF CheckStart
      <4>3. \/ wk'[w].pc = "clarify"
            \/ wk'[w].pc = "start" /\ wk'[w].seen.status = "queued"
        BY <3>1, <4>2 DEF Moves, TypeOK, WorkerState
      <4> QED
        BY <3>1, <4>3 DEF Serving, Deciding
    <3> QED
      BY <2>4, <3>1, CheckStartStatus
  <2>5. CASE Start(w)
    <3>1. CASE wk[w].seen.status = "queued"
      <4>1. CanSetTask(wk[w].seen.status, "running")
        BY <3>1 DEF CanSetTask, CanTransition, TaskTransitions
      <4> QED
        BY <2>5, <3>1, <4>1, StartStatus
    <3>2. CASE wk[w].seen.status # "queued"
      <4>1. ~Serving(w)
        BY <2>5, <3>2 DEF Start, Serving
      <4>2. task'.status = "queued" => task.status = "queued"
        BY <2>5, StartStatus
      <4> QED
        BY <4>1, <4>2
    <3> QED
      BY <3>1, <3>2
  <2> QED
    BY <2>1, <2>2, <2>3, <2>4, <2>5
<1> QED
  BY <1>1, <1>2, <1>3, WorkerKeepsServed

\* Inside the runtime steps no worker counts as serving.
LEMMA RuntimeKeepsServed ==
    ASSUME TypeOK, QueuedServed, NEW w \in Workers,
           \/ LoadStep(w) \/ \E target \in {"skipped", "running"} : React(w, target)
           \/ ReactFails(w) \/ ToolReturns(w) \/ ToolRaises(w) \/ HandleFailure(w)
           \/ Finish(w)
    PROVE  QueuedServed'
<1>1. UNCHANGED <<queueVars, endVars>> /\ ~Serving(w)
  BY DEF LoadStep, React, ReactFails, ToolReturns, ToolRaises, HandleFailure, Finish,
         Serving, Deciding
<1>2. \A v \in Workers : v # w => wk'[v] = wk[v]
  BY DEF LoadStep, React, ReactFails, ToolReturns, ToolRaises, HandleFailure, Finish,
         Fail, Advance, Moves, Stops, TypeOK
<1>3. wk[w].seen \in Row /\ task \in Row
  BY DEF TypeOK, WorkerState
<1>4. task'.status = "queued" => task.status = "queued"
  <2>1. CASE LoadStep(w) \/ ToolRaises(w)
    BY <2>1 DEF LoadStep, ToolRaises
  <2>2. ASSUME NEW target, React(w, target) PROVE task'.status = task.status
    BY <1>3, <2>2, StepSaveStatus DEF React
  <2>3. CASE ReactFails(w) \/ HandleFailure(w)
    BY <1>3, <2>3, FailKeepsQueued DEF ReactFails, HandleFailure
  <2>4. CASE ToolReturns(w)
    BY <1>3, <2>4, FailKeepsQueued, StepSaveStatus DEF ToolReturns
  <2>5. CASE Finish(w)
    BY <1>3, <2>5, FailKeepsQueued DEF Finish
  <2> QED
    BY <2>1, <2>2, <2>3, <2>4, <2>5
<1> QED
  BY <1>1, <1>2, <1>4, WorkerKeepsServed

\* A worker that ends leaves no QUEUED behind, or says why.
LEMMA EndingKeepsServed ==
    ASSUME TypeOK, QueuedServed, NEW w \in Workers,
           \/ FinalizeFailed(w) \/ FinalizeApproval(w)
           \/ FinalizeClarification(w) \/ Crash(w)
    PROVE  QueuedServed'
<1>1. CASE FinalizeFailed(w)
  <2>1. task'.status = "failed"
    BY <1>1 DEF FinalizeFailed, TypeOK, Row
  <2> QED
    BY <2>1 DEF QueuedServed
<1>2. CASE FinalizeApproval(w)
  <2>1. task'.status = "awaiting_approval"
    BY <1>2 DEF FinalizeApproval, TypeOK, Row
  <2> QED
    BY <2>1 DEF QueuedServed
<1>3. CASE FinalizeClarification(w)
  BY <1>3 DEF FinalizeClarification, QueuedServed
<1>4. CASE Crash(w)
  <2>1. lost' + crashes' > 0
    BY <1>4 DEF Crash, queueVars, TypeOK
  <2> QED
    BY <2>1 DEF QueuedServed
<1> QED
  BY <1>1, <1>2, <1>3, <1>4

LEMMA NextServed == TypeOK /\ QueuedServed /\ [Next]_vars => QueuedServed'
<1> SUFFICES ASSUME TypeOK, QueuedServed, [Next]_vars PROVE QueuedServed'
  OBVIOUS
<1>1. ASSUME NEW r \in Requests, Request(r) PROVE QueuedServed'
  <2>1. CASE Approve(r)
    <3>1. unsent' + inbox' > 0
      BY <2>1 DEF Approve, TypeOK
    <3> QED
      BY <3>1 DEF QueuedServed
  <2>2. CASE ~Approve(r)
    <3>1. UNCHANGED <<queueVars, endVars, wk>>
      BY <1>1, <2>2 DEF Request, LoadForReview, Patch, Reject, LoadForCorrection,
                        Correct, Abandon
    <3>2. task'.status = "queued" => task.status = "queued"
      BY <1>1, <2>2, RequestStatus
    <3> QED
      BY <3>1, <3>2 DEF QueuedServed, Serving, Deciding, queueVars, endVars
  <2> QED
    BY <2>1, <2>2
<1>2. CASE Send
  <2>1. unsent' + inbox' = unsent + inbox /\ UNCHANGED <<task, wk, lost, endVars>>
    BY <1>2 DEF Send, TypeOK
  <2> QED
    BY <2>1 DEF QueuedServed, Serving, Deciding, endVars
<1>3. CASE SendLost
  <2>1. lost' + crashes' > 0
    BY <1>3 DEF SendLost, endVars, TypeOK
  <2> QED
    BY <2>1 DEF QueuedServed
<1>4. CASE UNCHANGED vars
  BY <1>4 DEF vars, QueuedServed, Serving, Deciding
<1>5. ASSUME NEW w \in Workers, Take(w) PROVE QueuedServed'
  <2>1. wk'[w].pc = "parse"
    BY <1>5 DEF Take, TypeOK, WorkerState
  <2>2. Serving(w)'
    BY <2>1 DEF Serving, Deciding
  <2> QED
    BY <2>2 DEF QueuedServed
<1>6. ASSUME NEW w \in Workers, Work(w) \/ Crash(w) PROVE QueuedServed'
  BY <1>6, PlanningKeepsServed, RuntimeKeepsServed, EndingKeepsServed DEF Work
<1> QED
  BY <1>1, <1>2, <1>3, <1>4, <1>5, <1>6 DEF Next

\* A QUEUED task has a submission on its way or a worker that has not decided,
\* however many approvals, corrections and runs overlap, unless a message was
\* lost, a worker died, or a question was not stored.
THEOREM QueuedTasksAreServed == Spec => []QueuedIsServed
<1>1. Init => QueuedServed
  <2> SUFFICES ASSUME Init, task.status = "queued" PROVE unsent + inbox > 0
    BY DEF QueuedServed
  <2>1. PICK kind \in BirthKinds :
          /\ task \in BirthRows[kind]
          /\ unsent = IF kind = "rerun" THEN 1 ELSE 0
    BY ConstantsAssumption DEF Init
  <2>2. kind = "rerun"
    BY <2>1 DEF BirthRows, BirthKinds
  <2> QED
    BY <2>1, <2>2 DEF Init
<1>2. QueuedServed => QueuedIsServed
  BY DEF QueuedServed, QueuedIsServed, Serving
<1> QED
  BY <1>1, <1>2, NextServed, TypeCorrect, PTL DEF Spec
-----------------------------------------------------------------------------
(* One worker: the artifacts of a task that succeeded.                     *)

SoleWorker == \A v, w \in Workers : v = w

\* A handler that runs has its step RUNNING, and outputs once published are
\* all there: no handler that could delete them runs again.
ArtifactInv ==
    /\ \A w \in Workers : wk[w].pc = "tool" => step[wk[w].node] = "running"
    /\ step["generate_outputs"] = "success" => artifacts = "complete"

\* A step that runs no handler and ends no step keeps the artifacts' invariant.
LEMMA QuietKeepsArtifacts ==
    ASSUME TypeOK, ArtifactInv, artifacts' = artifacts,
           step'["generate_outputs"] = "success" => step["generate_outputs"] = "success",
           \A w \in Workers : wk'[w].pc = "tool" =>
             /\ wk[w].pc = "tool" /\ wk'[w].node = wk[w].node
             /\ step'[wk[w].node] = step[wk[w].node]
    PROVE  ArtifactInv'
  BY DEF ArtifactInv

\* A failing worker is out of its handler.
LEMMA FailKeepsArtifacts ==
    ASSUME SoleWorker, TypeOK, NEW w \in Workers, NEW seen \in Row, Fail(w, seen)
    PROVE  /\ \A v \in Workers : wk'[v].pc # "tool"
           /\ step'["generate_outputs"] = "success" => step["generate_outputs"] = "success"
<1>1. wk'[w].pc # "tool"
  BY DEF Fail, Moves, Stops, IdleWorker, TypeOK, WorkerState
<1>2. \A v \in Workers : v = w
  BY DEF SoleWorker
<1>3. step'["generate_outputs"] = "success" => step["generate_outputs"] = "success"
  BY DEF Fail, TypeOK, Steps, GraphSteps
<1> QED
  BY <1>1, <1>2, <1>3

LEMMA ReactKeepsArtifacts ==
    ASSUME SoleWorker, TypeOK, ArtifactInv, NEW w \in Workers,
           NEW target \in {"skipped", "running"}, React(w, target)
    PROVE  ArtifactInv'
<1> DEFINE s == wk[w].node
<1>1. /\ s \in GraphSteps /\ s \in Steps
      /\ step' = [step EXCEPT ![s] = target] /\ artifacts' = artifacts
  BY DEF TypeOK, WorkerState, Steps, React
<1>2. step'[s] = target
  BY <1>1 DEF TypeOK
<1>3. step'["generate_outputs"] = "success" => step["generate_outputs"] = "success"
  BY <1>1 DEF TypeOK, Steps, GraphSteps
<1>4. wk'[w].pc = "tool" => target = "running" /\ wk'[w].node = s
  BY DEF React, Advance, TypeOK, WorkerState
<1>5. \A v \in Workers : v = w
  BY DEF SoleWorker
<1> QED
  BY <1>1, <1>2, <1>3, <1>4, <1>5 DEF ArtifactInv

LEMMA ToolReturnsKeepsArtifacts ==
    ASSUME SoleWorker, TypeOK, ArtifactInv, NEW w \in Workers, ToolReturns(w)
    PROVE  ArtifactInv'
<1> DEFINE s == wk[w].node
<1>1. s \in GraphSteps /\ s \in Steps /\ wk[w].seen \in Row
  BY DEF TypeOK, WorkerState, Steps
<1>2. artifacts' = ArtifactsAfter(s)
  BY DEF ToolReturns
<1>3. CASE Fail(w, wk[w].seen)
  <2>1. /\ \A v \in Workers : wk'[v].pc # "tool"
        /\ step'["generate_outputs"] = "success" => step["generate_outputs"] = "success"
    BY <1>1, <1>3, FailKeepsArtifacts
  <2> QED
    BY <1>2, <2>1 DEF ArtifactInv, ArtifactsAfter
<1>4. CASE ~Fail(w, wk[w].seen)
  <2>1. /\ step' = [step EXCEPT ![s] = "success"]
        /\ wk'[w].pc # "tool"
    BY <1>4 DEF ToolReturns, TypeOK, WorkerState
  <2>2. \A v \in Workers : v = w
    BY DEF SoleWorker
  <2>3. s # "generate_outputs" =>
          step'["generate_outputs"] = step["generate_outputs"]
    BY <1>1, <2>1 DEF TypeOK, Steps, GraphSteps
  <2> QED
    BY <1>2, <2>1, <2>2, <2>3 DEF ArtifactInv, ArtifactsAfter
<1> QED
  BY <1>3, <1>4

\* Only while its step is RUNNING does generate_outputs delete rows.
LEMMA ToolRaisesKeepsArtifacts ==
    ASSUME SoleWorker, TypeOK, ArtifactInv, NEW w \in Workers, ToolRaises(w)
    PROVE  ArtifactInv'
<1>1. step' = step /\ wk'[w].pc # "tool" /\ step[wk[w].node] = "running"
  BY DEF ToolRaises, Moves, TypeOK, WorkerState, ArtifactInv
<1>2. \A v \in Workers : v = w
  BY DEF SoleWorker
<1>3. artifacts' = artifacts \/ wk[w].node = "generate_outputs"
  BY DEF ToolRaises
<1> QED
  BY <1>1, <1>2, <1>3 DEF ArtifactInv

\* Where the graph runs no handler.
LEMMA OutsideKeepsArtifacts ==
    ASSUME TypeOK, ArtifactInv, NEW w \in Workers,
           \/ Take(w) \/ ParseNode(w) \/ PlanNode(w)
           \/ \E asks \in BOOLEAN : BuildPlan(w, asks)
           \/ LoadStep(w) \/ FinalizeFailed(w) \/ FinalizeApproval(w)
           \/ FinalizeClarification(w) \/ Crash(w)
    PROVE  ArtifactInv'
<1>1. step' = step /\ artifacts' = artifacts
  BY DEF Take, ParseNode, PlanNode, BuildPlan, LoadStep, FinalizeFailed,
         FinalizeApproval, FinalizeClarification, Crash
<1>2. wk'[w].pc # "tool"
  <2>1. CASE PlanNode(w)
    BY <2>1 DEF PlanNode, Moves, TypeOK, WorkerState
  <2>2. CASE \E asks \in BOOLEAN : BuildPlan(w, asks)
    BY <2>2 DEF BuildPlan, Moves, TypeOK, WorkerState
  <2>3. CASE Take(w) \/ ParseNode(w) \/ LoadStep(w)
    BY <2>3 DEF Take, ParseNode, LoadStep, Moves, TypeOK, WorkerState
  <2>4. CASE \/ FinalizeFailed(w) \/ FinalizeApproval(w)
             \/ FinalizeClarification(w) \/ Crash(w)
    <3>1. Stops(w)
      BY <2>4 DEF FinalizeFailed, FinalizeApproval, FinalizeClarification, Crash
    <3> QED
      BY <3>1 DEF Stops, IdleWorker, TypeOK
  <2> QED
    BY <2>1, <2>2, <2>3, <2>4
<1>3. \A v \in Workers : v # w => wk'[v] = wk[v]
  BY DEF Take, ParseNode, PlanNode, BuildPlan, LoadStep, FinalizeFailed,
         FinalizeApproval, FinalizeClarification, Crash, Moves, Stops, TypeOK
<1> QED
  BY <1>1, <1>2, <1>3, QuietKeepsArtifacts

LEMMA StartKeepsArtifacts ==
    ASSUME SoleWorker, TypeOK, ArtifactInv, NEW w \in Workers,
           CheckStart(w) \/ Start(w)
    PROVE  ArtifactInv'
<1>1. wk'[w].pc # "tool"
  BY DEF CheckStart, Start, Moves, Stops, IdleWorker, TypeOK, WorkerState
<1>2. step'["generate_outputs"] = "success" => step["generate_outputs"] = "success"
  BY DEF CheckStart, Start, TypeOK, Steps, GraphSteps
<1>3. artifacts' = artifacts /\ \A v \in Workers : v = w
  BY DEF CheckStart, Start, SoleWorker
<1> QED
  BY <1>1, <1>2, <1>3 DEF ArtifactInv

LEMMA NextArtifacts ==
    ASSUME SoleWorker, TypeOK, ArtifactInv, [Next]_vars
    PROVE  ArtifactInv'
<1>1. ASSUME NEW r \in Requests, Request(r) PROVE ArtifactInv'
  BY <1>1 DEF Request, LoadForReview, Patch, Approve, Reject, LoadForCorrection,
              Correct, Abandon, ArtifactInv
<1>2. CASE Send \/ SendLost \/ UNCHANGED vars
  BY <1>2 DEF Send, SendLost, vars, ArtifactInv
<1>3. ASSUME NEW w \in Workers, Take(w) \/ Work(w) \/ Crash(w) PROVE ArtifactInv'
  <2>1. CASE CheckStart(w) \/ Start(w)
    BY <2>1, StartKeepsArtifacts
  <2>2. ASSUME NEW target \in {"skipped", "running"}, React(w, target)
        PROVE  ArtifactInv'
    BY <2>2, ReactKeepsArtifacts
  <2>3. CASE ToolReturns(w)
    BY <2>3, ToolReturnsKeepsArtifacts
  <2>4. CASE ToolRaises(w)
    BY <2>4, ToolRaisesKeepsArtifacts
  <2>5. ASSUME NEW seen \in Row, Fail(w, seen), artifacts' = artifacts
        PROVE  ArtifactInv'
    BY <2>5, FailKeepsArtifacts DEF ArtifactInv
  <2>6. CASE ReactFails(w)
    BY <2>5, <2>6 DEF ReactFails, TypeOK, WorkerState
  <2>7. CASE HandleFailure(w)
    BY <2>5, <2>7 DEF HandleFailure, TypeOK
  <2>8. CASE Finish(w)
    <3>1. CASE Fail(w, task)
      BY <2>5, <2>8, <3>1 DEF Finish, TypeOK
    <3>2. CASE ~Fail(w, task)
      <4>1. step' = step /\ artifacts' = artifacts /\ Stops(w)
        BY <2>8, <3>2 DEF Finish
      <4>2. wk'[w].pc # "tool" /\ \A v \in Workers : v # w => wk'[v] = wk[v]
        BY <4>1 DEF Stops, IdleWorker, TypeOK
      <4> QED
        BY <4>1, <4>2, QuietKeepsArtifacts
    <3> QED
      BY <3>1, <3>2
  <2> QED
    BY <1>3, <2>1, <2>2, <2>3, <2>4, <2>6, <2>7, <2>8, OutsideKeepsArtifacts DEF Work
<1> QED
  BY <1>1, <1>2, <1>3 DEF Next

\* With one worker a task that succeeded has all of its artifact rows,
\* whatever the requests and corrections: a second run never gets into
\* generate_outputs once that step has ended.
THEOREM ArtifactsAreComplete ==
    ASSUME SoleWorker
    PROVE  Spec => []SuccessArtifactsComplete
<1>1. Init => ArtifactInv
  BY DEF Init, ArtifactInv, IdleWorker, Steps, GraphSteps
<1>2. TypeOK /\ ArtifactInv /\ [Next]_vars => ArtifactInv'
  BY NextArtifacts
<1>3. ArtifactInv => SuccessArtifactsComplete
  BY DEF ArtifactInv, SuccessArtifactsComplete
<1> QED
  BY <1>1, <1>2, <1>3, TypeCorrect, PTL DEF Spec
-----------------------------------------------------------------------------
(* One request at a time and no corrections: the life of a task.           *)

OneAtATime == "correct" \notin Kinds /\ \A r, s \in Requests : r = s

Busy(w) == wk[w].pc # "idle"

\* A request in flight has the row to itself.
ReviewAlone ==
    \A r \in Requests : req[r].kind # "none" =>
      /\ req[r].kind # "correct"
      /\ task.status = "awaiting_approval"
      /\ req[r].seen = task

\* What the row says goes with how far the task's one submission has come.
RowSerial ==
    /\ task.status \notin {"draft", "approved"}
    /\ task.status \in {"awaiting_approval", "waiting_clarification", "cancelled"}
         => granted = 0
    /\ task.status \in {"running", "success", "failed"} => taken = 1
    /\ task.status \in {"awaiting_approval", "queued"} => ~spec.ask /\ ~spec.blocked
    /\ task.status = "awaiting_approval" =>
         task.plan.st = "ready" /\ task.plan.op \in {"draft", "validated"}
    /\ task.status = "queued" =>
         /\ task.plan.op \in {"none", "approved"}
         /\ taken = 0 => task.plan.st = "ready"

\* What a worker inside the graph may rely on.
WorkerSerial(w) ==
    /\ Busy(w) => taken = 1
    /\ wk[w].pc # "approval"
    /\ wk[w].pc \in {"parse", "plan", "build", "begin", "start", "clarify"}
         => task.status = "queued"
    /\ wk[w].pc \in {"parse", "plan"} => task.plan.st = "ready"
    /\ wk[w].pc = "build" => wk[w].seen = task /\ task.plan.op = "none"
    /\ wk[w].pc = "begin" => task.plan.op = "approved" /\ ~wk[w].ask
    /\ wk[w].pc = "start" => wk[w].seen = task /\ task.plan.op = "approved"
    /\ Executing(w) => task.status = "running"
    /\ wk[w].pc \in {"react", "tool"} => wk[w].seen.status = "running"
    /\ wk[w].pc = "failed" => task.status = "failed"

SerialInv ==
    /\ granted <= 1
    /\ ReviewAlone
    /\ RowSerial
    /\ \A w \in Workers : WorkerSerial(w)
    /\ \A v, w \in Workers : Busy(v) /\ Busy(w) => v = w

\* Without a submission nothing is on its way; with one taken nothing else is.
LEMMA SerialCounts ==
    ASSUME TypeOK, SubmissionsAccounted, SerialInv
    PROVE  /\ granted = 0 => /\ unsent = 0 /\ inbox = 0 /\ taken = 0
                             /\ \A w \in Workers : ~Busy(w)
           /\ taken = 1 => granted = 1 /\ unsent = 0 /\ inbox = 0
           /\ inbox > 0 => granted = 1 /\ taken = 0 /\ \A w \in Workers : ~Busy(w)
<1>1. /\ granted <= 1 /\ granted = unsent + inbox + taken + lost
      /\ granted \in Nat /\ unsent \in Nat /\ inbox \in Nat /\ taken \in Nat /\ lost \in Nat
  BY DEF SerialInv, SubmissionsAccounted, TypeOK
<1>2. taken # 1 => \A w \in Workers : ~Busy(w)
  BY DEF SerialInv, WorkerSerial
<1> QED
  BY <1>1, <1>2

LEMMA InitSerial == Init => SerialInv
<1> SUFFICES ASSUME Init PROVE SerialInv
  OBVIOUS
<1>1. PICK kind \in BirthKinds :
        /\ task \in BirthRows[kind]
        /\ spec = [rev |-> 1, blocked |-> kind = "blocked",
                   ask |-> kind \in {"clarify", "blocked"}]
        /\ granted = IF kind = "rerun" THEN 1 ELSE 0
  BY ConstantsAssumption DEF Init
<1>2. /\ \A w \in Workers : wk[w].pc = "idle"
      /\ \A r \in Requests : req[r].kind = "none"
      /\ taken = 0
  BY DEF Init, IdleWorker, IdleRequest
<1>3. RowSerial
  <2>1. CASE kind = "approval"
    <3>1. /\ task.status = "awaiting_approval"
          /\ task.plan.st = "ready" /\ task.plan.op = "draft"
      BY <1>1, <2>1 DEF BirthRows
    <3> QED
      BY <1>1, <2>1, <3>1 DEF RowSerial
  <2>2. CASE kind \in {"clarify", "blocked"}
    <3>1. task.status = "waiting_clarification"
      BY <1>1, <2>2 DEF BirthRows
    <3> QED
      BY <1>1, <2>2, <3>1 DEF RowSerial
  <2>3. CASE kind = "rerun"
    <3>1. task.status = "queued" /\ task.plan.st = "ready" /\ task.plan.op = "none"
      BY <1>1, <2>3 DEF BirthRows, NoPlan
    <3> QED
      BY <1>1, <2>3, <3>1 DEF RowSerial
  <2> QED
    BY <2>1, <2>2, <2>3 DEF BirthKinds
<1>4. \A w \in Workers : WorkerSerial(w) /\ ~Busy(w)
  BY <1>2 DEF WorkerSerial, Busy, Executing
<1> QED
  BY <1>1, <1>2, <1>3, <1>4 DEF SerialInv, ReviewAlone

\* The end of a request: the next one finds the row as it is left.
LEMMA ReviewEnds ==
    ASSUME OneAtATime, TypeOK, SerialInv, NEW r \in Requests,
           req' = [req EXCEPT ![r] = IdleRequest],
           wk' = wk, taken' = taken, granted' <= 1,
           \A w \in Workers : ~Busy(w), RowSerial'
    PROVE  SerialInv'
<1>1. \A s \in Requests : req'[s].kind = "none"
  BY DEF OneAtATime, TypeOK, IdleRequest
<1>2. \A w \in Workers : WorkerSerial(w)' /\ ~Busy(w)'
  BY DEF WorkerSerial, Busy, Executing
<1> QED
  BY <1>1, <1>2 DEF SerialInv, ReviewAlone

LEMMA RequestSerial ==
    ASSUME OneAtATime, TypeOK, SubmissionsAccounted, SerialInv, NEW r \in Requests,
           Request(r)
    PROVE  /\ SerialInv'
           /\ task.status \in TerminalStatuses => task'.status = task.status
<1>1. task \in Row /\ task.plan \in Plan
  BY DEF TypeOK, Row
<1>2. req[r].kind # "none" =>
        /\ req[r].kind # "correct" /\ req[r].seen = task
        /\ task.status = "awaiting_approval"
        /\ granted = 0 /\ taken = 0 /\ \A w \in Workers : ~Busy(w)
        /\ task.plan.st = "ready" /\ task.plan.op \in {"draft", "validated"}
        /\ ~spec.ask /\ ~spec.blocked
  BY SerialCounts DEF SerialInv, ReviewAlone, RowSerial
<1>3. ASSUME NEW kind \in {"patch", "approve", "reject"}, NEW v \in 0..MaxVersion,
             LoadForReview(r, kind, v)
      PROVE  SerialInv' /\ task' = task
  <2>1. UNCHANGED <<task, spec, wk, granted, taken>>
    BY <1>3 DEF LoadForReview, queueVars
  <2>2. ReviewAlone'
    BY <1>3, <2>1 DEF LoadForReview, Reviewable, OneAtATime, ReviewAlone, TypeOK
  <2>3. RowSerial' /\ \A w \in Workers : WorkerSerial(w)'
    BY <2>1 DEF SerialInv, RowSerial, WorkerSerial, Busy, Executing
  <2> QED
    BY <2>1, <2>2, <2>3 DEF SerialInv, Busy
<1>4. CASE Patch(r)
  <2> DEFINE plan == [task.plan EXCEPT !.op = "validated", !.ver = req[r].ver]
             new == [task EXCEPT !.plan = plan]
  <2>1. req[r].kind = "patch" /\ req[r].ver \in 0..MaxVersion
    BY <1>4 DEF Patch, TypeOK, RequestState
  <2>2. plan.op = "validated" /\ plan.st = task.plan.st
    BY <1>1 DEF Plan
  <2>3. task' = Save(task, new)
    BY <1>1, <1>2, <1>4, <2>1 DEF Patch, Row, Plan
  <2> HIDE DEF plan
  <2>4. task'.status = task.status /\ task'.plan = plan
    BY <1>1, <2>3 DEF Save, Row
  <2>5. UNCHANGED <<spec, wk, granted, taken>> /\ req' = [req EXCEPT ![r] = IdleRequest]
    BY <1>4 DEF Patch, queueVars
  <2>6. RowSerial'
    BY <1>2, <2>1, <2>2, <2>4, <2>5 DEF RowSerial
  <2>7. granted' <= 1
    BY <1>2, <2>1, <2>5
  <2>8. SerialInv'
    BY <1>2, <2>1, <2>5, <2>6, <2>7, ReviewEnds
  <2> QED
    BY <2>4, <2>8
<1>5. CASE Approve(r)
  <2> DEFINE plan == [task.plan EXCEPT !.op = "approved"]
             new == [task EXCEPT !.plan = plan, !.status = "queued"]
  <2>1. req[r].kind = "approve"
    BY <1>5 DEF Approve
  <2>2. plan.op = "approved" /\ plan.st = task.plan.st
    BY <1>1 DEF Plan
  <2>3. task' = Save(task, new)
    BY <1>1, <1>2, <1>5, <2>1 DEF Approve, Row, Plan
  <2> HIDE DEF plan
  <2>4. task'.status = "queued" /\ task'.plan = plan
    BY <1>1, <1>2, <2>1, <2>3 DEF Save, Row
  <2>5. /\ UNCHANGED <<spec, wk, taken>> /\ granted' = granted + 1
        /\ req' = [req EXCEPT ![r] = IdleRequest]
    BY <1>5 DEF Approve, queueVars
  <2>6. RowSerial'
    BY <1>2, <2>1, <2>2, <2>4, <2>5 DEF RowSerial
  <2>7. granted' <= 1
    BY <1>2, <2>1, <2>5
  <2>8. task.status \notin TerminalStatuses
    BY <1>2, <2>1 DEF TerminalStatuses
  <2> QED
    BY <1>2, <2>1, <2>5, <2>6, <2>7, <2>8, ReviewEnds
<1>6. CASE Reject(r)
  <2>1. req[r].kind = "reject"
    BY <1>6 DEF Reject
  <2>2. task'.status = "cancelled"
    BY <1>1, <1>2, <1>6, <2>1 DEF Reject, Save, Row
  <2>3. UNCHANGED <<spec, wk, granted, taken>> /\ req' = [req EXCEPT ![r] = IdleRequest]
    BY <1>6 DEF Reject, queueVars
  <2>4. RowSerial'
    BY <1>2, <2>1, <2>2, <2>3 DEF RowSerial
  <2>5. task.status \notin TerminalStatuses
    BY <1>2, <2>1 DEF TerminalStatuses
  <2>6. granted' <= 1
    BY <1>2, <2>1, <2>3
  <2> QED
    BY <1>2, <2>1, <2>3, <2>4, <2>5, <2>6, ReviewEnds
<1>7. CASE Abandon(r)
  <2>1. UNCHANGED <<task, spec, wk, granted, taken>>
        /\ req' = [req EXCEPT ![r] = IdleRequest] /\ req[r].kind # "none"
    BY <1>7 DEF Abandon, queueVars
  <2>2. RowSerial'
    BY <2>1 DEF SerialInv, RowSerial
  <2>3. granted' <= 1
    BY <1>2, <2>1
  <2> QED
    BY <1>2, <2>1, <2>2, <2>3, ReviewEnds
<1>8. ~LoadForCorrection(r) /\ ~\E blocked \in BOOLEAN : Correct(r, blocked)
  BY <1>2 DEF LoadForCorrection, Correct, OneAtATime
<1> QED
  BY <1>3, <1>4, <1>5, <1>6, <1>7, <1>8 DEF Request

\* A step of the one worker in the graph.
LEMMA WorkerKeepsSerial ==
    ASSUME TypeOK, SubmissionsAccounted, SerialInv, NEW w \in Workers, Busy(w),
           UNCHANGED <<req, granted, taken>>,
           \A v \in Workers : v # w => wk'[v] = wk[v],
           RowSerial', WorkerSerial(w)'
    PROVE  SerialInv'
<1>1. taken = 1 /\ granted = 1
  BY SerialCounts DEF SerialInv, WorkerSerial
<1>2. \A v \in Workers : v # w => ~Busy(v) /\ ~Busy(v)'
  BY DEF SerialInv, Busy
<1>3. \A v \in Workers : v # w => WorkerSerial(v)'
  BY <1>2 DEF WorkerSerial, Busy, Executing
<1>4. \A r \in Requests : req[r].kind = "none"
  BY <1>1 DEF SerialInv, ReviewAlone, RowSerial
<1>5. ReviewAlone'
  BY <1>4 DEF ReviewAlone
<1>6. granted' <= 1
  BY <1>1
<1>7. \A u, v \in Workers : Busy(u)' /\ Busy(v)' => u = v
  BY <1>2
<1> QED
  BY <1>3, <1>5, <1>6, <1>7 DEF SerialInv

LEMMA TakeSerial ==
    ASSUME TypeOK, SubmissionsAccounted, SerialInv, NEW w \in Workers, Take(w)
    PROVE  SerialInv' /\ task' = task
<1>1. /\ granted = 1 /\ taken = 0 /\ \A v \in Workers : ~Busy(v)
      /\ UNCHANGED <<task, spec, req, granted>> /\ taken' = 1
  BY SerialCounts DEF Take, apiVars
<1>2. task.status = "queued"
  BY <1>1 DEF SerialInv, RowSerial, TypeOK, Row, TaskStatuses
<1>3. /\ wk'[w].pc = "parse"
      /\ \A v \in Workers : v # w => wk'[v] = wk[v]
  BY DEF Take, TypeOK, WorkerState
<1>4. WorkerSerial(w)'
  BY <1>1, <1>2, <1>3 DEF WorkerSerial, Busy, Executing, SerialInv, RowSerial
<1>5. \A v \in Workers : v # w => WorkerSerial(v)' /\ ~Busy(v)'
  BY <1>1, <1>3 DEF WorkerSerial, Busy, Executing
<1>6. RowSerial'
  BY <1>1, <1>2 DEF SerialInv, RowSerial
<1>7. ReviewAlone'
  BY <1>1 DEF SerialInv, ReviewAlone
<1> QED
  BY <1>1, <1>4, <1>5, <1>6, <1>7 DEF SerialInv

\* A worker that leaves the graph, or moves on without touching the row.
LEMMA StopsSerial ==
    ASSUME TypeOK, SubmissionsAccounted, SerialInv, NEW w \in Workers, Busy(w),
           Stops(w), UNCHANGED <<req, granted, taken>>, RowSerial'
    PROVE  SerialInv'
<1>1. wk'[w].pc = "idle" /\ \A v \in Workers : v # w => wk'[v] = wk[v]
  BY DEF Stops, IdleWorker, TypeOK
<1>2. WorkerSerial(w)'
  BY <1>1 DEF WorkerSerial, Busy, Executing
<1> QED
  BY <1>1, <1>2, WorkerKeepsSerial

\* Before the runtime starts: the row is QUEUED, on a plan that is approved or
\* has still to be built.
LEMMA PlanningSerial ==
    ASSUME TypeOK, SubmissionsAccounted, SerialInv, NEW w \in Workers,
           ParseNode(w) \/ PlanNode(w) \/ \E asks \in BOOLEAN : BuildPlan(w, asks)
    PROVE  SerialInv' /\ task.status = "queued"
<1>1. /\ Busy(w) /\ task.status = "queued" /\ taken = 1
      /\ ~spec.ask /\ ~spec.blocked /\ task.plan.op \in {"none", "approved"}
      /\ WorkerSerial(w) /\ RowSerial
  BY DEF ParseNode, PlanNode, BuildPlan, SerialInv, WorkerSerial, RowSerial, Busy
<1>2. UNCHANGED <<spec, req, granted, taken>>
  BY DEF ParseNode, PlanNode, BuildPlan, apiVars, queueVars
<1>3. \A v \in Workers : v # w => wk'[v] = wk[v]
  BY DEF ParseNode, PlanNode, BuildPlan, Moves, TypeOK
<1>4. CASE ParseNode(w)
  <2>1. task' = task /\ wk'[w].pc = "plan"
    BY <1>1, <1>4 DEF ParseNode, Moves, TypeOK, WorkerState
  <2>2. wk[w].pc = "parse"
    BY <1>4 DEF ParseNode
  <2>3. WorkerSerial(w)'
    BY <1>1, <1>2, <2>1, <2>2 DEF WorkerSerial, Busy, Executing
  <2>4. RowSerial'
    BY <1>1, <1>2, <2>1 DEF RowSerial
  <2> QED
    BY <1>1, <1>2, <1>3, <2>3, <2>4, WorkerKeepsSerial
<1>5. CASE PlanNode(w)
  <2>1. /\ task' = task /\ wk[w].pc = "plan" /\ task.plan.st = "ready"
    BY <1>1, <1>5 DEF PlanNode, WorkerSerial
  <2>2. RowSerial'
    BY <1>1, <1>2, <2>1 DEF RowSerial
  <2>3. CASE task.plan.op = "approved"
    <3>1. wk'[w].pc = "begin" /\ ~wk'[w].ask
      BY <1>1, <1>5, <2>1, <2>3 DEF PlanNode, TypeOK, WorkerState
    <3>2. WorkerSerial(w)'
      BY <1>1, <1>2, <2>1, <2>3, <3>1 DEF WorkerSerial, Busy, Executing
    <3> QED
      BY <1>1, <1>2, <1>3, <2>2, <3>2, WorkerKeepsSerial
  <2>4. CASE task.plan.op = "none"
    <3>1. wk'[w].pc = "build" /\ wk'[w].seen = task
      BY <1>1, <1>5, <2>1, <2>4 DEF PlanNode, TypeOK, WorkerState
    <3>2. WorkerSerial(w)'
      BY <1>1, <1>2, <2>1, <2>4, <3>1 DEF WorkerSerial, Busy, Executing
    <3> QED
      BY <1>1, <1>2, <1>3, <2>2, <3>2, WorkerKeepsSerial
  <2> QED
    BY <1>1, <2>3, <2>4
<1>6. ASSUME NEW asks \in BOOLEAN, BuildPlan(w, asks)
      PROVE  SerialInv'
  <2> DEFINE plan == BuiltPlan(task, asks)
             new == [task EXCEPT !.plan = plan]
  <2>1. /\ wk[w].pc = "build" /\ wk[w].seen = task /\ task.plan.op = "none"
        /\ task \in Row
    BY <1>1, <1>6 DEF BuildPlan, WorkerSerial, TypeOK
  <2>2. /\ asks => plan.op = "none"
        /\ ~asks => plan.op = "approved"
    BY <2>1 DEF BuiltPlan, NoPlan
  <2>3. task' = Save(task, new)
    BY <1>6, <2>1 DEF BuildPlan
  <2> HIDE DEF plan
  <2>4. task'.status = task.status /\ task'.plan = plan
    BY <2>1, <2>3 DEF Save, Row
  <2>5. RowSerial'
    BY <1>1, <1>2, <2>2, <2>4 DEF RowSerial
  <2>6. /\ wk'[w].pc = IF asks THEN "clarify" ELSE "begin"
        /\ wk'[w].ask = wk[w].ask
    <3> DEFINE to == IF asks THEN "clarify" ELSE "begin"
    <3>1. wk' = [wk EXCEPT ![w].pc = to, ![w].seen = NoRow]
      BY <1>6 DEF BuildPlan, Moves
    <3> HIDE DEF to
    <3>2. wk'[w].pc = to /\ wk'[w].ask = wk[w].ask
      BY <3>1 DEF TypeOK, WorkerState
    <3> QED
      BY <3>2 DEF to
  <2>7. ~asks => ~wk[w].ask
    BY <1>6 DEF BuildPlan
  <2>8. WorkerSerial(w)'
    BY <1>1, <1>2, <2>2, <2>4, <2>6, <2>7 DEF WorkerSerial, Busy, Executing
  <2> QED
    BY <1>1, <1>2, <1>3, <2>5, <2>8, WorkerKeepsSerial
<1> QED
  BY <1>1, <1>4, <1>5, <1>6

\* The runtime starts, on an approved plan and the row its worker has seen.
LEMMA CheckStartSerial ==
    ASSUME TypeOK, SubmissionsAccounted, SerialInv, NEW w \in Workers, CheckStart(w)
    PROVE  SerialInv' /\ task.status = "queued"
<1>1. /\ Busy(w) /\ task.status = "queued" /\ taken = 1 /\ ~wk[w].ask
      /\ ~spec.ask /\ ~spec.blocked /\ task.plan.op = "approved" /\ RowSerial
  BY DEF CheckStart, SerialInv, WorkerSerial, RowSerial, Busy
<1>2. UNCHANGED <<spec, req, granted, taken>>
  BY DEF CheckStart, apiVars, queueVars
<1>3. /\ task' = task
      /\ wk' = [wk EXCEPT ![w].pc = "start", ![w].seen = task, ![w].rev = spec.rev]
  BY <1>1 DEF CheckStart, ExecutionBlocked
<1>4. /\ wk'[w].pc = "start" /\ wk'[w].seen = task
      /\ \A v \in Workers : v # w => wk'[v] = wk[v]
  BY <1>3 DEF TypeOK, WorkerState
<1>5. RowSerial'
  BY <1>1, <1>2, <1>3 DEF RowSerial
<1>6. WorkerSerial(w)'
  BY <1>1, <1>2, <1>3, <1>4 DEF WorkerSerial, Busy, Executing
<1> QED
  BY <1>1, <1>2, <1>4, <1>5, <1>6, WorkerKeepsSerial

LEMMA StartSerial ==
    ASSUME TypeOK, SubmissionsAccounted, SerialInv, NEW w \in Workers, Start(w)
    PROVE  SerialInv' /\ task.status = "queued" /\ task'.plan.op = "approved"
<1>1. /\ Busy(w) /\ task.status = "queued" /\ taken = 1 /\ wk[w].seen = task
      /\ ~spec.ask /\ ~spec.blocked /\ task.plan.op = "approved"
  BY DEF Start, SerialInv, WorkerSerial, RowSerial, Busy
<1>2. UNCHANGED <<spec, req, granted, taken>>
  BY DEF Start, apiVars, queueVars
<1>3. CanSetTask(task.status, "running")
  BY <1>1 DEF CanSetTask, CanTransition, TaskTransitions
<1> DEFINE plan == [task.plan EXCEPT !.st = "running"]
           row == [status |-> "running", cur |-> "plan_task", plan |-> plan]
<1>4. /\ task' = Save(task, row)
      /\ wk' = [wk EXCEPT ![w].pc = "step", ![w].seen = NoRow, ![w].rev = 0]
  BY <1>1, <1>3 DEF Start
<1>5. plan.op = "approved"
  BY <1>1 DEF TypeOK, Row, Plan
<1>6. task'.status = "running" /\ task'.plan.op = "approved"
  <2> HIDE DEF plan
  <2> QED
    BY <1>1, <1>4, <1>5 DEF Save
<1>7. wk'[w].pc = "step" /\ \A v \in Workers : v # w => wk'[v] = wk[v]
  BY <1>4 DEF TypeOK, WorkerState
<1>8. RowSerial'
  BY <1>1, <1>2, <1>6 DEF RowSerial
<1>9. WorkerSerial(w)'
  BY <1>1, <1>2, <1>6, <1>7 DEF WorkerSerial, Busy, Executing
<1> QED
  BY <1>1, <1>2, <1>6, <1>7, <1>8, <1>9, WorkerKeepsSerial

\* The except block over a row that was RUNNING ends the task.
LEMMA FailSerial ==
    ASSUME TypeOK, SubmissionsAccounted, SerialInv, NEW w \in Workers, Busy(w),
           NEW seen \in Row, seen.status = "running", Fail(w, seen),
           UNCHANGED <<spec, req, granted, taken>>
    PROVE  SerialInv'
<1> DEFINE plan == [seen.plan EXCEPT !.st = "failed"]
           new == [seen EXCEPT !.status = "failed", !.plan = plan]
<1>1. CanSetTask(seen.status, "failed")
  BY DEF CanSetTask, CanTransition, TaskTransitions
<1>2. [seen EXCEPT !.status = "failed", !.plan.st = "failed"] = new
  BY DEF Row, Plan
<1>3. new.status = "failed"
  BY DEF Row
<1> HIDE DEF new, plan
<1>4. Save(seen, new).status = "failed"
  BY <1>3 DEF Save
<1>5. /\ \/ task' = Save(seen, new)
         \/ task' = [Save(seen, new) EXCEPT !.plan = [seen.plan EXCEPT !.st = "failed"]]
      /\ Moves(w, "failed")
  BY <1>1, <1>2 DEF Fail
<1>6. task'.status = "failed"
  BY <1>4, <1>5 DEF Save
<1>7. wk'[w].pc = "failed" /\ \A v \in Workers : v # w => wk'[v] = wk[v]
  BY <1>5 DEF Moves, TypeOK, WorkerState
<1>8. taken = 1
  BY DEF SerialInv, WorkerSerial
<1>9. RowSerial'
  BY <1>6, <1>8 DEF RowSerial
<1>10. WorkerSerial(w)'
  BY <1>6, <1>7, <1>8 DEF WorkerSerial, Busy, Executing
<1> QED
  BY <1>7, <1>9, <1>10, WorkerKeepsSerial

\* Inside the runtime steps the task is RUNNING.
LEMMA RunningSerial ==
    ASSUME TypeOK, SubmissionsAccounted, SerialInv, NEW w \in Workers,
           \/ LoadStep(w) \/ \E target \in {"skipped", "running"} : React(w, target)
           \/ ReactFails(w) \/ ToolReturns(w) \/ ToolRaises(w) \/ HandleFailure(w)
           \/ Finish(w)
    PROVE  SerialInv' /\ task.status = "running"
<1>1. /\ Busy(w) /\ task.status = "running" /\ taken = 1 /\ WorkerSerial(w) /\ RowSerial
  BY DEF LoadStep, React, ReactFails, ToolReturns, ToolRaises, HandleFailure, Finish,
         SerialInv, WorkerSerial, Busy, Executing
<1>2. UNCHANGED <<spec, req, granted, taken>>
  BY DEF LoadStep, React, ReactFails, ToolReturns, ToolRaises, HandleFailure, Finish,
         apiVars, queueVars
<1>3. /\ task \in Row /\ wk[w].seen \in Row /\ wk[w].node \in GraphSteps
  BY DEF TypeOK, WorkerState
<1>4. ASSUME task'.status = "running", wk'[w].pc \in {"step", "react", "tool", "except", "finish"},
             wk'[w].pc \in {"react", "tool"} => wk'[w].seen.status = "running",
             \A v \in Workers : v # w => wk'[v] = wk[v]
      PROVE  SerialInv'
  <2>1. RowSerial'
    BY <1>1, <1>2, <1>4 DEF RowSerial
  <2>2. WorkerSerial(w)'
    BY <1>1, <1>2, <1>4 DEF WorkerSerial, Busy, Executing
  <2> QED
    BY <1>1, <1>2, <1>4, <2>1, <2>2, WorkerKeepsSerial
<1>5. CASE LoadStep(w)
  <2>1. PICK n \in Planned :
          wk' = [wk EXCEPT ![w].pc = "react", ![w].node = n, ![w].seen = task]
    BY <1>5 DEF LoadStep
  <2>2. wk'[w].pc = "react" /\ wk'[w].seen = task /\ \A v \in Workers : v # w => wk'[v] = wk[v]
    BY <2>1 DEF TypeOK, WorkerState
  <2>3. task' = task
    BY <1>5 DEF LoadStep
  <2> QED
    BY <1>1, <1>4, <2>2, <2>3
<1>6. ASSUME NEW target \in {"skipped", "running"}, React(w, target)
      PROVE  SerialInv'
  <2> DEFINE s == wk[w].node
             seen == wk[w].seen
             saved == [Save(seen, [seen EXCEPT !.cur = s]) EXCEPT !.plan = StepPlan(seen.plan)]
  <2>1. saved.status = "running"
    BY <1>1, <1>3, StepSaveStatus
  <2>2. task' = saved
    BY <1>6 DEF React
  <2> HIDE DEF saved
  <2>3. \/ Advance(w)
        \/ wk' = [wk EXCEPT ![w].pc = "tool", ![w].seen = saved]
    BY <1>6 DEF React, saved
  <2>4. \A v \in Workers : v # w => wk'[v] = wk[v]
    BY <2>3 DEF Advance, TypeOK
  <2>5. \/ wk'[w].pc \in {"step", "finish"}
        \/ wk'[w].pc = "tool" /\ wk'[w].seen = saved
    BY <2>3 DEF Advance, TypeOK, WorkerState
  <2> QED
    BY <1>4, <2>1, <2>2, <2>4, <2>5
<1>7. CASE ReactFails(w)
  BY <1>1, <1>2, <1>3, <1>7, FailSerial DEF ReactFails, WorkerSerial
<1>8. CASE ToolReturns(w)
  <2> DEFINE s == wk[w].node
             seen == wk[w].seen
             saved == [Save(seen, [seen EXCEPT !.cur = s]) EXCEPT !.plan = StepPlan(seen.plan)]
  <2>1. CASE Fail(w, seen)
    BY <1>1, <1>2, <1>3, <1>8, <2>1, FailSerial DEF ToolReturns, WorkerSerial
  <2>2. CASE ~Fail(w, seen)
    <3>1. saved.status = "running"
      BY <1>1, <1>3, StepSaveStatus
    <3>2. task' = saved
      BY <1>8, <2>2 DEF ToolReturns
    <3> HIDE DEF saved
    <3>3. \A v \in Workers : v # w => wk'[v] = wk[v]
      BY <1>8, <2>2 DEF ToolReturns, TypeOK
    <3>4. wk'[w].pc \in {"step", "finish"}
      <4> DEFINE to == IF s = "generate_outputs" THEN "finish" ELSE "step"
                 node == IF s = "generate_outputs" THEN s ELSE NextNode[s]
                 given == wk[w].outputs \/ s = "run_processing_pipeline"
      <4>1. wk' = [wk EXCEPT ![w].pc = to, ![w].node = node, ![w].seen = NoRow,
                             ![w].outputs = given]
        BY <1>8, <2>2 DEF ToolReturns
      <4> HIDE DEF to, node, given
      <4>2. wk'[w].pc = to
        BY <4>1 DEF TypeOK, WorkerState
      <4> QED
        BY <4>2 DEF to
    <3> QED
      BY <1>1, <1>4, <3>1, <3>2, <3>3, <3>4
  <2> QED
    BY <2>1, <2>2
<1>9. CASE ToolRaises(w)
  <2>1. task' = task /\ wk'[w].pc = "except" /\ \A v \in Workers : v # w => wk'[v] = wk[v]
    BY <1>9 DEF ToolRaises, Moves, TypeOK, WorkerState
  <2> QED
    BY <1>1, <1>4, <2>1
<1>10. CASE HandleFailure(w)
  BY <1>1, <1>2, <1>3, <1>10, FailSerial DEF HandleFailure
<1>11. CASE Finish(w)
  <2>1. CanSetTask(task.status, "success")
    BY <1>1 DEF CanSetTask, CanTransition, TaskTransitions
  <2>2. task'.status = "success" /\ Stops(w)
    BY <1>11, <2>1 DEF Finish
  <2>3. RowSerial'
    BY <1>1, <1>2, <2>2 DEF RowSerial
  <2> QED
    BY <1>1, <1>2, <2>2, <2>3, StopsSerial
<1> QED
  BY <1>1, <1>5, <1>6, <1>7, <1>8, <1>9, <1>10, <1>11

\* Leaving the graph changes nothing a failed task has not got.
LEMMA LeavingSerial ==
    ASSUME TypeOK, SubmissionsAccounted, SerialInv, NEW w \in Workers,
           \/ FinalizeFailed(w) \/ FinalizeApproval(w) \/ FinalizeClarification(w)
           \/ Crash(w)
    PROVE  SerialInv' /\ task'.status = task.status
<1>1. Busy(w) /\ WorkerSerial(w) /\ RowSerial /\ ~FinalizeApproval(w)
  BY DEF FinalizeFailed, FinalizeApproval, FinalizeClarification, Crash, Busy,
         SerialInv, WorkerSerial
<1>2. /\ UNCHANGED <<spec, req, granted, taken>> /\ Stops(w)
  BY <1>1 DEF FinalizeFailed, FinalizeClarification, Crash, apiVars, queueVars
<1>3. task'.status = task.status /\ (task.status = "failed" \/ task' = task)
  BY <1>1 DEF FinalizeFailed, FinalizeClarification, Crash, WorkerSerial, TypeOK, Row
<1>4. RowSerial'
  BY <1>1, <1>2, <1>3 DEF RowSerial
<1> QED
  BY <1>1, <1>2, <1>3, <1>4, StopsSerial

LEMMA NextSerial ==
    ASSUME OneAtATime, TypeOK, SubmissionsAccounted, SerialInv, [Next]_vars
    PROVE  /\ SerialInv'
           /\ task.status \in TerminalStatuses => task'.status = task.status
<1>1. ASSUME NEW r \in Requests, Request(r)
      PROVE  /\ SerialInv'
             /\ task.status \in TerminalStatuses => task'.status = task.status
  BY <1>1, RequestSerial
<1>2. CASE Send \/ SendLost \/ UNCHANGED vars
  <2>1. UNCHANGED <<task, spec, req, wk, granted, taken>>
    BY <1>2 DEF Send, SendLost, vars, apiVars
  <2> QED
    BY <2>1 DEF SerialInv, ReviewAlone, RowSerial, WorkerSerial, Busy, Executing
<1>3. ASSUME NEW w \in Workers, Take(w) \/ Work(w) \/ Crash(w)
      PROVE  /\ SerialInv'
             /\ task.status \in TerminalStatuses => task'.status = task.status
  <2>1. {"queued", "running"} \cap TerminalStatuses = {}
    BY DEF TerminalStatuses
  <2> QED
    BY <1>3, <2>1, TakeSerial, PlanningSerial, CheckStartSerial, StartSerial,
       RunningSerial, LeavingSerial
       DEF Work
<1> QED
  BY <1>1, <1>2, <1>3 DEF Next

\* One request at a time and no corrections: the row, the queue and the one
\* worker in the graph agree on how far the task is, with any number of
\* workers.
THEOREM LifeIsSerial ==
    ASSUME OneAtATime
    PROVE  Spec => []SerialInv
<1>1. TypeOK /\ SubmissionsAccounted /\ SerialInv /\ [Next]_vars => SerialInv'
  BY NextSerial
<1> QED
  BY <1>1, InitSerial, TypeCorrect, SubmissionsConserved, PTL DEF Spec

\* Then a task that succeeded, failed or was cancelled keeps that status.
THEOREM TerminalStatusesAreFinal ==
    ASSUME OneAtATime
    PROVE  Spec => TerminalIsFinal
<1>1. TypeOK /\ SubmissionsAccounted /\ SerialInv /\ [Next]_vars
        => [task.status \in TerminalStatuses => task'.status = task.status]_vars
  BY NextSerial
<1> QED
  BY <1>1, LifeIsSerial, TypeCorrect, SubmissionsConserved, PTL DEF Spec, TerminalIsFinal

\* And the runtime starts on a plan that is approved at that moment.
THEOREM RunsStartApproved ==
    ASSUME OneAtATime
    PROVE  Spec => StartIsApproved
<1>1. ASSUME TypeOK, SubmissionsAccounted, SerialInv, [Next]_vars,
             task.status # "running", task'.status = "running"
      PROVE  task'.plan.op = "approved"
  BY <1>1, OnlyStartStarts, StartSerial
<1>2. TypeOK /\ SubmissionsAccounted /\ SerialInv /\ [Next]_vars
        => [task.status # "running" /\ task'.status = "running" =>
              task'.plan.op = "approved"]_vars
  BY <1>1
<1> QED
  BY <1>2, LifeIsSerial, TypeCorrect, SubmissionsConserved, PTL DEF Spec, StartIsApproved
=============================================================================
