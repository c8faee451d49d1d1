----------------------------- MODULE TaskStatus -----------------------------
(***************************************************************************)
(* The status vocabulary of a task and of its steps, and the two           *)
(* transition tables every unforced status change is checked against       *)
(* (packages/domain/services/task_state.py).                               *)
(***************************************************************************)
EXTENDS Naturals

TaskStatuses ==
    {"draft", "awaiting_approval", "approved", "cancelled", "queued",
     "running", "success", "failed", "waiting_clarification"}

\* "absent" is a step for which no task_steps row exists yet.
StepStatuses ==
    {"absent", "pending", "running", "success", "failed", "skipped"}

TaskTransitions ==
    [draft                 |-> {"queued", "waiting_clarification",
                                "awaiting_approval"},
     waiting_clarification |-> {"queued", "failed", "cancelled",
                                "awaiting_approval", "running"},
     awaiting_approval     |-> {"approved", "cancelled", "failed",
                                "waiting_clarification"},
     approved              |-> {"queued", "cancelled", "failed"},
     queued                |-> {"running", "failed", "cancelled",
                                "waiting_clarification", "awaiting_approval"},
     running               |-> {"success", "failed", "cancelled",
                                "waiting_clarification"},
     success               |-> {},
     failed                |-> {},
     cancelled             |-> {}]

MutantStepTransitions ==
    [absent  |-> {"running", "failed", "skipped"},
     pending |-> {"running", "failed", "skipped"},
     running |-> {"success", "failed", "skipped"},
     success |-> {},
     failed  |-> {"running"},
     skipped |-> {}]

\* set_step_status inserts a missing row as "pending" before it looks the
\* transition up, so "absent" moves as "pending" does.
StepTransitions ==
    [absent  |-> {"running", "failed", "skipped"},
     pending |-> {"running", "failed", "skipped"},
     running |-> {"success", "failed", "skipped"},
     success |-> {},
     failed  |-> {},
     skipped |-> {}]

CanTransition(table, current, target) ==
    current = target \/ target \in table[current]

\* ensure_task_status_transition: an unforced set_task_status raises otherwise.
CanSetTask(current, target) == CanTransition(TaskTransitions, current, target)

\* ensure_step_status_transition
CanSetStep(current, target) == CanTransition(StepTransitions, current, target)

TerminalStatuses == {"success", "failed", "cancelled"}

TerminalStepStatuses == {"success", "failed", "skipped"}
=============================================================================
