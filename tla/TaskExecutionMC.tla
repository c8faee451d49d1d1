-------------------------- MODULE TaskExecutionMC --------------------------
(***************************************************************************)
(* Small instances of TaskExecution for TLC.                               *)
(***************************************************************************)
EXTENDS TaskExecution, TLC

CONSTANTS r1, r2, w1, w2

OneRequest == {r1}
TwoRequests == {r1, r2}
OneWorker == {w1}
TwoWorkers == {w1, w2}

\* Three of the five steps: normalize_aoi and recommend_dataset behave as
\* search_candidates does, and are here the steps the plan does not list.
SomeSteps == {"search_candidates", "run_processing_pipeline", "generate_outputs"}
LastSteps == {"run_processing_pipeline", "generate_outputs"}

\* Requests are interchangeable, and so are workers.
Symmetry == Permutations(TwoRequests) \cup Permutations(TwoWorkers)
=============================================================================
