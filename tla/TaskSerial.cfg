\* One request at a time, no corrections, one worker.
SPECIFICATION Spec
CONSTANTS
  r1 = r1
  r2 = r2
  w1 = w1
  w2 = w2
  Requests <- OneRequest
  Workers <- OneWorker
  Planned <- SomeSteps
  Births = {"approval", "clarify", "blocked", "rerun"}
  Kinds = {"patch", "approve", "reject"}
  MaxVersion = 3
  MaxRevision = 3
  MaxGrants = 2
  MaxFaults = 1
CHECK_DEADLOCK FALSE
INVARIANT SuccessArtifactsComplete
PROPERTY TerminalIsFinal
PROPERTY StartIsApproved
