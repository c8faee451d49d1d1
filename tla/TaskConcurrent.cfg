\* Two requests and two workers in any order.
SPECIFICATION Spec
CONSTANTS
  r1 = r1
  r2 = r2
  w1 = w1
  w2 = w2
  Requests <- TwoRequests
  Workers <- TwoWorkers
  Planned <- LastSteps
  Births = {"approval", "blocked", "rerun"}
  Kinds = {"approve", "reject", "correct"}
  MaxVersion = 2
  MaxRevision = 2
  MaxGrants = 2
  MaxFaults = 1
SYMMETRY Symmetry
CHECK_DEADLOCK FALSE
INVARIANT TypeOK
INVARIANT QueuedIsServed
INVARIANT RunningIsAttended
INVARIANT SuccessHasOutputs
INVARIANT OutputsFromPipeline
PROPERTY StepsNeverReopen
PROPERTY StartIsGated
