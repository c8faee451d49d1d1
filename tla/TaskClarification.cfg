\* A rerun whose plan turns out to need clarification.
SPECIFICATION Spec
CONSTANTS
  r1 = r1
  r2 = r2
  w1 = w1
  w2 = w2
  Requests <- OneRequest
  Workers <- OneWorker
  Planned <- SomeSteps
  Births = {"rerun"}
  Kinds = {"approve"}
  MaxVersion = 3
  MaxRevision = 3
  MaxGrants = 2
  MaxFaults = 1
CHECK_DEADLOCK FALSE
PROPERTY ClarificationPersisted
