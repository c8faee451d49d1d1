\* An approval and a rejection of the same task in flight together.
SPECIFICATION Spec
CONSTANTS
  r1 = r1
  r2 = r2
  w1 = w1
  w2 = w2
  Requests <- TwoRequests
  Workers <- OneWorker
  Planned <- SomeSteps
  Births = {"approval"}
  Kinds = {"approve", "reject"}
  MaxVersion = 3
  MaxRevision = 3
  MaxGrants = 2
  MaxFaults = 1
CHECK_DEADLOCK FALSE
PROPERTY TerminalIsFinal
