\* One request and one worker, nothing lost and no crash, under fairness.
SPECIFICATION FairSpec
CONSTANTS
  r1 = r1
  r2 = r2
  w1 = w1
  w2 = w2
  Requests <- OneRequest
  Workers <- OneWorker
  Planned <- SomeSteps
  Births = {"approval", "rerun"}
  Kinds = {"patch", "approve", "reject", "correct"}
  MaxVersion = 2
  MaxRevision = 3
  MaxGrants = 3
  MaxFaults = 0
CHECK_DEADLOCK FALSE
PROPERTY RunsEnd
PROPERTY ApprovedIsDecided
