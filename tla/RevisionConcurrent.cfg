\* Three requests that load and correct a task older than revisions.
SPECIFICATION FairSpec
CONSTANTS
  r1 = r1
  r2 = r2
  r3 = r3
  Requests <- ThreeRequests
  MaxRevision = 3
CHECK_DEADLOCK FALSE
INVARIANT TypeOK
INVARIANT OneActive
INVARIANT CorrectionsCounted
PROPERTY ReadersAgree
PROPERTY Linear
PROPERTY Implements
PROPERTY RequestsEnd
