\* Two requests at a time, six rows of messages: three with their answers, or
\* more that are given up.
SPECIFICATION Spec
CONSTANTS
  r1 = r1
  r2 = r2
  Requests <- TwoRequests
  MaxMessages = 6
  MaxTasks = 3
SYMMETRY Symmetry
CHECK_DEADLOCK FALSE
INVARIANT ConfirmsWhatWasAsked
INVARIANT OneTaskPerRequest
INVARIANT UnderstandingNamesItsRevision
INVARIANT SnapshotIsCurrent
