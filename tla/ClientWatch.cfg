\* A tab that follows one of two tasks, with one request of the user.
SPECIFICATION FairSpec
CONSTANTS
  t1 = t1
  t2 = t2
  NoTask = NoTask
  Tasks <- TwoTasks
  Latest = t1
  MaxOpen = 2
  MaxEvents = 2
  MaxAsks = 2
  MaxFaults = 1
CHECK_DEADLOCK FALSE
PROPERTY ShownAdvances
PROPERTY WatcherCatchesUp
PROPERTY PollingCatchesUp
