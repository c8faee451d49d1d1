\* Plans of one to four nodes: given, or built from a request.
SPECIFICATION Spec
CONSTANTS
  RefOf <- Refs
  EditedPlans <- PlanFamilies
  Requests <- AllRequests
CHECK_DEADLOCK FALSE
INVARIANT CyclesAreFound
INVARIANT SortRespectsDependencies
INVARIANT NeverStuck
INVARIANT DeclaredWiringIsRead
 
INVARIANT WiredNodesFindSources
INVARIANT PreflightHolds
PROPERTY RunEnds
