\* A rerun of a task with an uploaded area.
SPECIFICATION Spec
CONSTANTS
  LocalFilesOnly = TRUE
  LegacyFallback = FALSE
  Words <- SomeWords
  Answers <- SomeAnswers
  Remembered <- SomeHistories
  MaxTurns = 2
CHECK_DEADLOCK FALSE
INVARIANT InheritedAreaIsUsed
