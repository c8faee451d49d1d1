\* Two requests of a session, local files only and no legacy fallback, as the
\* settings have it by default.
SPECIFICATION Spec
CONSTANTS
  LocalFilesOnly = TRUE
  LegacyFallback = FALSE
  Words <- SomeWords
  Answers <- SomeAnswers
  Remembered <- SomeHistories
  MaxTurns = 2
CHECK_DEADLOCK FALSE
INVARIANT BornAsModelled
INVARIANT AreaIsResolved
PROPERTY ActsOnEvidence
