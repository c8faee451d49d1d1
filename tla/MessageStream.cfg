\* One streamed message: two retries, as the settings have it, and two deltas.
SPECIFICATION FairSpec
CONSTANTS
  MaxRetries = 2
  MaxPieces = 2
CHECK_DEADLOCK FALSE
INVARIANT ResultDelivered
INVARIANT ShowsTheReply
PROPERTY StreamEnds
