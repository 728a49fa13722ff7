SPECIFICATION FairSpec
CONSTANTS
  MaxPrompt = 5
  MaxChunk = 6
  MaxOutput = 3
INVARIANTS NoRejection CompletedTogether CachesAgree
PROPERTIES ImplementsTokenStream ReservationsComeBack
CHECK_DEADLOCK FALSE
