CONSTANTS
  Sessions = {s1, s2}
  NoSession = NoSession
  MaxMessages = 5
  MinCompact = 1
  TornWrites = FALSE
  SwitchMidTurn = FALSE
SPECIFICATION Spec
INVARIANT StoreIsLedger
INVARIANT ReplayAgrees
PROPERTY ImplementsTranscriptLog
CHECK_DEADLOCK FALSE
