CONSTANTS
  MaxStdin = 2
  MaxChat = 2
  MaxSends = 3
  MaxPrompts = 2
  MaxStops = 1
  MaxNotes = 1
SPECIFICATION FairSpec
INVARIANT AcceptedInOrder
PROPERTY PromptReleased
PROPERTY ServerStops
CHECK_DEADLOCK FALSE
