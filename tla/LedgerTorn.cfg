CONSTANTS
  Sessions = {s1, s2}
  NoSession = NoSession
  MaxMessages = 4
  MinCompact = 1
  TornWrites = TRUE
  SwitchMidTurn = TRUE
SPECIFICATION Spec
SYMMETRY SessionSymmetry
INVARIANT LoadedIsPrefix
 
CHECK_DEADLOCK FALSE
