CONSTANTS
  Main = Main
  k1 = k1
  shell = shell
  write = write
  Nobody = Nobody
  Delegates = {d1, d2}
  CallIds = {k1, k2, k3}
  Tools = {shell, write}
  ToolOf <- MCToolOf
  IterationLimit = FALSE
  MaxTurns = 2
  MaxRounds = 2
  MaxContinues = 1
SPECIFICATION AttentiveSpec
INVARIANT WaitersRegistered
INVARIANT ApprovalsAreTheUsers
INVARIANT TurnLeavesNothingBehind
PROPERTY NoLLMCallAfterStop
PROPERTY StopEndsTurn
CHECK_DEADLOCK FALSE
