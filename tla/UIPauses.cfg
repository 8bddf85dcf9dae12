CONSTANTS
  Main = Main
  k1 = k1
  shell = shell
  write = write
  Nobody = Nobody
  Delegates = {d1}
  CallIds = {k1, k2, k3}
  Tools = {shell, write}
  ToolOf <- MCToolOf
  IterationLimit = TRUE
  MaxTurns = 2
  MaxRounds = 2
  MaxContinues = 1
SPECIFICATION AttentiveSpec
PROPERTY NoPromptHangs
CHECK_DEADLOCK FALSE
