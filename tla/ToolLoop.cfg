CONSTANTS
  t1 = t1
  t2 = t2
  ask = ask
  Calls = {t1, t2, ask}
  Interactive = {ask}
  Sig <- MCSig
  MaxIterations = 1
  MaxContinues = 1
  CompactMin = 4
  MaxResponse = 2
  MaxTurns = 2
SPECIFICATION AttentiveSpec
INVARIANT RequestWellFormed
INVARIANT OneResultPerCall
INVARIANT ResultTrue
INVARIANT OrphansExplained
PROPERTY NoRepeat
PROPERTY TurnEnds
CHECK_DEADLOCK FALSE
