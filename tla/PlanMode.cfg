CONSTANTS
  Sessions = {s1, s2}
  StartMode = "auto"
  MaxCalls = 2
  MaxVersion = 1
SPECIFICATION Spec
SYMMETRY SessionSymmetry
INVARIANT PlanTurnWritesNothing
INVARIANT PlanStateFollowsStore
INVARIANT AutoWasChosen
