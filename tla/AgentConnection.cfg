CONSTANTS
  MaxRestarts = 2
  MaxAgents = 4
  MaxManual = 1
  MaxMessages = 1
SPECIFICATION AgentFairSpec
INVARIANT StartsBudgeted
PROPERTY LiveAgentKept
PROPERTY Recovers
CHECK_DEADLOCK FALSE
