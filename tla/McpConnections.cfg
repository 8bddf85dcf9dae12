CONSTANTS
  Servers = {s1, s2}
  Jira = jira
  Tools = {t1}
  Listed = {s1}
  MaxClients = 5
  MaxOps = 3
SPECIFICATION Spec
INVARIANT NothingDead
INVARIANT Settled
INVARIANT ClientsOwned
INVARIANT ToolsFresh
CHECK_DEADLOCK FALSE
