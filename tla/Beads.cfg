CONSTANTS
  b1 = b1
  b2 = b2
  Beads = {b1, b2}
  Epics = {b2}
  Rank <- MCRank
  Sessions = {s1, s2}
  MaxOps = 5
  MaxDepth = 3
SPECIFICATION Spec
INVARIANT ClaimExclusive
INVARIANT NotOfferedTwice
INVARIANT AuditTruth
CHECK_DEADLOCK FALSE
