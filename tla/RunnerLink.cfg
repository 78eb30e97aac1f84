SPECIFICATION FairSpec
CONSTANTS
  Runs = {r1}
  Codes = {c1}
  Results <- MCResults
  MaxSockets = 4
  MaxStarts = 2
INVARIANTS RunsFaithful RevokedIsOut
PROPERTIES RunSettles
CHECK_DEADLOCK FALSE
