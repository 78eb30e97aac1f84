CONSTANTS
  j1 = j1
  j2 = j2
  o1 = o1
  o2 = o2
  Jobs = {j1, j2}
  Owners = {o1, o2}
  None = None
  Kinds <- MCKinds
  RetryClass <- MCRetryClass
  MaxAttempts <- MCMaxAttempts
  Target <- MCTarget
  RetryDelay <- MCRetryDelay
  LeaseTicks = 2
SPECIFICATION Spec
SYMMETRY Symmetry
INVARIANTS
  WithinBudget
  CancellationWins
  OwnedIffHeld
  AuditTrail
  LogCountsRow
PROPERTIES
  BoundOnce
  LifecycleSpec
