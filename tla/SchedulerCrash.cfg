CONSTANTS
  j1 = j1
  j2 = j2
  p1 = p1
  p2 = p2
  p3 = p3
  Jobs = {j1}
  Owners = {p1, p2, p3}
  None = None
  Kinds <- AllKinds
  RetryClass <- MCRetryClass
  MaxAttempts <- MCMaxAttempts
  Target <- MCTarget
  RetryDelay <- MCRetryDelay
  LeaseTicks = 1
  Concurrency = 1
  Handled <- MCHandled
  Punctual = {}
  MayCrash = {p1}
  MayStop = {p2}
SPECIFICATION SchedulerSpec
INVARIANTS
  ExternalOnce
  SuccessEarned
  NoLostWakeup
PROPERTIES
  OnlyHolderEnds
