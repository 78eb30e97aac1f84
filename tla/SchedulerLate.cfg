CONSTANTS
  j1 = j1
  j2 = j2
  p1 = p1
  p2 = p2
  p3 = p3
  Jobs = {j1, j2}
  Owners = {p1}
  None = None
  Kinds <- OneKind
  RetryClass <- MCRetryClass
  MaxAttempts <- MCMaxAttempts
  Target <- MCTarget
  RetryDelay <- MCRetryDelay
  LeaseTicks = 1
  Concurrency = 2
  Handled <- MCHandled
  Punctual = {}
  MayCrash = {}
  MayStop = {}
SPECIFICATION SchedulerSpec
INVARIANTS
  BoundedConcurrency
