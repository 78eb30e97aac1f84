SPECIFICATION MCSpec
CONSTANTS
  Jobs = {j1}
  Owners = {p1, p2, p3}
  None = None
  Kinds <- InvokeKinds
  Handled <- InvokeKinds
  RetryClass <- MCRetryClass
  MaxAttempts <- MCMaxAttempts
  Target <- MCTarget
  RetryDelay <- MCRetryDelay
  LeaseTicks = 2
  Concurrency = 1
  Punctual = {}
  MayCrash = {p1, p2}
  MayStop = {p1}
  Tools = {"search"}
  ResearchTools = {"search"}
  Foreign = "foreign"
  MaxAgentEvents = 4
  Postings = {"p", "q", "r"}
  MaxScore = 2
  MaxListed = 2
  MaxShown = 2
  MaxBatches = 2
  Sources = {"s1"}
  Urls = {"one", "other", "forbidden"}
  Forbidden = {"forbidden"}
  Addresses = {"near", "far", "inner"}
  Unsafe = {"inner"}
  MaxRedirects = 2
  MaxBytes = 2
  Names = {"word/document.xml", "other.xml", "../up"}
  UnsafeNames = {"../up"}
  MaxFile = 2
  MaxPages = 1
  MaxEntries = 2
  MaxUnpacked = 3
  Sizes <- MCSizes
  MaxSource = 2
  MaxTotal = 3
  MaxCulture = 2
  MaxInputs = 2
  Inputs <- MCInputs
  Cited <- MCCited
  MaxHistory = 1
  MaxVersions = 2
  MaxMessages = 2
  Printed <- MCPrinted
INVARIANTS RunAgrees NoStrayOutcome AgentCallsSound IngestionSound
PROPERTIES RunEnds
CHECK_DEADLOCK FALSE
