SPECIFICATION MCSpec
CONSTANTS
  Posts = {p1}
  Applicants = {a, b}
  Keys = {k, l}
  SystemStages = {"applied", "offered"}
  Applied = "applied"
  Outcomes = {"offered"}
  Customs = {x}
  Uploads = {u1}
  MaxEvents = 3
  MaxVersions = 2
  Documents = {a, b}
  Contents = {k, l}
  Requests = {q1}
  MaxDocumentVersions = 2
  Studies = {s1}
  MaxSources = 2
  Turns = {t1, t2, t3}
  Conversations = {c1, c2, c3}
  New = New
  Servers = {"one", "two"}
  Releases <- MCReleases
  NoServer = NoServer
  Contexts = {a, b, c}
  PostingOf <- MCPostingOf
  Tasks = {k, l}
  MaxThreads = 3
  NoTask = NoTask
  Items = {a, b}
  Calls <- MCCalls
  MaxClicks = 3
  NoItem = NoItem
INVARIANTS ApplicationsSound StoreSound ConversationSound SchemaSound ViewSound PagesSound
PROPERTIES NothingReopens
CONSTRAINT FewContexts
SYMMETRY MCSymmetry
CHECK_DEADLOCK FALSE
