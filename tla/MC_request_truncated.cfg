SPECIFICATION WorkbenchSpec
CONSTANTS
  op1 = op1
  op2 = op2
  cr1 = cr1
  cr2 = cr2
  g1 = g1
  cloud = cloud
  Parts = {"request"}
  Contexts = {"ci"}
  Apps = {"x"}
  NoApp = NoApp
  Reviewers = {"r"}
  MaxRows = 3
  MaxReviews = 1
  Lockers = {"k1", "k2"}
  Paths <- LockPaths
  Inside <- LockInside
  Patterns <- LockPatterns
  Matches <- LockMatches
  MaxLocks = 2
  Emitters = {"e1", "e2"}
  MaxEmitted = 2
  MaxPosts = 2
  ReadLimit = 2
  StreamClients = {"s1", "s2"}
  MaxHistory = 2
  MaxPublished = 3
  MaxRestarts = 1
  LaneModes = {q1}
  LaneModels = {m1, m2}
  Alike = {}
  ContextSizes = {1, 2}
  Absent = Absent
  Malformed = Malformed
  Payloads = {"p1", "p2"}
  Texts = {"t1", "t2"}
  NoPayload = NoPayload
  NoJob = NoJob
  CrClients = {cr1, cr2}
  MaxRequests = 1
  GivenFields <- Fields
  NoRequest = NoRequest
  Torn = Torn
  Changes = {"ch1"}
  AcClients = {"p1"}
  NoChange = NoChange
  Agents = {ag1}
  Operators = {op1, op2}
  OtherBlocks = {"BLOCKED_HUMAN_DECISION"}
  Heads = {"h"}
  NoHead = NoHead
  Gates = {"dirty_worktree", "scope_check", "typecheck"}
  Profiles <- StrictOnly
  CoreGates = {"dirty_worktree", "scope_check"}
  ProfileOf <- AllStrict
  ToolOf <- AllOpencode
  NoAgent = NoAgent
  Callers = {"g1"}
  ProfileNames = {g1, cloud}
  CloudProfile = cloud
  DataClasses = {"k1", "k2"}
  NoProfile = NoProfile
  NoClass = NoClass
  ManagedIds = {hs1}
  Threads = {"t1", "t2"}
  Pids = {11, 12}
  Scopes = FALSE
  MaxStarts = 3
  NoSession = NoSession
  Askers = {"a1", "a2"}
  MonthlyBudget = 2
  Costs = {1, 2}
  LastMonth = 2
  Kept = 1
  MaxOutlay = 4
  Converters = {"v1", "v2"}
  InputFiles <- ResultFiles
  MaxPieces = 4
  NoReport = NoReport
  Refused = Refused
  Docs = {"r1", "r2", "t"}
  LinkWorkers = {"w1", "w2"}
  Libraries <- SmallLibraries
  NoFrontmatter = NoFrontmatter
INVARIANT VerifiedHasItsEvidence
CHECK_DEADLOCK FALSE
