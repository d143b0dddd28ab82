SPECIFICATION Spec
CONSTANTS
  j1 = j1
  j2 = j2
  a1 = a1
  a2 = a2
  a3 = a3
  h1 = h1
  h2 = h2
  NoJob = NoJob
  NoAttempt = NoAttempt
  Jobs = {j1, j2}
  Attempts = {a1, a2, a3}
  Harnesses = {h1, h2}
  HarnessOf <- OneHarness
  HarnessLimit <- OneSlotEach
  DefaultRetryId <- RetryNames
  GlobalLimit = 1
  MaxCreated = 4
  MaxSessions = 1
  LocalJobs = {}
  Scoped = TRUE
  KillMayFail = FALSE
  Zombies = FALSE
  Requests = {}
  MaxControl = 0
  FreshRetryIds = FALSE
  MaxCrashes = 0
  ExitStatuses = {"0"}
  Timeouts = FALSE
  PidReuse = FALSE
PROPERTY AttemptsKeepTheirJob
