SPECIFICATION Spec
CONSTANTS
  j1 = j1
  j2 = j2
  a1 = a1
  a2 = a2
  a3 = a3
  h1 = h1
  h2 = h2
  NoJob = NoJob
  NoAttempt = NoAttempt
  Jobs = {j1}
  Attempts = {a1}
  Harnesses = {h1, h2}
  HarnessOf <- OneJob
  HarnessLimit <- OneSlotEach
  DefaultRetryId <- DefaultNames
  GlobalLimit = 1
  MaxCreated = 1
  MaxSessions = 1
  LocalJobs = {}
  Scoped = TRUE
  KillMayFail = FALSE
  Zombies = FALSE
  Requests = {"cancel"}
  MaxControl = 1
  FreshRetryIds = TRUE
  MaxCrashes = 0
  ExitStatuses = {"0"}
  Timeouts = FALSE
  PidReuse = FALSE
PROPERTY CancelNeverReclassified
