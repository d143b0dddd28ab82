SPECIFICATION Spec
CONSTANTS
  j1 = j1
  j2 = j2
  a1 = a1
  a2 = a2
  a3 = a3
  h1 = h1
  h2 = h2
  NoJob = NoJob
  NoAttempt = NoAttempt
  Jobs = {j1, j2}
  Attempts = {a1, a2}
  Harnesses = {h1, h2}
  HarnessOf <- OneHarness
  HarnessLimit <- OneSlotEach
  DefaultRetryId <- DefaultNames
  GlobalLimit = 2
  MaxCreated = 3
  MaxSessions = 2
  LocalJobs = {j1, j2}
  Scoped = TRUE
  KillMayFail = FALSE
  Zombies = FALSE
  Requests = {}
  MaxControl = 0
  FreshRetryIds = TRUE
  MaxCrashes = 1
  ExitStatuses = {"0", "1"}
  Timeouts = FALSE
  PidReuse = FALSE
SYMMETRY JobSymmetry
INVARIANTS HarnessCapacity NeverRequeuedAfterStart CompletedMeansExitZero
PROPERTY SlotsAreKept
