SPECIFICATION MCDeliverySpec
CONSTANTS
  d1 = d1
  d2 = d2
  DeliverableAttempts = {d1, d2}
  Files = {1}
  Verdicts = {"pending", "green"}
  Opinions = {"none"}
  MergeStates = {"CLEAN", "BEHIND"}
  MaxDeliveries = 2
  MaxCandidates = 2
  MaxPulls = 2
  MaxBase = 1
  Disturbances = {"fault", "edit", "crash"}
  MaxDisturbances = 1
  HarnessCommits = FALSE
  LateEdits = FALSE
  NoRecord = NoRecord
  Scenarios = {"pulls", "drift", "attempts"}
INVARIANTS
  DeliveryTypeOK
  OneOpenPullPerAttempt
  MergedIsTrue
PROPERTIES
  PublishesOnlyApproved
  MergeReadyIsFresh
CHECK_DEADLOCK FALSE
