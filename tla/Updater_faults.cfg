\* Updater_faults
CONSTANTS
  Runs = {1, 2}
  Keys = {1, 2}
  Versions = {1, 2}
  Cancels = {}
  MaxCrashes = 2
  KeepRuns = 1
  SaveFaults = TRUE
SPECIFICATION Spec
INVARIANTS HostLock RecordedFirst
PROPERTIES FollowsTransitions ImplementsHostUpdate
CHECK_DEADLOCK FALSE
