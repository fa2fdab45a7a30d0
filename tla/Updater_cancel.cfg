\* Updater_cancel
CONSTANTS
  Runs = {1, 2}
  Keys = {1, 2}
  Versions = {1, 2}
  Cancels = {1}
  MaxCrashes = 1
  KeepRuns = 1
  SaveFaults = FALSE
SPECIFICATION Spec
INVARIANTS TypeOK EveryRunIsOwned OutcomeIsHonest VersionRestored
PROPERTY ImplementsHostUpdate
CHECK_DEADLOCK FALSE
