\* Updater_live
CONSTANTS
  Runs = {1, 2}
  Keys = {1}
  Versions = {1, 2}
  Cancels = {}
  MaxCrashes = 2
  KeepRuns = 2
  SaveFaults = FALSE
SPECIFICATION FairSpec
PROPERTIES InstallationsEnd InterruptedRunsSettle AgentReturns
CHECK_DEADLOCK FALSE
