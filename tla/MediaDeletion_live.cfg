SPECIFICATION FairSpec
CONSTANTS
  Attachments = {a1}
  Unwanted = {a1}
  Operations = {o1}
  Quota = 1
  MaxTries = 2
  MaxRetries = 2
  MaxReconciles = 1
  MaxCrashes = 1
  MaxFaults = 2
PROPERTIES DeletionsEnd
CHECK_DEADLOCK FALSE
