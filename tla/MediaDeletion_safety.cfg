SPECIFICATION Spec
CONSTANTS
  Attachments = {a1, a2}
  Unwanted = {a1}
  Operations = {o1, o2}
  Quota = 1
  MaxTries = 2
  MaxRetries = 1
  MaxReconciles = 1
  MaxCrashes = 1
  MaxFaults = 1
INVARIANTS ServedHasFile CompletedIsGone WithdrawnIsOpen UploadsFit
CHECK_DEADLOCK FALSE
