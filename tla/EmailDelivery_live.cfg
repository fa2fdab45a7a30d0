SPECIFICATION FairSpec
CONSTANTS
  Recipients = {1}
  Extras = {x1, x2}
  Workers = {w1}
  MaxTries = 2
  MaxRows = 2
  Batch = 2
  MaxCrashes = 2
  MaxFaults = 0
PROPERTIES QueuedIsPickedUp CampaignSettles
CHECK_DEADLOCK FALSE
