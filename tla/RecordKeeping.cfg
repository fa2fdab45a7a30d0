SPECIFICATION Spec
CONSTANTS
  Users = {1, 2}
  Addresses = {"a", "b", "c", "d"}
  Initial <- FirstAddresses
  Requests = {1, 2}
  Rows = {1, 2}
  Tokens = {1, 2}
  Runs = {r1}
  NoRun = none
  Timers = {t1}
  Clients = {c1}
  MaxFailures = 3
  Values = {"due", "overdue", "m", "n", "a", "b", "on", "off"}
  First <- FirstRule
  Inputs <- SomeInputs
  Drafts <- SomeDrafts
  Edits = {1, 2}
  MaxVersion = 3
  RuleConfigs = {"a", "b"}
  Worker = "job"
  Retries = {"retry"}
  LastHour = 1
INVARIANTS OutcomeIsTheHosts OutcomeAudited RuleIsItsNewestVersion OneMailPerKey
PROPERTIES OldAddressTold NewestTokenOnly ResetCancels MirrorSettles
CHECK_DEADLOCK FALSE
