SPECIFICATION FairSpec
CONSTANTS
  Configs = {c1, c2}
  FirstConfig = c1
  RuleSignals = {"routing"}
  MaxEvents = 3
  MaxTuns = 1
CHECK_DEADLOCK FALSE
PROPERTY
  SwitchLands
