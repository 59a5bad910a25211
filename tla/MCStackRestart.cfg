SPECIFICATION FairSpec
CONSTANTS
  Configs = {c1, c2}
  FirstConfig = c1
  RuleSignals = {"routing", "certificate"}
  MaxEvents = 3
  MaxTuns = 3
CHECK_DEADLOCK FALSE
INVARIANTS
  NoStaleFlow
  StaysStopped
PROPERTIES
  ReloadedSettingsLand
  TunServed
