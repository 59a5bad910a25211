SPECIFICATION Spec
CONSTANTS
  Configs = {c1, c2}
  FirstConfig = c1
  RuleSignals = {"routing"}
  MaxEvents = 2
  MaxTuns = 2
CHECK_DEADLOCK FALSE
INVARIANT
  TunClosedAfterStop
