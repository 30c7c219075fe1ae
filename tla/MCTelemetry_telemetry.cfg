CONSTANTS
  None = None
  MachineStates = {1, 2}
  PumpStates = {"on", "off"}
  DeltaTs <- AllDeltaTs
  Settle = 2
  Hour = 2
  Threshold = 2
  MaxLen = 2
  MaxChanges = 3
SPECIFICATION MCSpec
INVARIANT IssueMatchesData
PROPERTIES RestrictedOnlyAfterSettling RateIsTheLastHour IssueClears
CHECK_DEADLOCK FALSE
