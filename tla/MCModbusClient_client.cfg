CONSTANTS
  Callers = {c1, c2}
  Calls = {n1, n2}
  Addresses = {a1}
  Values = {0, 1}
  RefusedValues = {1}
  MODBUS_RETRIES = 2
  ID_MODULUS = 3
  Nothing = Nothing
SPECIFICATION Spec
INVARIANTS ReadIsCurrent WrittenAtMostOnce AcknowledgedMeansApplied CountersAddUp
PROPERTY EveryCallEnds
CHECK_DEADLOCK FALSE
