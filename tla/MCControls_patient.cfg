CONSTANTS
  t1 = t1
  Tasks = {t1}
  Ops <- MCOps
  Used = {"climate", "water_heater", "number", "select", "service", "switch", "button"}
  StateInputs <- MCStates
  SetpointInputs <- NoInputs
  InitMachines <- MCMachines
  MaxCalls = 2
  Temperatures <- MCTemperatures
SPECIFICATION PatientControlsSpec
INVARIANT OnlyLegalSetpoints
PROPERTIES HalvesPreserved CallsPreserved TargetFollowsTheMode
CHECK_DEADLOCK FALSE
