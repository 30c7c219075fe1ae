CONSTANTS
  t1 = t1
  t2 = t2
  Tasks = {t1}
  Ops <- MCLegionellaOps
  StateInputs <- MCStates
  SetpointInputs <- MCSetpointInputs
  InitMachines <- MCInitMachines
  MaxCalls = 2
SPECIFICATION Spec

PROPERTY LegionellaHeld
CHECK_DEADLOCK FALSE
