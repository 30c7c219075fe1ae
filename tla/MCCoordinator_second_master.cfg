CONSTANTS
  t1 = t1
  t2 = t2
  Tasks = {t1}
  Ops <- MCSetStateOps
  StateInputs <- MCStates
  SetpointInputs <- MCSetpointInputs
  InitMachines <- MCInitMachines
  MaxCalls = 1
SPECIFICATION Spec

INVARIANT SingleMaster
CHECK_DEADLOCK FALSE
