CONSTANTS
  t1 = t1
  t2 = t2
  Tasks = {t1}
  Ops <- MCReleaseOps
  StateInputs <- MCStates
  SetpointInputs <- MCSetpointInputs
  InitMachines <- MCInitMachines
  MaxCalls = 2
SPECIFICATION Spec

INVARIANT ReleaseClears
CHECK_DEADLOCK FALSE
