CONSTANTS
  t1 = t1
  t2 = t2
  Tasks = {t1, t2}
  Ops <- MCBusOps
  StateInputs <- MCStates
  SetpointInputs <- MCSetpointInputs
  InitMachines <- MCInitMachines
  MaxCalls = 2
SPECIFICATION FairSpec
INVARIANTS TypeOK OneMasterButAside EnablesHeld SuccessMeansInEffect EveryTimerHasHandle
PROPERTIES ImplementsSerialBus EveryCallReturns DataCatchesUp ComesToRest
CHECK_DEADLOCK FALSE
