CONSTANTS
  Silent = Silent
  Temperatures = {0, 1, 2, 3}
  emergency_below = 1
  start_below = 2
  stop_at = 3
  minimum_rest = 2
  maximum_run = 3
  ScanTicks = 2
  Brakes = {TRUE, FALSE}
SPECIFICATION Spec
INVARIANT RunsAreBounded
PROPERTIES RestIsKept StopsAtTarget EmergencyIsHeated
