CONSTANTS
  Blocks = 7
  MODBUS_RETRIES = 3
  RetriedCounts = {0,7}
  BUS_MIN_TRANSACTIONS = 60
  BUS_ERROR_THRESHOLD = 100
  MaxErrors = 35
  MaxTransactions = 400
  Sustained = 5
SPECIFICATION Spec
INVARIANT DegradedBusReported
