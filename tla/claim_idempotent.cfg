\* The script run twice.
SPECIFICATION Spec
CONSTANTS
  Runs = 2
  NCustomers = 1
  NProducts = 1
  NOrders = 1
  Ids <- MCIds
  InvalidId = "invalid"
INVARIANT Idempotent
CHECK_DEADLOCK FALSE
