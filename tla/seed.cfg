\* Two runs with a customer, a product and two orders each.
SPECIFICATION Spec
CONSTANTS
  Runs = 2
  NCustomers = 1
  NProducts = 1
  NOrders = 2
  Ids <- MCIds
  InvalidId = "invalid"
INVARIANTS
  TypeOK
  SummaryHonest
  OrdersNameOwnCustomers
PROPERTIES
  ScriptEnds
CHECK_DEADLOCK FALSE
