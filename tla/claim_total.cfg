\* No PUT requests on orders: the total is the one order-svc stored.
SPECIFICATION Spec
CONSTANTS
  Text <- MCText
  Empty = ""
  TrimSpace <- MCTrimSpace
  PathId <- MCPathId
  IntLimit = 4
  CustomerIds <- MCCustomerIds
  ProductIds <- MCProductIds
  OrderIds <- MCOrderIds
  CustomerBodies <- MCCustomerBodies
  ProductBodies <- MCProductBodies
  ProductUpdates <- MCProductBodies
  OrderBodies <- MCOrderBodies
  OrderUpdates <- NoUpdates
  Handlers = {h1, h2}
INVARIANTS
  FailedTotalIsZero
