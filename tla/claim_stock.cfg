\* One kind of product and no PUT requests: what was put on sale is known.
SPECIFICATION Spec
CONSTANTS
  Text <- MCText
  Empty = ""
  TrimSpace <- MCTrimSpace
  PathId <- MCPathId
  IntLimit = 4
  CustomerIds <- MCCustomerIds
  ProductIds <- MCProductIds
  OrderIds <- MCOrderIds
  CustomerBodies <- MCCustomerBodies
  ProductBodies <- OneProductBody
  ProductUpdates <- NoUpdates
  OrderBodies <- MCOrderBodies
  OrderUpdates <- NoUpdates
  Handlers = {h1, h2}
INVARIANTS
  StockIsReserved
