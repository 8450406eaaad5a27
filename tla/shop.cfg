\* Two orders at once against changing records, with restarts.
SPECIFICATION Spec
CONSTANTS
  Text <- MCText
  Empty = ""
  TrimSpace <- MCTrimSpace
  PathId <- MCPathId
  IntLimit = 4
  CustomerIds <- MCCustomerIds
  ProductIds <- MCProductIds
  OrderIds <- MCOrderIds
  CustomerBodies <- MCCustomerBodies
  ProductBodies <- MCProductBodies
  ProductUpdates <- MCProductBodies
  OrderBodies <- MCOrderBodies
  OrderUpdates <- MCOrderUpdates
  Handlers = {h1, h2}
INVARIANTS
  TypeOK
  RecordsWellFormed
PROPERTIES
  GoneStaysGone
  AcceptedIsAnswered
