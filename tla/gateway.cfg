\* Two requests of any kind, over services that change, stop and start.
SPECIFICATION GatewaySpec
CONSTANTS
  Text <- MCText
  Empty = ""
  TrimSpace <- MCTrimSpace
  PathId <- MCPathId
  IntLimit = 4
  CustomerIds <- MCCustomerIds
  ProductIds <- MCProductIds
  OrderIds <- MCOrderIds
  CustomerBodies <- OneCustomerBody
  ProductBodies <- OneProductBody
  ProductUpdates <- OneProductBody
  OrderBodies <- FewOrderBodies
  OrderUpdates <- NoUpdates
  NoSuchId = "none"
  Handlers = {h1, h2}
  h1 = h1
  h2 = h2
  Routes <- MCRoutes
INVARIANTS
  GatewayTypeOK
  PageShowsOwnRecord
  TriggerPlacesFailure
  NoSuchCustomerFails
PROPERTIES
  PlacementKept
