----------------------------- MODULE ShopClaims -----------------------------
(***************************************************************************)
(* Statements that comments of the repository make about orders and that   *)
(* the code does not keep.  Each is checked by a run of its own.           *)
(***************************************************************************)
EXTENDS MCShop, FiniteSetsExt

NoUpdates == {}

\* store/order.go:17: "OrderStatusConfirmed means stock was reserved".  Then
\* the confirmed units of a product could not exceed all that was ever put on
\* sale of it: with one product body and no PUT, that body's stock.
StockIsReserved ==
  \A p \in ProductBodies : \A id \in ProductIds :
    LET confirmed == {k \in DOMAIN orders :
                        /\ orders[k].status = "confirmed"
                        /\ PathId[orders[k].product_id] = id}
    IN MapThenSumSet(LAMBDA k : orders[k].quantity, confirmed) <= p.stock

\* store/order.go:54: "Computed by order-svc at creation time; 0 if status is
\* "failed"".
FailedTotalIsZero ==
  \A k \in DOMAIN orders : orders[k].status = "failed" => orders[k].total = 0

\* store/order.go:40: "order-svc calls customer-svc to validate this ID before
\* confirming": a confirmed order names a customer that customer-svc has had.
ConfirmedWasValidated ==
  \A k \in DOMAIN orders :
    orders[k].status = "confirmed" =>
      PathId[orders[k].customer_id] \in customersIssued
=============================================================================
