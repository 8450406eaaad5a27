----------------------------- MODULE MCGateway -----------------------------
(***************************************************************************)
(* Values for model checking Gateway: two requests and three order bodies. *)
(***************************************************************************)
EXTENDS MCShop, Gateway

OneCustomerBody == {[id |-> "none", name |-> " Ann", email |-> "Ann"]}
\* One order is refused, one can be confirmed, one is for nobody.
FewOrderBodies == {OrderBody(" ", 1), OrderBody("c1", 2), OrderBody("none", 2)}

NoUpdates == {}

CONSTANTS h1, h2

\* One request of any kind beside an order.
MCRoutes == [r \in {h1, h2} |-> IF r = h1 THEN Kinds ELSE {"proxyOrders"}]
=============================================================================
