------------------------------ MODULE OrderSvc ------------------------------
(***************************************************************************)
(* order-svc: internal/handler/order.go over the OrderStore.               *)
(*                                                                         *)
(* CreateOrder runs in the goroutine of its request, and its two upstream  *)
(* calls take time: every other request of the three services may run      *)
(* between its steps.  pc[h] is where handler h stands:                    *)
(*   idle      no request                                                  *)
(*   customer  in fetchCustomer          product  in fetchProduct          *)
(*   confirm   about to store the order as confirmed                       *)
(*   fail      about to store it as failed, for the reason cause[h]        *)
(*   201, 422  stored; the answer is being written                         *)
(* Requests refused with 400 or 404 and reads change nothing and are no    *)
(* steps; PUT and DELETE are one atomic store operation each.              *)
(***************************************************************************)
EXTENDS Domain, StoreOps, FiniteSets

CONSTANTS
  Handlers,        \* the goroutines that may run CreateOrder at once
  OrderBodies,     \* the JSON bodies of POST /orders
  OrderUpdates     \* the JSON bodies of PUT /orders/{id}

VARIABLES
  orders,          \* OrderStore.orders
  ordersIssued,    \* every id generateID has returned, in any process so far
  ordersUp,        \* the process is running and accepts requests
  pc,
  draft,           \* o: the order being built, in the end the one stored
  snapshot,        \* product, as fetchProduct returned it
  cause            \* why the handler failed the order: the error in its Warn log

orderVars == <<orders, ordersIssued, ordersUp, pc, draft, snapshot, cause>>

PC == {"idle", "customer", "product", "confirm", "fail", "201", "422"}
Stored == {"201", "422"}
InProgress == PC \ (Stored \cup {"idle"})

Cause == {"", "customer not found", "product not found",
          "insufficient stock", "call failed"}

ASSUME OrderBodiesAssumption ==
  /\ OrderBodies \subseteq Order
  /\ OrderUpdates \subseteq Order

OrdersInit ==
  /\ orders = EmptyStore
  /\ ordersIssued = {}
  /\ ordersUp = TRUE
  /\ pc = [h \in Handlers |-> "idle"]
  /\ draft = [h \in Handlers |-> ZeroOrder]
  /\ snapshot = [h \in Handlers |-> ZeroProduct]
  /\ cause = [h \in Handlers |-> ""]

\* The id fields are trimmed; status, total and id stay as the client sent them.
TrimOrder(o) ==
  [o EXCEPT !.customer_id = TrimSpace[@], !.product_id = TrimSpace[@]]

OrderComplete(o) ==
  o.customer_id # Empty /\ o.product_id # Empty /\ o.quantity > 0

\* A bound of the model: every handler in progress can still draw an id.
RoomForOrder ==
  Cardinality({h \in Handlers : pc[h] \in InProgress})
    < Cardinality(OrderIds \ ordersIssued)

\* POST /orders with a body that passes the checks.
AcceptOrder(h, body) ==
  /\ ordersUp
  /\ pc[h] = "idle"
  /\ OrderComplete(TrimOrder(body))
  /\ RoomForOrder
  /\ pc' = [pc EXCEPT ![h] = "customer"]
  /\ draft' = [draft EXCEPT ![h] = TrimOrder(body)]
  /\ UNCHANGED <<orders, ordersIssued, ordersUp, snapshot, cause>>

\* One of the three "order validation failed" branches.
Fail(h, why) ==
  /\ pc' = [pc EXCEPT ![h] = "fail"]
  /\ cause' = [cause EXCEPT ![h] = why]
  /\ UNCHANGED <<orders, ordersIssued, ordersUp, draft, snapshot>>

\* fetchCustomer returned the customer found, an optional value.
CustomerAnswered(h, found) ==
  /\ pc[h] = "customer"
  /\ \/ /\ found = {}
        /\ Fail(h, "customer not found")
     \/ /\ found # {}
        /\ pc' = [pc EXCEPT ![h] = "product"]
        /\ UNCHANGED <<orders, ordersIssued, ordersUp, draft, snapshot, cause>>

\* Faulty variant of CustomerCallFails: any failed call is taken for a 404.
CustomerCallFailsAs404(h) == pc[h] = "customer" /\ Fail(h, "customer not found")

\* Faulty variant of CustomerCallFails: without an answer the customer is taken
\* to exist and the order goes on.
CustomerCallTolerated(h) ==
  /\ pc[h] = "customer"
  /\ pc' = [pc EXCEPT ![h] = "product"]
  /\ UNCHANGED <<orders, ordersIssued, ordersUp, draft, snapshot, cause>>

\* fetchCustomer failed otherwise: refused, timed out, context cancelled.
CustomerCallFails(h) == pc[h] = "customer" /\ Fail(h, "call failed")

\* Faulty variant of Sufficient: only an empty stock is refused.
AnyStock(p, o) == p.stock > 0 /\ o.quantity > 0

\* !(product.Stock < o.Quantity)
Sufficient(p, o) == p.stock >= o.quantity

\* fetchProduct returned the product found, and its stock is compared.
ProductAnswered(h, found) ==
  /\ pc[h] = "product"
  /\ \/ /\ found = {}
        /\ Fail(h, "product not found")
     \/ \E p \in found :
          /\ ~Sufficient(p, draft[h])
          /\ Fail(h, "insufficient stock")
     \/ \E p \in found :
          /\ Sufficient(p, draft[h])
          /\ pc' = [pc EXCEPT ![h] = "confirm"]
          /\ snapshot' = [snapshot EXCEPT ![h] = p]
          /\ UNCHANGED <<orders, ordersIssued, ordersUp, draft, cause>>

ProductCallFails(h) == pc[h] = "product" /\ Fail(h, "call failed")

\* h.store.Create(o): the order gets a new id and is in the store.
CreateRecord(h, o, code) ==
  \E id \in OrderIds \ ordersIssued :
    /\ orders' = Put(orders, id, o)
    /\ ordersIssued' = ordersIssued \cup {id}
    /\ draft' = [draft EXCEPT ![h] = [o EXCEPT !.id = id]]
    /\ pc' = [pc EXCEPT ![h] = code]
    /\ UNCHANGED <<ordersUp, snapshot, cause>>

ConfirmedOrder(o, p) ==
  [o EXCEPT !.status = "confirmed", !.total = Wrap(p.price * o.quantity)]

\* The failed order keeps the total that the client sent.
FailedOrder(o) == [o EXCEPT !.status = "failed"]

StoreConfirmed(h) ==
  /\ pc[h] = "confirm"
  /\ CreateRecord(h, ConfirmedOrder(draft[h], snapshot[h]), "201")

StoreFailed(h) ==
  /\ pc[h] = "fail"
  /\ CreateRecord(h, FailedOrder(draft[h]), "422")

\* The answer is written, or its client has gone: the goroutine ends.
Finish(h) ==
  /\ pc[h] \in Stored
  /\ pc' = [pc EXCEPT ![h] = "idle"]
  /\ draft' = [draft EXCEPT ![h] = ZeroOrder]
  /\ snapshot' = [snapshot EXCEPT ![h] = ZeroProduct]
  /\ cause' = [cause EXCEPT ![h] = ""]
  /\ UNCHANGED <<orders, ordersIssued, ordersUp>>

\* PUT /orders/{id}: any body replaces the record, unchecked.
UpdateOrder ==
  \E body \in OrderUpdates, id \in DOMAIN orders :
    /\ ordersUp
    /\ orders' = Put(orders, id, body)
    /\ UNCHANGED <<ordersIssued, ordersUp, pc, draft, snapshot, cause>>

\* DELETE /orders/{id}
DeleteOrder ==
  \E id \in DOMAIN orders :
    /\ ordersUp
    /\ orders' = Remove(orders, id)
    /\ UNCHANGED <<ordersIssued, ordersUp, pc, draft, snapshot, cause>>

\* The process ends, with its store and with the handlers that were running.
OrderSvcStops ==
  /\ ordersUp
  /\ ordersUp' = FALSE
  /\ orders' = EmptyStore
  /\ pc' = [h \in Handlers |-> "idle"]
  /\ draft' = [h \in Handlers |-> ZeroOrder]
  /\ snapshot' = [h \in Handlers |-> ZeroProduct]
  /\ cause' = [h \in Handlers |-> ""]
  /\ UNCHANGED ordersIssued

\* main() again, with NewOrderStore().
OrderSvcStarts ==
  /\ ~ordersUp
  /\ ordersUp' = TRUE
  /\ UNCHANGED <<orders, ordersIssued, pc, draft, snapshot, cause>>

OrdersTypeOK ==
  /\ IsStore(orders, OrderIds, Order)
  /\ ordersIssued \subseteq OrderIds
  /\ ordersUp \in BOOLEAN
  /\ DOMAIN orders \subseteq ordersIssued
  /\ pc \in [Handlers -> PC]
  /\ draft \in [Handlers -> Order]
  /\ snapshot \in [Handlers -> Product]
  /\ cause \in [Handlers -> Cause]
=============================================================================
