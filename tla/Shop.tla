-------------------------------- MODULE Shop --------------------------------
(***************************************************************************)
(* The three services together.  order-svc calls customer-svc and          *)
(* product-svc over HTTP; the three keep no other common state.            *)
(***************************************************************************)
EXTENDS CustomerSvc, ProductSvc, OrderSvc

vars == <<customerVars, productVars, orderVars>>

Init == CustomersInit /\ ProductsInit /\ OrdersInit

\* What GET /customers/{id} and GET /products/{id} find now for h's order.
CustomerNow(h) == Lookup(customers, PathId[draft[h].customer_id])
ProductNow(h) == Lookup(products, PathId[draft[h].product_id])

\* Ids are random: a client that names one has it from an answer.
IdsKnown(o) ==
  /\ PathId[TrimSpace[o.customer_id]] \in CustomerIds =>
       PathId[TrimSpace[o.customer_id]] \in customersIssued
  /\ PathId[TrimSpace[o.product_id]] \in ProductIds =>
       PathId[TrimSpace[o.product_id]] \in productsIssued

CreateOrder(h) ==
  /\ \E body \in OrderBodies : IdsKnown(body) /\ AcceptOrder(h, body)
  /\ UNCHANGED <<customerVars, productVars>>

\* fetchCustomer reaches a customer-svc that answers 200 or 404.
AskCustomer(h) ==
  /\ customersUp
  /\ CustomerAnswered(h, CustomerNow(h))
  /\ UNCHANGED <<customerVars, productVars>>

\* Faulty variant of GiveUpCustomer: a client without a timeout waits for a
\* service that is down.
GiveUpIfAnswered(h) ==
  /\ customersUp
  /\ CustomerCallFails(h)
  /\ UNCHANGED <<customerVars, productVars>>

\* It gets an error, a timeout or a cancelled context instead.
GiveUpCustomer(h) ==
  CustomerCallFails(h) /\ UNCHANGED <<customerVars, productVars>>

AskProduct(h) ==
  /\ productsUp
  /\ ProductAnswered(h, ProductNow(h))
  /\ UNCHANGED <<customerVars, productVars>>

GiveUpProduct(h) ==
  ProductCallFails(h) /\ UNCHANGED <<customerVars, productVars>>

ConfirmOrder(h) == StoreConfirmed(h) /\ UNCHANGED <<customerVars, productVars>>

RefuseOrder(h) == StoreFailed(h) /\ UNCHANGED <<customerVars, productVars>>

EndOrder(h) == Finish(h) /\ UNCHANGED <<customerVars, productVars>>

\* What handler h does once it has accepted a request.
HandlerStep(h) ==
  \/ AskCustomer(h)
  \/ GiveUpCustomer(h)
  \/ AskProduct(h)
  \/ GiveUpProduct(h)
  \/ ConfirmOrder(h)
  \/ RefuseOrder(h)
  \/ EndOrder(h)

\* Steps of order-svc outside CreateOrder.
OrderRecordStep ==
  /\ UpdateOrder \/ DeleteOrder \/ OrderSvcStops \/ OrderSvcStarts
  /\ UNCHANGED <<customerVars, productVars>>

Next ==
  \/ CustomersNext /\ UNCHANGED <<productVars, orderVars>>
  \/ ProductsNext /\ UNCHANGED <<customerVars, orderVars>>
  \/ OrderRecordStep
  \/ \E h \in Handlers : CreateOrder(h) \/ HandlerStep(h)

\* A goroutine that can take a step takes one: the Go scheduler runs it, and
\* the client's 5 s timeout ends a call that nobody answers.  Nothing makes a
\* client send a request or a container start.
Fairness == \A h \in Handlers : WF_vars(HandlerStep(h))

Spec == Init /\ [][Next]_vars /\ Fairness

-----------------------------------------------------------------------------

TypeOK == CustomersTypeOK /\ ProductsTypeOK /\ OrdersTypeOK

\* Whatever the sequence of POST, PUT and DELETE requests, a record is under
\* its own id ("Immutable after creation"), and the required fields of a
\* customer and a product are present and trimmed.
RecordsWellFormed ==
  /\ Keyed(customers) /\ Keyed(products) /\ Keyed(orders)
  /\ \A k \in DOMAIN customers :
       Trimmed(customers[k].name) /\ Trimmed(customers[k].email)
  /\ \A k \in DOMAIN products : Trimmed(products[k].name)

\* A record that is gone, deleted or lost with its process, never comes back:
\* no update that raced with the deletion revives it and no later Create gets
\* its id.
GoneStaysGone ==
  [][/\ \A k \in customersIssued \ DOMAIN customers : k \notin DOMAIN customers'
     /\ \A k \in productsIssued \ DOMAIN products : k \notin DOMAIN products'
     /\ \A k \in ordersIssued \ DOMAIN orders : k \notin DOMAIN orders']_vars

\* Every accepted order is answered 201 or 422, whatever the two upstream
\* services do, unless order-svc itself stops.
AcceptedIsAnswered ==
  \A h \in Handlers :
    pc[h] \in InProgress ~> (pc[h] \in Stored \/ ~ordersUp)
=============================================================================
