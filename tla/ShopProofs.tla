----------------------------- MODULE ShopProofs -----------------------------
(***************************************************************************)
(* Proofs about Shop, for any sets of ids, bodies and handlers and any     *)
(* width of int.                                                           *)
(***************************************************************************)
EXTENDS Shop, StoreOpsProofs

\* The conversions give records of their type, and keep the fields they
\* do not name.
LEMMA WrapType == ASSUME NEW n \in Int PROVE Wrap(n) \in Int64
BY DomainAssumption DEF Wrap, Int64

\* Arithmetic that does not overflow is exact.
LEMMA WrapExact == ASSUME NEW n \in Int64 PROVE Wrap(n) = n
<1>1. /\ IntLimit \in Nat \ {0} /\ n \in Int
      /\ 0 <= n + IntLimit /\ n + IntLimit < 2 * IntLimit
  BY DomainAssumption DEF Int64
<1>2. (n + IntLimit) % (2 * IntLimit) = n + IntLimit
  BY <1>1
<1> QED
  BY <1>1, <1>2 DEF Wrap

LEMMA CustomerFacts ==
  ASSUME NEW c \in Customer, NEW id \in Text
  PROVE  /\ TrimCustomer(c) \in Customer
         /\ [c EXCEPT !.id = id] \in Customer
         /\ [c EXCEPT !.id = id].id = id
         /\ [c EXCEPT !.id = id].name = c.name
         /\ [c EXCEPT !.id = id].email = c.email
         /\ TrimCustomer(c).name = TrimSpace[c.name]
         /\ TrimCustomer(c).email = TrimSpace[c.email]
BY DomainAssumption DEF Customer, TrimCustomer

LEMMA ProductFacts ==
  ASSUME NEW p \in Product, NEW id \in Text
  PROVE  /\ TrimProduct(p) \in Product
         /\ [p EXCEPT !.id = id] \in Product
         /\ [p EXCEPT !.id = id].id = id
         /\ [p EXCEPT !.id = id].name = p.name
         /\ TrimProduct(p).name = TrimSpace[p.name]
BY DomainAssumption DEF Product, TrimProduct

LEMMA OrderFacts ==
  ASSUME NEW o \in Order, NEW id \in Text
  PROVE  /\ TrimOrder(o) \in Order
         /\ [o EXCEPT !.id = id] \in Order
         /\ [o EXCEPT !.id = id].id = id
         /\ FailedOrder(o) \in Order
         /\ \A p \in Product : ConfirmedOrder(o, p) \in Order
<1>1. /\ TrimOrder(o) \in Order
      /\ [o EXCEPT !.id = id] \in Order
      /\ [o EXCEPT !.id = id].id = id
      /\ FailedOrder(o) \in Order
  BY DomainAssumption DEF Order, TrimOrder, FailedOrder, Status
<1>2. ASSUME NEW p \in Product PROVE ConfirmedOrder(o, p) \in Order
  <2>1. p.price * o.quantity \in Int
    BY DomainAssumption DEF Product, Order, Int64
  <2>2. Wrap(p.price * o.quantity) \in Int64
    BY <2>1, WrapType
  <2> QED
    BY <2>2 DEF Order, ConfirmedOrder, Status
<1> QED
  BY <1>1, <1>2

LEMMA ZeroFacts == ZeroOrder \in Order /\ ZeroProduct \in Product
BY DomainAssumption
DEF ZeroOrder, ZeroProduct, Order, Product, Status, Int64

-----------------------------------------------------------------------------
(* Each service keeps its part of TypeOK and RecordsWellFormed.            *)

CustomersOK ==
  /\ CustomersTypeOK
  /\ Keyed(customers)
  /\ \A k \in DOMAIN customers :
       Trimmed(customers[k].name) /\ Trimmed(customers[k].email)

ProductsOK ==
  /\ ProductsTypeOK
  /\ Keyed(products)
  /\ \A k \in DOMAIN products : Trimmed(products[k].name)

OrdersOK == OrdersTypeOK /\ Keyed(orders)

\* A POST or PUT body that passed the checks is a well-formed customer.
LEMMA CustomerPut ==
  ASSUME CustomersOK, NEW id \in CustomerIds, NEW body \in CustomerBodies,
         CustomerComplete(TrimCustomer(body)),
         customers' = Put(customers, id, TrimCustomer(body)),
         id \in customersIssued', customersIssued \subseteq customersIssued',
         customersIssued' \subseteq CustomerIds, customersUp' = customersUp
  PROVE  CustomersOK'
<1> DEFINE c == [TrimCustomer(body) EXCEPT !.id = id]
<1>1. body \in Customer /\ id \in Text
  BY CustomerBodiesAssumption, DomainAssumption
<1>2. TrimCustomer(body) \in Customer /\ body.name \in Text /\ body.email \in Text
  BY <1>1, CustomerFacts DEF Customer
<1>3. /\ c \in Customer /\ c.id = id
      /\ c.name = TrimSpace[body.name] /\ c.email = TrimSpace[body.email]
      /\ c.name # Empty /\ c.email # Empty
  BY <1>1, <1>2, CustomerFacts DEF CustomerComplete
<1>4. Trimmed(c.name) /\ Trimmed(c.email)
  BY <1>2, <1>3, DomainAssumption DEF Trimmed
<1>5. customers' = With(customers, id, c)
  BY DEF Put
<1> HIDE DEF c
<1>6. IsStore(customers', CustomerIds, Customer)
  BY <1>3, <1>5, WithIsStore DEF CustomersOK, CustomersTypeOK
<1>7. \A k \in DOMAIN customers' :
        customers'[k] = IF k = id THEN c ELSE customers[k]
  BY <1>5 DEF With
<1>8. DOMAIN customers' = DOMAIN customers \cup {id}
  BY <1>5 DEF With
<1> QED
  BY <1>3, <1>4, <1>6, <1>7, <1>8 DEF CustomersOK, CustomersTypeOK, Keyed

LEMMA CustomersOKStep == CustomersOK /\ [CustomersNext]_customerVars => CustomersOK'
<1> SUFFICES ASSUME CustomersOK, [CustomersNext]_customerVars PROVE CustomersOK'
  OBVIOUS
<1>1. CASE CreateCustomer
  <2>1. PICK body \in CustomerBodies, id \in CustomerIds \ customersIssued :
          CreateCustomer!(body, id)
    BY <1>1 DEF CreateCustomer
  <2> QED
    BY <2>1, CustomerPut DEF CustomersOK, CustomersTypeOK
<1>2. CASE UpdateCustomer
  <2>1. PICK body \in CustomerBodies, id \in DOMAIN customers :
          UpdateCustomer!(body, id)
    BY <1>2 DEF UpdateCustomer
  <2> QED
    BY <2>1, CustomerPut DEF CustomersOK, CustomersTypeOK
<1>3. CASE DeleteCustomer
  <2>1. PICK id \in DOMAIN customers : DeleteCustomer!(id)
    BY <1>3 DEF DeleteCustomer
  <2>2. IsStore(customers', CustomerIds, Customer)
    BY <2>1, RemoveIsStore DEF CustomersOK, CustomersTypeOK
  <2> QED
    BY <2>1, <2>2 DEF CustomersOK, CustomersTypeOK, Keyed, Remove
<1>4. CASE CustomerSvcStops
  BY <1>4, EmptyIsStore
  DEF CustomerSvcStops, CustomersOK, CustomersTypeOK, Keyed
<1>5. CASE CustomerSvcStarts
  BY <1>5 DEF CustomerSvcStarts, CustomersOK, CustomersTypeOK, Keyed
<1>6. CASE UNCHANGED customerVars
  BY <1>6 DEF customerVars, CustomersOK, CustomersTypeOK, Keyed
<1> QED
  BY <1>1, <1>2, <1>3, <1>4, <1>5, <1>6 DEF CustomersNext

\* The same of a product; UpdateProduct checks the name only, as ProductNamed.
LEMMA ProductPut ==
  ASSUME ProductsOK, NEW id \in ProductIds,
         NEW body \in ProductBodies \cup ProductUpdates,
         ProductNamed(TrimProduct(body)),
         products' = Put(products, id, TrimProduct(body)),
         id \in productsIssued', productsIssued \subseteq productsIssued',
         productsIssued' \subseteq ProductIds, productsUp' = productsUp
  PROVE  ProductsOK'
<1> DEFINE p == [TrimProduct(body) EXCEPT !.id = id]
<1>1. body \in Product /\ id \in Text
  BY ProductBodiesAssumption, DomainAssumption
<1>2. TrimProduct(body) \in Product /\ body.name \in Text
  BY <1>1, ProductFacts DEF Product
<1>3. p \in Product /\ p.id = id /\ p.name = TrimSpace[body.name] /\ p.name # Empty
  BY <1>1, <1>2, ProductFacts DEF ProductNamed
<1>4. Trimmed(p.name)
  BY <1>2, <1>3, DomainAssumption DEF Trimmed
<1>5. products' = With(products, id, p)
  BY DEF Put
<1> HIDE DEF p
<1>6. IsStore(products', ProductIds, Product)
  BY <1>3, <1>5, WithIsStore DEF ProductsOK, ProductsTypeOK
<1>7. \A k \in DOMAIN products' :
        products'[k] = IF k = id THEN p ELSE products[k]
  BY <1>5 DEF With
<1>8. DOMAIN products' = DOMAIN products \cup {id}
  BY <1>5 DEF With
<1> QED
  BY <1>3, <1>4, <1>6, <1>7, <1>8 DEF ProductsOK, ProductsTypeOK, Keyed

LEMMA ProductsOKStep == ProductsOK /\ [ProductsNext]_productVars => ProductsOK'
<1> SUFFICES ASSUME ProductsOK, [ProductsNext]_productVars PROVE ProductsOK'
  OBVIOUS
<1>1. CASE CreateProduct
  <2>1. PICK body \in ProductBodies, id \in ProductIds \ productsIssued :
          CreateProduct!(body, id)
    BY <1>1 DEF CreateProduct
  <2> QED
    BY <2>1, ProductPut DEF ProductsOK, ProductsTypeOK, ProductComplete
<1>2. CASE UpdateProduct
  <2>1. PICK body \in ProductUpdates, id \in DOMAIN products :
          UpdateProduct!(body, id)
    BY <1>2 DEF UpdateProduct
  <2> QED
    BY <2>1, ProductPut DEF ProductsOK, ProductsTypeOK
<1>3. CASE DeleteProduct
  <2>1. PICK id \in DOMAIN products : DeleteProduct!(id)
    BY <1>3 DEF DeleteProduct
  <2>2. IsStore(products', ProductIds, Product)
    BY <2>1, RemoveIsStore DEF ProductsOK, ProductsTypeOK
  <2> QED
    BY <2>1, <2>2 DEF ProductsOK, ProductsTypeOK, Keyed, Remove
<1>4. CASE ProductSvcStops
  BY <1>4, EmptyIsStore DEF ProductSvcStops, ProductsOK, ProductsTypeOK, Keyed
<1>5. CASE ProductSvcStarts
  BY <1>5 DEF ProductSvcStarts, ProductsOK, ProductsTypeOK, Keyed
<1>6. CASE UNCHANGED productVars
  BY <1>6 DEF productVars, ProductsOK, ProductsTypeOK, Keyed
<1> QED
  BY <1>1, <1>2, <1>3, <1>4, <1>5, <1>6 DEF ProductsNext

\* Create and Update on the order store.
LEMMA OrderPut ==
  ASSUME OrdersOK, NEW id \in OrderIds, NEW o \in Order,
         orders' = Put(orders, id, o)
  PROVE  /\ IsStore(orders', OrderIds, Order)
         /\ Keyed(orders)'
         /\ DOMAIN orders' = DOMAIN orders \cup {id}
<1> DEFINE r == [o EXCEPT !.id = id]
<1>1. r \in Order /\ r.id = id
  BY OrderFacts, DomainAssumption
<1>2. orders' = With(orders, id, r)
  BY DEF Put
<1> HIDE DEF r
<1>3. IsStore(orders', OrderIds, Order)
  BY <1>1, <1>2, WithIsStore DEF OrdersOK, OrdersTypeOK
<1>4. DOMAIN orders' = DOMAIN orders \cup {id}
  BY <1>2 DEF With
<1>5. Keyed(orders)'
  BY <1>1, <1>2 DEF OrdersOK, Keyed, With
<1> QED
  BY <1>3, <1>4, <1>5

LEMMA CreateRecordOK ==
  ASSUME OrdersOK, NEW h \in Handlers, NEW o \in Order, NEW code \in PC,
         CreateRecord(h, o, code)
  PROVE  OrdersOK'
<1>1. PICK id \in OrderIds \ ordersIssued : CreateRecord(h, o, code)!(id)
  BY DEF CreateRecord
<1>2. /\ IsStore(orders', OrderIds, Order)
      /\ Keyed(orders)'
      /\ DOMAIN orders' = DOMAIN orders \cup {id}
  BY <1>1, OrderPut
<1>3. [o EXCEPT !.id = id] \in Order
  BY OrderFacts, DomainAssumption
<1> QED
  BY <1>1, <1>2, <1>3 DEF OrdersOK, OrdersTypeOK

LEMMA AcceptOK ==
  ASSUME OrdersOK, NEW h \in Handlers, NEW body \in Order, AcceptOrder(h, body)
  PROVE  OrdersOK'
<1>1. TrimOrder(body) \in Order
  BY OrderFacts, DomainAssumption
<1> QED
  BY <1>1 DEF AcceptOrder, OrdersOK, OrdersTypeOK, PC, Keyed

\* The steps of a handler, whatever the upstream services answer.
LEMMA HandlerStepOK ==
  ASSUME OrdersOK, ProductsOK, NEW h \in Handlers, CreateOrder(h) \/ HandlerStep(h)
  PROVE  OrdersOK'
<1> USE DEF OrdersOK
<1>1. ASSUME NEW why \in Cause, Fail(h, why) PROVE OrdersOK'
  BY <1>1 DEF OrdersTypeOK, Fail, PC, Keyed
<1>2. CASE CreateOrder(h)
  <2>1. PICK body \in OrderBodies : AcceptOrder(h, body)
    BY <1>2 DEF CreateOrder
  <2> QED
    BY <2>1, AcceptOK, OrderBodiesAssumption
<1>3. CASE AskCustomer(h)
  <2>1. CASE Fail(h, "customer not found")
    BY <1>1, <2>1 DEF Cause
  <2>2. CASE ~Fail(h, "customer not found")
    BY <1>3, <2>2 DEF AskCustomer, CustomerAnswered, OrdersTypeOK, PC, Keyed
  <2> QED
    BY <2>1, <2>2
<1>4. CASE GiveUpCustomer(h)
  BY <1>1, <1>4 DEF GiveUpCustomer, CustomerCallFails, Cause
<1>5. CASE AskProduct(h)
  <2>1. CASE Fail(h, "product not found") \/ Fail(h, "insufficient stock")
    BY <1>1, <2>1 DEF Cause
  <2>2. CASE ~(Fail(h, "product not found") \/ Fail(h, "insufficient stock"))
    <3>1. PICK p \in ProductNow(h) :
            /\ pc' = [pc EXCEPT ![h] = "confirm"]
            /\ snapshot' = [snapshot EXCEPT ![h] = p]
            /\ UNCHANGED <<orders, ordersIssued, ordersUp, draft, cause>>
      BY <1>5, <2>2 DEF AskProduct, ProductAnswered
    <3>2. p \in Product
      BY <3>1, LookupType DEF ProductNow, ProductsOK, ProductsTypeOK
    <3> QED
      BY <3>1, <3>2 DEF OrdersTypeOK, PC, Keyed
  <2> QED
    BY <2>1, <2>2
<1>6. CASE GiveUpProduct(h)
  BY <1>1, <1>6 DEF GiveUpProduct, ProductCallFails, Cause
<1>7. CASE ConfirmOrder(h)
  <2>1. draft[h] \in Order /\ snapshot[h] \in Product
    BY DEF OrdersTypeOK
  <2>2. ConfirmedOrder(draft[h], snapshot[h]) \in Order
    BY <2>1, OrderFacts, DomainAssumption
  <2> QED
    BY <1>7, <2>2, CreateRecordOK DEF ConfirmOrder, StoreConfirmed, PC
<1>8. CASE RefuseOrder(h)
  <2>1. draft[h] \in Order
    BY DEF OrdersTypeOK
  <2>2. FailedOrder(draft[h]) \in Order
    BY <2>1, OrderFacts, DomainAssumption
  <2> QED
    BY <1>8, <2>2, CreateRecordOK DEF RefuseOrder, StoreFailed, PC
<1>9. CASE EndOrder(h)
  BY <1>9, ZeroFacts DEF EndOrder, Finish, OrdersTypeOK, PC, Cause, Keyed
<1> QED
  BY <1>2, <1>3, <1>4, <1>5, <1>6, <1>7, <1>8, <1>9 DEF HandlerStep

LEMMA OrderRecordStepOK == OrdersOK /\ OrderRecordStep => OrdersOK'
<1> SUFFICES ASSUME OrdersOK, OrderRecordStep PROVE OrdersOK'
  OBVIOUS
<1>1. CASE UpdateOrder
  <2>1. PICK body \in OrderUpdates, id \in DOMAIN orders : UpdateOrder!(body, id)
    BY <1>1 DEF UpdateOrder
  <2>2. body \in Order /\ id \in OrderIds /\ id \in ordersIssued
    BY OrderBodiesAssumption DEF OrdersOK, OrdersTypeOK
  <2>3. /\ IsStore(orders', OrderIds, Order)
        /\ Keyed(orders)'
        /\ DOMAIN orders' = DOMAIN orders \cup {id}
    BY <2>1, <2>2, OrderPut
  <2> QED
    BY <2>1, <2>2, <2>3 DEF OrdersOK, OrdersTypeOK
<1>2. CASE DeleteOrder
  <2>1. PICK id \in DOMAIN orders : DeleteOrder!(id)
    BY <1>2 DEF DeleteOrder
  <2>2. IsStore(orders', OrderIds, Order)
    BY <2>1, RemoveIsStore DEF OrdersOK, OrdersTypeOK
  <2> QED
    BY <2>1, <2>2 DEF OrdersOK, OrdersTypeOK, Keyed, Remove
<1>3. CASE OrderSvcStops
  BY <1>3, EmptyIsStore, ZeroFacts
  DEF OrderSvcStops, OrdersOK, OrdersTypeOK, Keyed, PC, Cause
<1>4. CASE OrderSvcStarts
  BY <1>4 DEF OrderSvcStarts, OrdersOK, OrdersTypeOK, Keyed
<1> QED
  BY <1>1, <1>2, <1>3, <1>4 DEF OrderRecordStep

-----------------------------------------------------------------------------
(* The three services together.                                            *)

ShopInv == CustomersOK /\ ProductsOK /\ OrdersOK

LEMMA InitShopInv == Init => ShopInv
<1> SUFFICES ASSUME Init PROVE ShopInv
  OBVIOUS
<1>1. CustomersOK
  BY EmptyIsStore
  DEF Init, CustomersInit, CustomersOK, CustomersTypeOK, Keyed
<1>2. ProductsOK
  BY EmptyIsStore DEF Init, ProductsInit, ProductsOK, ProductsTypeOK, Keyed
<1>3. OrdersOK
  BY EmptyIsStore, ZeroFacts
  DEF Init, OrdersInit, OrdersOK, OrdersTypeOK, Keyed, PC, Cause
<1> QED
  BY <1>1, <1>2, <1>3 DEF ShopInv

LEMMA ShopInvStep == ShopInv /\ [Next]_vars => ShopInv'
<1> SUFFICES ASSUME ShopInv, [Next]_vars PROVE ShopInv'
  OBVIOUS
<1> USE DEF ShopInv
\* A service that takes no step keeps its part.
<1>a. UNCHANGED customerVars => CustomersOK'
  BY CustomersOKStep
<1>b. UNCHANGED productVars => ProductsOK'
  BY ProductsOKStep
<1>c. UNCHANGED orderVars => OrdersOK'
  BY DEF orderVars, OrdersOK, OrdersTypeOK, Keyed
<1>1. CASE CustomersNext /\ UNCHANGED <<productVars, orderVars>>
  BY <1>1, <1>b, <1>c, CustomersOKStep
<1>2. CASE ProductsNext /\ UNCHANGED <<customerVars, orderVars>>
  BY <1>2, <1>a, <1>c, ProductsOKStep
<1>3. CASE OrderRecordStep
  BY <1>3, <1>a, <1>b, OrderRecordStepOK DEF OrderRecordStep
<1>4. ASSUME NEW h \in Handlers, CreateOrder(h) \/ HandlerStep(h)
      PROVE  ShopInv'
  <2>1. OrdersOK'
    BY <1>4, HandlerStepOK
  <2>2. UNCHANGED <<customerVars, productVars>>
    BY <1>4
    DEF CreateOrder, HandlerStep, AskCustomer, GiveUpCustomer, AskProduct,
        GiveUpProduct, ConfirmOrder, RefuseOrder, EndOrder
  <2> QED
    BY <2>1, <2>2, <1>a, <1>b
<1>5. CASE UNCHANGED vars
  BY <1>5, <1>a, <1>b, <1>c DEF vars
<1> QED
  BY <1>1, <1>2, <1>3, <1>4, <1>5 DEF Next

THEOREM ShopInvariance == Spec => []ShopInv
BY InitShopInv, ShopInvStep, PTL DEF Spec

\* TypeOK: whatever the clients send and whatever fails, the stores hold
\* records of their types under issued ids, and totals are 64-bit integers.
THEOREM ShopTypeSafety == Spec => []TypeOK
<1>1. ShopInv => TypeOK
  BY DEF ShopInv, TypeOK, CustomersOK, ProductsOK, OrdersOK
<1> QED
  BY <1>1, ShopInvariance, PTL

\* RecordsWellFormed: ids are immutable and required fields stay filled, for
\* every sequence of creations and updates.
THEOREM WellFormedness == Spec => []RecordsWellFormed
<1>1. ShopInv => RecordsWellFormed
  BY DEF ShopInv, RecordsWellFormed, CustomersOK, ProductsOK, OrdersOK
<1> QED
  BY <1>1, ShopInvariance, PTL

\* Which ids a step can bring into each store: those it issues.
LEMMA OnlyFreshIdsAppear ==
  ASSUME ShopInv, Next
  PROVE  /\ DOMAIN customers' \ DOMAIN customers \subseteq CustomerIds \ customersIssued
         /\ DOMAIN products' \ DOMAIN products \subseteq ProductIds \ productsIssued
         /\ DOMAIN orders' \ DOMAIN orders \subseteq OrderIds \ ordersIssued
<1>1. CASE CustomersNext /\ UNCHANGED <<productVars, orderVars>>
  BY <1>1
  DEF productVars, orderVars, CustomersNext, CreateCustomer, UpdateCustomer,
      DeleteCustomer, CustomerSvcStops, CustomerSvcStarts, Put, With, Remove,
      EmptyStore
<1>2. CASE ProductsNext /\ UNCHANGED <<customerVars, orderVars>>
  BY <1>2
  DEF customerVars, orderVars, ProductsNext, CreateProduct, UpdateProduct,
      DeleteProduct, ProductSvcStops, ProductSvcStarts, Put, With, Remove,
      EmptyStore
<1>3. CASE OrderRecordStep
  BY <1>3
  DEF customerVars, productVars, OrderRecordStep, UpdateOrder, DeleteOrder,
      OrderSvcStops, OrderSvcStarts, Put, With, Remove, EmptyStore
<1>4. ASSUME NEW h \in Handlers, CreateOrder(h) \/ HandlerStep(h)
      PROVE  /\ UNCHANGED <<customers, products>>
             /\ DOMAIN orders' \ DOMAIN orders \subseteq OrderIds \ ordersIssued
  <2>1. CASE ConfirmOrder(h) \/ RefuseOrder(h)
    BY <2>1
    DEF ConfirmOrder, RefuseOrder, StoreConfirmed, StoreFailed, CreateRecord,
        Put, With, customerVars, productVars
  <2>2. CASE ~(ConfirmOrder(h) \/ RefuseOrder(h))
    BY <1>4, <2>2
    DEF HandlerStep, CreateOrder, AcceptOrder, AskCustomer, CustomerAnswered,
        GiveUpCustomer, CustomerCallFails, AskProduct, ProductAnswered,
        GiveUpProduct, ProductCallFails, EndOrder, Finish, Fail,
        customerVars, productVars
  <2> QED
    BY <2>1, <2>2
<1> QED
  BY <1>1, <1>2, <1>3, <1>4 DEF Next

\* No step takes back an id.
LEMMA IssuedGrow ==
  ASSUME Next
  PROVE  /\ customersIssued \subseteq customersIssued'
         /\ productsIssued \subseteq productsIssued'
         /\ ordersIssued \subseteq ordersIssued'
<1>1. CASE CustomersNext /\ UNCHANGED <<productVars, orderVars>>
  BY <1>1
  DEF productVars, orderVars, CustomersNext, CreateCustomer, UpdateCustomer,
      DeleteCustomer, CustomerSvcStops, CustomerSvcStarts
<1>2. CASE ProductsNext /\ UNCHANGED <<customerVars, orderVars>>
  BY <1>2
  DEF customerVars, orderVars, ProductsNext, CreateProduct, UpdateProduct,
      DeleteProduct, ProductSvcStops, ProductSvcStarts
<1>3. CASE OrderRecordStep
  BY <1>3
  DEF customerVars, productVars, OrderRecordStep, UpdateOrder, DeleteOrder,
      OrderSvcStops, OrderSvcStarts
<1>4. ASSUME NEW h \in Handlers, CreateOrder(h) \/ HandlerStep(h)
      PROVE  /\ UNCHANGED <<customersIssued, productsIssued>>
             /\ ordersIssued \subseteq ordersIssued'
  BY <1>4
  DEF HandlerStep, CreateOrder, AcceptOrder, AskCustomer, CustomerAnswered,
      GiveUpCustomer, CustomerCallFails, AskProduct, ProductAnswered,
      GiveUpProduct, ProductCallFails, ConfirmOrder, RefuseOrder,
      StoreConfirmed, StoreFailed, CreateRecord, EndOrder, Finish, Fail,
      customerVars, productVars
<1> QED
  BY <1>1, <1>2, <1>3, <1>4 DEF Next

\* GoneStaysGone: no update, creation or restart brings back a record that
\* was deleted or lost.
THEOREM NoResurrection == Spec => GoneStaysGone
<1> DEFINE Stays ==
      /\ \A k \in customersIssued \ DOMAIN customers : k \notin DOMAIN customers'
      /\ \A k \in productsIssued \ DOMAIN products : k \notin DOMAIN products'
      /\ \A k \in ordersIssued \ DOMAIN orders : k \notin DOMAIN orders'
<1>1. ShopInv /\ [Next]_vars => [Stays]_vars
  BY OnlyFreshIdsAppear
<1> QED
  BY <1>1, ShopInvariance, PTL DEF Spec, GoneStaysGone
=============================================================================
