------------------------- MODULE ShopHistoryProofs -------------------------
(***************************************************************************)
(* What an answered order rests on, for any number of concurrent handlers, *)
(* clients, updates, deletions and restarts.                               *)
(***************************************************************************)
EXTENDS ShopHistory, ShopProofs

\* The decision h is about to store, or has stored.
ConfirmBasis(h) ==
  /\ customerSeen[h] \ {{}} # {}
  /\ {snapshot[h]} \in productSeen[h]
  /\ snapshot[h].id = PathId[draft[h].product_id]
  /\ snapshot[h].stock >= draft[h].quantity

FailBasis(h) ==
  /\ cause[h] = "customer not found" => {} \in customerSeen[h]
  /\ cause[h] \in {"product not found", "insufficient stock"} =>
       customerSeen[h] \ {{}} # {}
  /\ cause[h] = "product not found" => {} \in productSeen[h]
  /\ cause[h] = "insufficient stock" =>
       \E p \in Product : {p} \in productSeen[h] /\ p.stock < draft[h].quantity

\* While h is in progress its history holds the present, so that an answer
\* it reads is in it; afterwards it holds what the decision rests on.
BasisOf(h) ==
  /\ pc[h] \in InProgress =>
       CustomerNow(h) \in customerSeen[h] /\ ProductNow(h) \in productSeen[h]
  /\ pc[h] \in {"product", "confirm"} => customerSeen[h] \ {{}} # {}
  /\ pc[h] \in {"confirm", "201"} => ConfirmBasis(h)
  /\ pc[h] = "201" =>
       draft[h].total = Wrap(snapshot[h].price * draft[h].quantity)
  /\ pc[h] \in {"fail", "422"} => FailBasis(h)

Basis == \A h \in Handlers : BasisOf(h)

LEMMA InitBasis == HInit => Basis
BY DEF HInit, Init, OrdersInit, Basis, BasisOf, InProgress, PC, Stored

\* A step of Shop with which the history grows and loses nothing.
LEMMA SeenGrows ==
  ASSUME NEW h \in Handlers, Observe, pc'[h] # "idle"
  PROVE  /\ customerSeen[h] \subseteq customerSeen'[h]
         /\ productSeen[h] \subseteq productSeen'[h]
         /\ pc'[h] \in InProgress =>
              CustomerNow(h)' \in customerSeen'[h] /\ ProductNow(h)' \in productSeen'[h]
BY DEF Observe, Seen, InProgress

\* A handler that does not move keeps its basis.
LEMMA OthersKeepBasis ==
  ASSUME ShopInv, Basis, Observe, NEW h \in Handlers,
         pc'[h] = pc[h], draft'[h] = draft[h], snapshot'[h] = snapshot[h],
         cause'[h] = cause[h]
  PROVE  BasisOf(h)'
<1>1. CASE pc[h] = "idle"
  BY <1>1 DEF BasisOf, InProgress
<1>2. CASE pc[h] # "idle"
  <2>1. /\ customerSeen[h] \subseteq customerSeen'[h]
        /\ productSeen[h] \subseteq productSeen'[h]
        /\ pc'[h] \in InProgress =>
             CustomerNow(h)' \in customerSeen'[h] /\ ProductNow(h)' \in productSeen'[h]
    BY <1>2, SeenGrows
  <2>2. pc[h] \in {"product", "confirm"} => customerSeen'[h] \ {{}} # {}
    BY <2>1 DEF Basis, BasisOf
  <2>3. pc[h] \in {"confirm", "201"} => ConfirmBasis(h)'
    BY <2>1 DEF Basis, BasisOf, ConfirmBasis
  <2>4. pc[h] \in {"fail", "422"} => FailBasis(h)'
    BY <2>1 DEF Basis, BasisOf, FailBasis
  <2> QED
    BY <2>1, <2>2, <2>3, <2>4 DEF Basis, BasisOf
<1> QED
  BY <1>1, <1>2

\* An idle handler has decided nothing.
LEMMA IdleHasBasis == ASSUME NEW h \in Handlers, pc'[h] = "idle" PROVE BasisOf(h)'
BY DEF BasisOf, InProgress

\* What GET /products/{id} finds is a product with that id.
LEMMA ProductFound ==
  ASSUME ShopInv, NEW h \in Handlers, NEW p \in ProductNow(h)
  PROVE  /\ p \in Product /\ p.id = PathId[draft[h].product_id]
         /\ ProductNow(h) = {p}
BY DEF ProductNow, Lookup, ShopInv, ProductsOK, ProductsTypeOK, IsStore, Keyed

\* The handler that moves.
LEMMA MoverHasBasis ==
  ASSUME ShopInv, Basis, Observe, NEW h \in Handlers,
         CreateOrder(h) \/ HandlerStep(h)
  PROVE  BasisOf(h)'
<1>0. /\ pc \in [Handlers -> PC] /\ draft \in [Handlers -> Order]
      /\ snapshot \in [Handlers -> Product] /\ cause \in [Handlers -> Cause]
      /\ BasisOf(h)
  BY DEF ShopInv, OrdersOK, OrdersTypeOK, Basis
<1>s. pc'[h] # "idle" =>
        /\ customerSeen[h] \subseteq customerSeen'[h]
        /\ productSeen[h] \subseteq productSeen'[h]
        /\ pc'[h] \in InProgress =>
             CustomerNow(h)' \in customerSeen'[h] /\ ProductNow(h)' \in productSeen'[h]
  BY SeenGrows
\* A failed branch: the reason must hold of the history.
<1>f. ASSUME NEW why \in Cause, Fail(h, why),
             why = "customer not found" => {} \in customerSeen[h],
             why \in {"product not found", "insufficient stock"} =>
               customerSeen[h] \ {{}} # {},
             why = "product not found" => {} \in productSeen[h],
             why = "insufficient stock" =>
               \E p \in Product : {p} \in productSeen[h] /\ p.stock < draft[h].quantity
      PROVE  BasisOf(h)'
  <2>1. pc'[h] = "fail" /\ cause'[h] = why /\ draft' = draft
    BY <1>0, <1>f DEF Fail
  <2>2. FailBasis(h)'
    BY <1>f, <1>s, <2>1 DEF FailBasis
  <2> QED
    BY <1>s, <2>1, <2>2 DEF BasisOf
<1>1. CASE CreateOrder(h)
  <2>1. pc'[h] = "customer"
    BY <1>0, <1>1 DEF CreateOrder, AcceptOrder
  <2> QED
    BY <1>s, <2>1 DEF BasisOf
<1>2. CASE AskCustomer(h)
  <2>1. pc[h] = "customer" /\ CustomerNow(h) \in customerSeen[h]
    BY <1>0, <1>2
    DEF AskCustomer, CustomerAnswered, BasisOf, InProgress, PC, Stored
  <2>2. CASE CustomerNow(h) = {}
    <3>1. Fail(h, "customer not found")
      BY <1>2, <2>2 DEF AskCustomer, CustomerAnswered
    <3> QED
      BY <1>f, <2>1, <2>2, <3>1 DEF Cause
  <2>3. CASE CustomerNow(h) # {}
    <3>1. pc'[h] = "product"
      BY <1>0, <1>2, <2>3 DEF AskCustomer, CustomerAnswered
    <3>2. customerSeen'[h] \ {{}} # {}
      BY <1>s, <2>1, <2>3, <3>1
    <3> QED
      BY <1>s, <3>1, <3>2 DEF BasisOf
  <2> QED
    BY <2>2, <2>3
<1>3. CASE GiveUpCustomer(h) \/ GiveUpProduct(h)
  <2>1. Fail(h, "call failed")
    BY <1>3
    DEF GiveUpCustomer, GiveUpProduct, CustomerCallFails, ProductCallFails
  <2> QED
    BY <1>f, <2>1 DEF Cause
<1>4. CASE AskProduct(h)
  <2>1. /\ pc[h] = "product" /\ customerSeen[h] \ {{}} # {}
        /\ ProductNow(h) \in productSeen[h]
    BY <1>0, <1>4
    DEF AskProduct, ProductAnswered, BasisOf, InProgress, PC, Stored
  <2>2. CASE ProductNow(h) = {}
    <3>1. Fail(h, "product not found")
      BY <1>4, <2>2 DEF AskProduct, ProductAnswered
    <3> QED
      BY <1>f, <2>1, <2>2, <3>1 DEF Cause
  <2>3. ASSUME NEW p \in ProductNow(h) PROVE BasisOf(h)'
    <3>1. /\ p \in Product /\ p.id = PathId[draft[h].product_id]
          /\ ProductNow(h) = {p}
      BY <2>3, ProductFound
    <3>2. p.stock \in Int /\ draft[h].quantity \in Int
      BY <1>0, <3>1, DomainAssumption DEF Product, Order, Int64
    <3>3. CASE ~Sufficient(p, draft[h])
      <4>1. Fail(h, "insufficient stock")
        BY <1>4, <3>1, <3>3 DEF AskProduct, ProductAnswered
      <4>2. p.stock < draft[h].quantity
        BY <3>2, <3>3 DEF Sufficient
      <4> QED
        BY <1>f, <2>1, <3>1, <4>1, <4>2 DEF Cause
    <3>4. CASE Sufficient(p, draft[h])
      <4>1. /\ pc' = [pc EXCEPT ![h] = "confirm"] /\ draft' = draft
            /\ snapshot' = [snapshot EXCEPT ![h] = p]
        BY <1>4, <3>1, <3>4 DEF AskProduct, ProductAnswered
      <4>2. pc'[h] = "confirm" /\ snapshot'[h] = p
        BY <1>0, <4>1
      <4>3. ConfirmBasis(h)'
        BY <1>s, <2>1, <3>1, <3>4, <4>1, <4>2 DEF ConfirmBasis, Sufficient
      <4>4. customerSeen'[h] \ {{}} # {}
        BY <1>s, <2>1, <4>2
      <4> QED
        BY <1>s, <4>2, <4>3, <4>4 DEF BasisOf
    <3> QED
      BY <3>3, <3>4
  <2> QED
    BY <2>2, <2>3
<1>5. CASE ConfirmOrder(h)
  <2>1. pc[h] = "confirm" /\ ConfirmBasis(h)
    BY <1>0, <1>5 DEF ConfirmOrder, StoreConfirmed, BasisOf
  <2>2. PICK id \in OrderIds :
          /\ draft' = [draft EXCEPT ![h] =
                         [ConfirmedOrder(draft[h], snapshot[h]) EXCEPT !.id = id]]
          /\ pc' = [pc EXCEPT ![h] = "201"] /\ snapshot' = snapshot
    BY <1>5 DEF ConfirmOrder, StoreConfirmed, CreateRecord
  <2>3. /\ draft'[h].product_id = draft[h].product_id
        /\ draft'[h].quantity = draft[h].quantity
        /\ draft'[h].total = Wrap(snapshot[h].price * draft[h].quantity)
    BY <1>0, <2>2 DEF ConfirmedOrder, Order
  <2>4. pc'[h] = "201"
    BY <1>0, <2>2
  <2>5. ConfirmBasis(h)'
    BY <1>s, <2>1, <2>2, <2>3, <2>4 DEF ConfirmBasis
  <2> QED
    BY <2>2, <2>3, <2>4, <2>5 DEF BasisOf, InProgress, Stored
<1>6. CASE RefuseOrder(h)
  <2>1. pc[h] = "fail" /\ FailBasis(h)
    BY <1>0, <1>6 DEF RefuseOrder, StoreFailed, BasisOf
  <2>2. PICK id \in OrderIds :
          /\ draft' = [draft EXCEPT ![h] =
                         [FailedOrder(draft[h]) EXCEPT !.id = id]]
          /\ pc' = [pc EXCEPT ![h] = "422"] /\ cause' = cause
    BY <1>6 DEF RefuseOrder, StoreFailed, CreateRecord
  <2>3. draft'[h].quantity = draft[h].quantity /\ pc'[h] = "422"
    BY <1>0, <2>2 DEF FailedOrder, Order
  <2>4. FailBasis(h)'
    BY <1>s, <2>1, <2>2, <2>3 DEF FailBasis
  <2> QED
    BY <2>3, <2>4 DEF BasisOf, InProgress, Stored
<1>7. CASE EndOrder(h)
  BY <1>0, <1>7, IdleHasBasis DEF EndOrder, Finish
<1> QED
  BY <1>1, <1>2, <1>3, <1>4, <1>5, <1>6, <1>7 DEF HandlerStep

LEMMA BasisStep == ShopInv /\ Basis /\ [HNext]_hvars => Basis'
<1> SUFFICES ASSUME ShopInv, Basis, [HNext]_hvars, NEW g \in Handlers
             PROVE  BasisOf(g)'
  BY DEF Basis
<1>1. CASE Next /\ Observe
  <2>1. ASSUME UNCHANGED <<pc, draft, snapshot, cause>> PROVE BasisOf(g)'
    BY <1>1, <2>1, OthersKeepBasis
  <2>2. CASE \/ CustomersNext /\ UNCHANGED <<productVars, orderVars>>
             \/ ProductsNext /\ UNCHANGED <<customerVars, orderVars>>
    BY <2>1, <2>2 DEF orderVars
  <2>3. CASE OrderRecordStep
    <3>1. CASE OrderSvcStops
      BY <3>1, IdleHasBasis DEF OrderSvcStops
    <3>2. CASE ~OrderSvcStops
      BY <2>1, <2>3, <3>2
      DEF OrderRecordStep, UpdateOrder, DeleteOrder, OrderSvcStarts
    <3> QED
      BY <3>1, <3>2
  <2>4. ASSUME NEW h \in Handlers, CreateOrder(h) \/ HandlerStep(h)
        PROVE  BasisOf(g)'
    <3>1. CASE g = h
      BY <1>1, <2>4, <3>1, MoverHasBasis
    <3>2. CASE g # h
      <4>1. /\ pc'[g] = pc[g] /\ draft'[g] = draft[g]
            /\ snapshot'[g] = snapshot[g] /\ cause'[g] = cause[g]
        BY <2>4, <3>2
        DEF HandlerStep, CreateOrder, AcceptOrder, AskCustomer,
            CustomerAnswered, GiveUpCustomer, CustomerCallFails, AskProduct,
            ProductAnswered, GiveUpProduct, ProductCallFails, ConfirmOrder,
            StoreConfirmed, RefuseOrder, StoreFailed, CreateRecord, EndOrder,
            Finish, Fail, ShopInv, OrdersOK, OrdersTypeOK
      <4> QED
        BY <1>1, <4>1, OthersKeepBasis
    <3> QED
      BY <3>1, <3>2
  <2> QED
    BY <1>1, <2>2, <2>3, <2>4 DEF Next
<1>2. CASE UNCHANGED hvars
  <2>1. BasisOf(g)
    BY DEF Basis
  <2> QED
    BY <1>2, <2>1
    DEF hvars, vars, orderVars, customerVars, productVars, BasisOf,
        ConfirmBasis, FailBasis, CustomerNow, ProductNow
<1> QED
  BY <1>1, <1>2 DEF HNext

THEOREM BasisInvariance == HSpec => [](ShopInv /\ Basis)
<1>1. HInit => ShopInv /\ Basis
  BY InitShopInv, InitBasis DEF HInit
<1>2. ShopInv /\ Basis /\ [HNext]_hvars => (ShopInv /\ Basis)'
  <2>1. [HNext]_hvars => [Next]_vars
    BY DEF HNext, hvars
  <2> QED
    BY <2>1, ShopInvStep, BasisStep
<1> QED
  BY <1>1, <1>2, PTL DEF HSpec

\* ConfirmedJustified: each 201 rests on a customer and on a product version
\* with the stock and the price, both seen during the request.
THEOREM ConfirmSafety == HSpec => []ConfirmedJustified
<1>1. ShopInv /\ Basis => ConfirmedJustified
  BY DEF Basis, BasisOf, ConfirmBasis, ConfirmedJustified, ShopInv, OrdersOK,
         OrdersTypeOK
<1> QED
  BY <1>1, BasisInvariance, PTL

\* Where the multiplication of CreateOrder does not overflow, the total of a
\* confirmed order is exactly a price that its product had during the request,
\* times the quantity.
ExactTotal ==
  \A h \in Handlers : pc[h] = "201" =>
    \E p \in Product :
      /\ {p} \in productSeen[h] /\ p.id = PathId[draft[h].product_id]
      /\ p.price * draft[h].quantity \in Int64 =>
           draft[h].total = p.price * draft[h].quantity

THEOREM TotalSafety == HSpec => []ExactTotal
<1>1. ConfirmedJustified => ExactTotal
  BY WrapExact DEF ConfirmedJustified, ExactTotal
<1> QED
  BY <1>1, ConfirmSafety, PTL

\* FailedJustified: each 422 failed for a reason that held during the request.
THEOREM FailSafety == HSpec => []FailedJustified
<1>1. Basis => FailedJustified
  BY DEF Basis, BasisOf, FailBasis, FailedJustified
<1> QED
  BY <1>1, BasisInvariance, PTL
=============================================================================
