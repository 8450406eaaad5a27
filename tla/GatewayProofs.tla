---------------------------- MODULE GatewayProofs ----------------------------
(***************************************************************************)
(* Proofs about Gateway, for any set of requests of any kinds over any     *)
(* records, whatever stops and whatever answer is late.                    *)
(***************************************************************************)
EXTENDS Gateway, ShopProofs, SequenceTheorems

USE NoSuchIdAssumption, RoutesAssumption, IdsAssumption

Answers == {"201", "422", "400"}

Call == [verb : {"POST", "GET"}, to : Services]

Issued(s) ==
  CASE s = "customers" -> customersIssued
    [] s = "products" -> productsIssued
    [] OTHER -> ordersIssued

RequestTypes ==
  /\ gatewayUp \in BOOLEAN
  /\ kind \in [Handlers -> Kinds \cup {"none"}]
  /\ todo \in [Handlers -> Seq(Call)]
  /\ body \in [Handlers -> Order]
  /\ post \in [Handlers -> PostState]
  /\ page = [r \in Handlers |-> page[r]]
  /\ outcome \in [Handlers -> SUBSET Placed!Outcome]
  /\ told \in [Handlers -> Placed!Code \cup {""}]

\* Before it arrives a request has done nothing, after its answer it does
\* nothing more.
Ends(r) ==
  /\ kind[r] = "none" =>
       /\ post[r] = "unsent" /\ outcome[r] = {} /\ told[r] = ""
       /\ page[r] = {} /\ todo[r] = <<>>
  /\ told[r] # "" => todo[r] = <<>> /\ page[r] = {}

\* A body that is accepted and then fails.
Placeable(b) == b.customer_id = NoSuchId /\ OrderComplete(TrimOrder(b))

Rest(calls, n) == SubSeq(calls, n + 1, Len(calls))

\* n calls are done: the POST among them is answered, one that is not among
\* them is not, and was sent only if it is the next call.
At(r, calls, n) ==
  /\ todo[r] = Rest(calls, n)
  /\ \A j \in 1 .. Len(calls) : calls[j].verb = "POST" =>
       /\ j <= n => post[r] \in Answers
       /\ j > n => page[r] = {}
       /\ j > n + 1 => post[r] = "unsent"
  /\ kind[r] = "triggerError" /\ n >= 1 => Placeable(body[r])

Place(r) ==
  Open(r) => \E n \in 0 .. Len(Calls[kind[r]]) : At(r, Calls[kind[r]], n)

\* What the state of the POST says of its outcome.
Course(r) ==
  /\ post[r] # "unsent" => \E s \in Services : Posts(r, s)
  /\ post[r] \in {"unsent", "sent", "400"} => outcome[r] = {}
  /\ post[r] = "201" => \E o \in outcome[r] : o.ok = TRUE
  /\ post[r] = "422" => \E o \in outcome[r] : o.ok = FALSE
  /\ told[r] \notin {"", "error"} => post[r] \notin {"sent", "held"}

\* Which ids outcomes have.
Owns(r) ==
  \A o \in outcome[r] : \A s \in Services : Posts(r, s) => o.id \in Issued(s)

\* order-svc's goroutine and the POST that it serves.
Runs(r) ==
  /\ pc[r] # "idle" <=> post[r] = "held"
  /\ post[r] = "held" => Posts(r, "orders")
  /\ pc[r] \in InProgress => outcome[r] = {}
  /\ pc[r] = "201" => \E o \in outcome[r] : o.ok = TRUE
  /\ pc[r] = "422" => \E o \in outcome[r] : o.ok = FALSE

\* A page is read after the answer, hence from a store that has the record.
Shown(r) ==
  /\ page[r] # {} => post[r] \in Answers
  /\ \A s \in Services : Posts(r, s) =>
       \A o \in outcome[r] : \A ids \in page[r] :
         o.id \in DOMAIN Records(s) => o.id \in ids

Trigger(r) ==
  kind[r] = "triggerError" =>
    /\ post[r] # "unsent" => Placeable(body[r])
    /\ post[r] # "400"
    /\ told[r] = "200" => outcome[r] # {}

\* The verdict on an order follows its body from the draft to the record.
Judged(r) ==
  /\ pc[r] # "idle" => draft[r].customer_id = TrimSpace[body[r].customer_id]
  /\ Foreign(r) =>
       /\ pc[r] \notin {"product", "confirm", "201"}
       /\ \A o \in outcome[r] : o.ok = FALSE
  /\ ~Posts(r, "orders") => \A o \in outcome[r] : o.ok = TRUE

RequestInv(r) ==
  /\ Ends(r) /\ Place(r) /\ Course(r) /\ Owns(r) /\ Runs(r) /\ Shown(r)
  /\ Trigger(r) /\ Judged(r)

GatewayInv == ShopInv /\ RequestTypes /\ \A r \in Handlers : RequestInv(r)
-----------------------------------------------------------------------------
(* The calls of the handlers.                                              *)

\* Every handler makes at most one POST, and reads what it posts only after.
LEMMA CallShapes ==
  ASSUME NEW k \in Kinds, NEW calls, calls = Calls[k]
  PROVE  /\ calls \in Seq(Call)
         /\ \A i, j \in 1 .. Len(calls) :
              calls[i].verb = "POST" /\ calls[j].verb = "POST" => i = j
         /\ \A i, j \in 1 .. Len(calls) :
              /\ calls[i].verb = "POST" /\ calls[j].verb = "GET"
              /\ calls[i].to = calls[j].to
              => i < j
         /\ k \in Proxies => Len(calls) = 1 /\ calls[1].verb = "POST"
         /\ k = "triggerError" =>
              Len(calls) = 2 /\ calls[1] = List("products") /\ calls[2] = Post("orders")
<1> USE DEF Call, Services, Proxies, Calls, Post, List
<1>1. CASE k = "proxyCustomers"
  BY <1>1 DEF Proxy
<1>2. CASE k = "proxyProducts"
  BY <1>2 DEF Proxy
<1>3. CASE k = "proxyOrders"
  BY <1>3 DEF Proxy
<1>4. CASE k = "uiStats"
  BY <1>4 DEF FetchStats
<1>5. CASE k = "uiCustomers"
  BY <1>5 DEF UiCustomers
<1>6. CASE k = "uiProducts"
  BY <1>6 DEF UiProducts
<1>7. CASE k = "uiOrders"
  BY <1>7 DEF UiOrders
<1>8. CASE k = "uiCreateCustomer"
  BY <1>8 DEF UiCreateCustomer
<1>9. CASE k = "uiCreateProduct"
  BY <1>9 DEF UiCreateProduct
<1>10. CASE k = "uiCreateOrder"
  BY <1>10 DEF UiCreateOrder
<1>11. CASE k = "triggerError"
  BY <1>11 DEF TriggerError
<1> QED
  BY <1>1, <1>2, <1>3, <1>4, <1>5, <1>6, <1>7, <1>8, <1>9, <1>10, <1>11
  DEF Kinds

\* What is left after n calls.
LEMMA RestFacts ==
  ASSUME NEW calls \in Seq(Call), NEW n \in 0 .. Len(calls)
  PROVE  /\ Rest(calls, n) \in Seq(Call)
         /\ Rest(calls, 0) = calls
         /\ Rest(calls, n) = <<>> <=> n = Len(calls)
         /\ n < Len(calls) =>
              /\ Head(Rest(calls, n)) = calls[n + 1]
              /\ Tail(Rest(calls, n)) = Rest(calls, n + 1)
              /\ n + 1 \in 1 .. Len(calls) /\ n + 1 \in 0 .. Len(calls)
<1>1. Rest(calls, n) \in Seq(Call) /\ Len(Rest(calls, n)) = Len(calls) - n
  BY SubSeqProperties DEF Rest
<1>2. Rest(calls, 0) = calls
  BY SubSeqFull DEF Rest
<1>3. n = Len(calls) => Rest(calls, n) = <<>>
  BY SubSeqEmpty DEF Rest
<1>4. Rest(calls, n) = <<>> => n = Len(calls)
  <2>1. Len(<<>>) = 0 /\ Len(calls) \in Nat
    OBVIOUS
  <2> QED
    BY <1>1, <2>1
<1>5. ASSUME n < Len(calls)
      PROVE  /\ Head(Rest(calls, n)) = calls[n + 1]
             /\ Tail(Rest(calls, n)) = Rest(calls, n + 1)
             /\ n + 1 \in 1 .. Len(calls)
  <2>1. n + 1 \in 1 .. Len(calls) /\ Len(calls) \in n + 1 .. Len(calls)
    BY <1>5
  <2> QED
    BY <2>1, HeadTailOfSubSeq DEF Rest
<1> QED
  BY <1>1, <1>2, <1>3, <1>4, <1>5

LEMMA NextCall ==
  ASSUME RequestTypes, NEW r \in Handlers, Place(r), Open(r),
         NEW calls, calls = Calls[kind[r]]
  PROVE  \E n \in 0 .. Len(calls) :
           /\ kind[r] \in Kinds /\ calls \in Seq(Call)
           /\ At(r, calls, n)
           /\ todo[r] = <<>> => n = Len(calls)
           /\ todo[r] # <<>> =>
                /\ n + 1 \in 1 .. Len(calls) /\ n + 1 \in 0 .. Len(calls)
                /\ Head(todo[r]) = calls[n + 1]
                /\ Tail(todo[r]) = Rest(calls, n + 1)
<1>1. kind[r] \in Kinds
  BY DEF RequestTypes, Open
<1>2. calls \in Seq(Call)
  BY <1>1, CallShapes
<1>3. PICK n \in 0 .. Len(calls) : At(r, calls, n)
  BY DEF Place
<1>4. /\ todo[r] = <<>> => n = Len(calls)
      /\ n + 1 \in 0 .. Len(calls) => n < Len(calls)
      /\ todo[r] # <<>> => n < Len(calls)
  BY <1>2, <1>3, RestFacts DEF At
<1>5. n < Len(calls) =>
        /\ n + 1 \in 1 .. Len(calls) /\ n + 1 \in 0 .. Len(calls)
        /\ Head(todo[r]) = calls[n + 1]
        /\ Tail(todo[r]) = Rest(calls, n + 1)
  BY <1>2, <1>3, RestFacts DEF At
<1> QED
  BY <1>1, <1>2, <1>3, <1>4, <1>5

\* A call of a handler as the record it is.
LEMMA PostCalls ==
  ASSUME NEW calls \in Seq(Call), NEW i \in 1 .. Len(calls)
  PROVE  /\ calls[i].verb \in {"POST", "GET"} /\ calls[i].to \in Services
         /\ calls[i].verb = "POST" => calls[i] = Post(calls[i].to)
         /\ \A s : calls[i] = Post(s) => calls[i].verb = "POST" /\ calls[i].to = s
<1>1. calls[i] \in Call
  OBVIOUS
<1> QED
  BY <1>1 DEF Call, Post

-----------------------------------------------------------------------------
(* The services' side of every step.                                       *)

\* Ids are only added, and a record under an old id was there before.
Steady ==
  \A s \in Services :
    /\ Issued(s) \subseteq Issued(s)'
    /\ \A id \in Issued(s) : id \in DOMAIN Records(s)' => id \in DOMAIN Records(s)

\* A step of the gateway is one of the services, or accepts the order of a
\* request, or leaves the services as they are.
LEMMA ServicesStep ==
  ASSUME [GatewayNext]_gvars
  PROVE  \/ Next \/ UNCHANGED vars
         \/ \E r \in Handlers :
              AcceptOrder(r, body[r]) /\ UNCHANGED <<customerVars, productVars>>
<1>1. CASE UNCHANGED gvars
  BY <1>1 DEF gvars
<1>2. CASE GatewayStops \/ GatewayStarts
  BY <1>2 DEF GatewayStops, GatewayStarts
<1>3. CASE ServiceStep
  BY <1>3 DEF ServiceStep, Next
<1>4. ASSUME NEW r \in Handlers, Arrive(r) \/ GatewayStep(r) \/ Cut(r)
      PROVE  UNCHANGED vars
  BY <1>4
  DEF Arrive, GatewayStep, SendPost, PostAnswered, PostFails, Fetch, Reply, Cut,
      Fail502
<1>5. ASSUME NEW r \in Handlers, PostStep(r)
      PROVE  \/ Next \/ UNCHANGED vars
             \/ AcceptOrder(r, body[r]) /\ UNCHANGED <<customerVars, productVars>>
  <2>1. CASE PostCustomer(r)
    BY <2>1 DEF PostCustomer, Next, CustomersNext
  <2>2. CASE PostProduct(r)
    BY <2>2 DEF PostProduct, Next, ProductsNext
  <2>3. CASE PostOrder(r)
    BY <2>3 DEF PostOrder
  <2>4. CASE PostRefused(r)
    BY <2>4 DEF PostRefused
  <2>5. CASE PostRuns(r) \/ PostDecided(r) \/ PostEnds(r)
    BY <2>5 DEF PostRuns, PostDecided, PostEnds, Next, HandlerStep
  <2> QED
    BY <1>5, <2>1, <2>2, <2>3, <2>4, <2>5 DEF PostStep
<1> QED
  BY <1>1, <1>2, <1>3, <1>4, <1>5 DEF GatewayNext

LEMMA ShopSide ==
  ASSUME ShopInv, RequestTypes, [GatewayNext]_gvars
  PROVE  ShopInv' /\ Steady
<1>1. CASE Next
  <2>1. ShopInv'
    BY <1>1, ShopInvStep
  <2>2. /\ customersIssued \subseteq customersIssued'
        /\ productsIssued \subseteq productsIssued'
        /\ ordersIssued \subseteq ordersIssued'
    BY <1>1, IssuedGrow
  <2>3. /\ \A id \in customersIssued : id \in DOMAIN customers' => id \in DOMAIN customers
        /\ \A id \in productsIssued : id \in DOMAIN products' => id \in DOMAIN products
        /\ \A id \in ordersIssued : id \in DOMAIN orders' => id \in DOMAIN orders
    BY <1>1, OnlyFreshIdsAppear
  <2> QED
    BY <2>1, <2>2, <2>3 DEF Steady, Issued, Records, Services
<1>2. CASE UNCHANGED vars
  <2>1. ShopInv'
    BY <1>2, ShopInvStep
  <2> QED
    BY <1>2, <2>1
    DEF Steady, Issued, Records, Services, vars, customerVars, productVars, orderVars
<1>3. ASSUME NEW r \in Handlers, AcceptOrder(r, body[r]),
             UNCHANGED <<customerVars, productVars>>
      PROVE  ShopInv' /\ Steady
  <2>1. OrdersOK'
    BY <1>3, AcceptOK DEF ShopInv, RequestTypes
  <2>2. CustomersOK' /\ ProductsOK'
    BY <1>3, CustomersOKStep, ProductsOKStep DEF ShopInv
  <2>3. Steady
    BY <1>3
    DEF AcceptOrder, Steady, Issued, Records, Services, customerVars, productVars
  <2> QED
    BY <2>1, <2>2, <2>3 DEF ShopInv
<1> QED
  BY <1>1, <1>2, <1>3, ServicesStep

-----------------------------------------------------------------------------
(* What keeps the invariant of a request.                                  *)

\* The step does not concern q.
Still(q) ==
  /\ kind'[q] = kind[q] /\ todo'[q] = todo[q] /\ body'[q] = body[q]
  /\ post'[q] = post[q] /\ page'[q] = page[q] /\ outcome'[q] = outcome[q]
  /\ told'[q] = told[q] /\ pc'[q] = pc[q]
  /\ pc[q] # "idle" => draft'[q] = draft[q]

LEMMA PostsKept ==
  ASSUME NEW r \in Handlers, kind'[r] = kind[r]
  PROVE  \A s : Posts(r, s)' <=> Posts(r, s)
BY DEF Posts

\* A request posts to one service only.
LEMMA OnePost ==
  ASSUME RequestTypes, NEW r \in Handlers, NEW s, NEW t, Posts(r, s), Posts(r, t)
  PROVE  s = t
<1> DEFINE calls == Calls[kind[r]]
<1>1. kind[r] \in Kinds
  BY DEF RequestTypes, Posts
<1>2. calls \in Seq(Call)
  BY <1>1, CallShapes
<1>3. PICK i \in 1 .. Len(calls) : calls[i] = Post(s)
  BY <1>2 DEF Posts
<1>4. PICK j \in 1 .. Len(calls) : calls[j] = Post(t)
  BY <1>2 DEF Posts
<1> HIDE DEF calls
<1>5. i = j
  BY <1>1, <1>2, <1>3, <1>4, PostCalls, CallShapes DEF calls
<1> QED
  BY <1>2, <1>3, <1>4, <1>5, PostCalls

\* The records of others may come and go.
LEMMA OutcomeKept ==
  ASSUME Steady, NEW r \in Handlers, Owns(r), Shown(r),
         kind'[r] = kind[r], outcome'[r] = outcome[r],
         page'[r] \in {page[r], {}},
         page'[r] # {} => post'[r] = post[r]
  PROVE  Owns(r)' /\ Shown(r)'
<1>1. \A s : Posts(r, s)' <=> Posts(r, s)
  BY PostsKept
<1>2. Owns(r)'
  BY <1>1 DEF Owns, Steady
<1>3. page'[r] # {} => page'[r] = page[r] /\ post'[r] \in Answers
  BY DEF Shown
<1>4. ASSUME NEW s \in Services, Posts(r, s)', NEW o \in outcome'[r],
             NEW ids \in page'[r], o.id \in DOMAIN Records(s)'
      PROVE  o.id \in ids
  <2>1. Posts(r, s) /\ o \in outcome[r] /\ ids \in page[r]
    BY <1>1, <1>3, <1>4
  <2>2. o.id \in Issued(s)
    BY <2>1 DEF Owns
  <2>3. o.id \in DOMAIN Records(s)
    BY <1>4, <2>2 DEF Steady
  <2> QED
    BY <2>1, <2>3 DEF Shown
<1> QED
  BY <1>2, <1>3, <1>4 DEF Shown

LEMMA JudgedKept ==
  ASSUME NEW r \in Handlers, Judged(r), kind'[r] = kind[r], body'[r] = body[r],
         outcome'[r] = outcome[r], pc'[r] \in {pc[r], "idle"},
         pc'[r] # "idle" => draft'[r] = draft[r]
  PROVE  Judged(r)'
BY PostsKept DEF Judged, Foreign

LEMMA StillKept ==
  ASSUME Steady, NEW q \in Handlers, RequestInv(q), Still(q)
  PROVE  RequestInv(q)'
<1> USE DEF RequestInv, Still
<1>1. \A s : Posts(q, s)' <=> Posts(q, s)
  BY PostsKept
<1>2. Owns(q)' /\ Shown(q)'
  BY OutcomeKept
<1>3. Ends(q)' /\ Trigger(q)'
  BY DEF Ends, Trigger
<1>4. Place(q)'
  BY DEF Place, Open, At
<1>5. Course(q)' /\ Runs(q)'
  BY <1>1 DEF Course, Runs
<1>6. Judged(q)'
  BY JudgedKept
<1> QED
  BY <1>2, <1>3, <1>4, <1>5, <1>6

LEMMA OneRequest ==
  ASSUME GatewayInv, ShopInv', Steady, RequestTypes', NEW r \in Handlers,
         RequestInv(r)', \A q \in Handlers \ {r} : Still(q)
  PROVE  GatewayInv'
BY StillKept DEF GatewayInv

-----------------------------------------------------------------------------
(* The gateway's side of a request.                                        *)

\* Steps of the gateway leave the POSTs to the services.
LEMMA ServedKept ==
  ASSUME NEW r \in Handlers, Course(r), Runs(r),
         kind'[r] = kind[r], post'[r] = post[r], outcome'[r] = outcome[r],
         pc'[r] = pc[r],
         told'[r] \notin {"", "error"} => post[r] \notin {"sent", "held"}
  PROVE  Course(r)' /\ Runs(r)'
<1>1. \A s : Posts(r, s)' <=> Posts(r, s)
  BY PostsKept
<1> QED
  BY <1>1 DEF Course, Runs

LEMMA FormOrderType ==
  ASSUME NEW c \in Text, NEW p \in Text, NEW n \in Int64
  PROVE  FormOrder(c, p, n) \in Order
BY ZeroFacts DEF FormOrder, Order

LEMMA Parts ==
  ASSUME GatewayInv, NEW r \in Handlers
  PROVE  /\ ShopInv /\ RequestTypes
         /\ Ends(r) /\ Place(r) /\ Course(r) /\ Owns(r) /\ Runs(r) /\ Shown(r)
         /\ Trigger(r) /\ Judged(r)
BY DEF GatewayInv, RequestInv

LEMMA ArriveStep ==
  ASSUME GatewayInv, ShopInv', Steady, NEW r \in Handlers, Arrive(r)
  PROVE  GatewayInv'
<1>1. PICK k \in Routes[r] : \E b \in Bodies(k) :
        /\ kind' = [kind EXCEPT ![r] = k]
        /\ todo' = [todo EXCEPT ![r] = Calls[k]]
        /\ body' = [body EXCEPT ![r] = b]
  BY DEF Arrive
<1>2. PICK b \in Bodies(k) :
        /\ kind' = [kind EXCEPT ![r] = k]
        /\ todo' = [todo EXCEPT ![r] = Calls[k]]
        /\ body' = [body EXCEPT ![r] = b]
  BY <1>1
<1>3. /\ kind[r] = "none" /\ post' = post /\ page' = page /\ outcome' = outcome
      /\ told' = told /\ gatewayUp' = gatewayUp /\ pc' = pc /\ draft' = draft
      /\ UNCHANGED vars
  BY DEF Arrive, vars, orderVars
<1>4. k \in Kinds /\ k # "none"
  BY DEF Kinds, Calls
<1>5. b \in Order
  BY <1>2, FormOrderType, ZeroFacts, OrderBodiesAssumption
  DEF Bodies, KnownBodies, Order
<1>6. Calls[k] \in Seq(Call)
  BY <1>4, CallShapes
<1>7. RequestTypes'
  BY <1>2, <1>3, <1>4, <1>5, <1>6, Parts DEF RequestTypes
<1>8. /\ kind'[r] = k /\ todo'[r] = Calls[k] /\ post'[r] = "unsent"
      /\ page'[r] = {} /\ outcome'[r] = {} /\ told'[r] = "" /\ pc'[r] = "idle"
  BY <1>2, <1>3, Parts DEF RequestTypes, Ends, Runs
<1>9. Place(r)'
  <2>1. Rest(Calls[k], 0) = Calls[k] /\ 0 \in 0 .. Len(Calls[k])
    BY <1>6, RestFacts
  <2>2. \A j \in 1 .. Len(Calls[k]) : ~(j <= 0)
    BY <2>1
  <2>3. At(r, Calls[kind[r]], 0)'
    <3>1. todo'[r] = Rest(Calls[kind'[r]], 0)
      BY <1>8, <2>1
    <3>2. \A j \in 1 .. Len(Calls[kind'[r]]) : ~(j <= 0)
      BY <1>8, <2>2
    <3>3. ~(0 >= 1)
      OBVIOUS
    <3> QED
      BY <1>8, <3>1, <3>2, <3>3 DEF At
  <2> QED
    BY <1>8, <2>1, <2>3 DEF Place
<1>10. Ends(r)' /\ Course(r)' /\ Owns(r)' /\ Runs(r)' /\ Shown(r)' /\ Trigger(r)'
      /\ Judged(r)'
  BY <1>4, <1>8 DEF Ends, Course, Owns, Runs, Shown, InProgress, PC, Trigger, Judged
<1>11. \A q \in Handlers \ {r} : Still(q)
  BY <1>2, <1>3, Parts DEF RequestTypes, Still
<1> QED
  BY <1>7, <1>9, <1>10, <1>11, OneRequest DEF RequestInv

LEMMA SendPostStep ==
  ASSUME GatewayInv, ShopInv', Steady, NEW r \in Handlers, SendPost(r)
  PROVE  GatewayInv'
<1> DEFINE calls == Calls[kind[r]]
<1>1. /\ Open(r) /\ todo[r] # <<>> /\ Head(todo[r]).verb = "POST"
      /\ post[r] = "unsent" /\ post' = [post EXCEPT ![r] = "sent"]
      /\ kind' = kind /\ todo' = todo /\ body' = body /\ page' = page
      /\ outcome' = outcome /\ told' = told /\ gatewayUp' = gatewayUp
      /\ pc' = pc /\ draft' = draft
  BY DEF SendPost, Calling, vars, orderVars
<1>2. PICK n \in 0 .. Len(calls) :
        /\ kind[r] \in Kinds /\ calls \in Seq(Call)
        /\ At(r, calls, n)
        /\ n + 1 \in 1 .. Len(calls)
        /\ Head(todo[r]) = calls[n + 1]
  BY <1>1, NextCall, Parts
<1>3. RequestTypes'
  BY <1>1, Parts DEF RequestTypes, PostState
<1>4. post'[r] = "sent"
  BY <1>1, Parts DEF RequestTypes
<1>5. \E s \in Services : Posts(r, s)
  <2>1. /\ n + 1 \in DOMAIN calls /\ calls[n + 1] = Post(calls[n + 1].to)
        /\ calls[n + 1].to \in Services
    BY <1>1, <1>2, PostCalls
  <2> QED
    BY <1>1, <2>1 DEF Posts, Open
<1>6. Place(r)'
  <2>1. \A j \in 1 .. Len(calls) : calls[j].verb = "POST" => j = n + 1
    BY <1>1, <1>2, CallShapes
  <2>2. At(r, calls, n)'
    BY <1>1, <1>2, <2>1 DEF At
  <2> QED
    BY <1>1, <2>2 DEF Place
<1>7. Ends(r)' /\ Course(r)' /\ Runs(r)' /\ Judged(r)'
  <2>1. Judged(r)'
    BY <1>1, JudgedKept, Parts
  <2> QED
    BY <1>1, <1>4, <1>5, <2>1, PostsKept, Parts DEF Ends, Course, Runs, Open
<1>8. Owns(r)' /\ Shown(r)'
  BY <1>1, OutcomeKept, Parts DEF Shown, Answers
<1>9. Trigger(r)'
  <2>1. kind[r] = "triggerError" => n >= 1
    BY <1>1, <1>2, CallShapes DEF List
  <2> QED
    BY <1>1, <1>2, <1>4, <2>1, Parts DEF Trigger, At
<1>10. \A q \in Handlers \ {r} : Still(q)
  BY <1>1, Parts DEF RequestTypes, Still
<1> QED
  BY <1>3, <1>6, <1>7, <1>8, <1>9, <1>10, OneRequest DEF RequestInv

LEMMA PostAnsweredStep ==
  ASSUME GatewayInv, ShopInv', Steady, NEW r \in Handlers, PostAnswered(r)
  PROVE  GatewayInv'
<1> DEFINE calls == Calls[kind[r]]
<1>1. /\ Open(r) /\ todo[r] # <<>> /\ Head(todo[r]).verb = "POST"
      /\ post[r] \in Answers /\ todo' = [todo EXCEPT ![r] = Tail(todo[r])]
      /\ kind' = kind /\ post' = post /\ body' = body /\ page' = page
      /\ outcome' = outcome /\ told' = told /\ gatewayUp' = gatewayUp
      /\ pc' = pc /\ draft' = draft
  BY DEF PostAnswered, Calling, vars, orderVars, Answers
<1>2. PICK n \in 0 .. Len(calls) :
        /\ kind[r] \in Kinds /\ calls \in Seq(Call)
        /\ At(r, calls, n)
        /\ n + 1 \in 1 .. Len(calls) /\ n + 1 \in 0 .. Len(calls)
        /\ Head(todo[r]) = calls[n + 1]
        /\ Tail(todo[r]) = Rest(calls, n + 1)
  BY <1>1, NextCall, Parts
<1>3. todo'[r] = Rest(calls, n + 1) /\ Rest(calls, n + 1) \in Seq(Call)
  BY <1>1, <1>2, RestFacts, Parts DEF RequestTypes
<1>4. RequestTypes'
  BY <1>1, <1>2, <1>3, Parts DEF RequestTypes
<1>5. Place(r)'
  <2>1. \A j \in 1 .. Len(calls) : calls[j].verb = "POST" => j = n + 1
    BY <1>1, <1>2, CallShapes
  <2>2. kind[r] = "triggerError" => n >= 1
    BY <1>1, <1>2, CallShapes DEF List
  <2>3. At(r, calls, n + 1)'
    <3>1. ~(n + 1 > n + 1) /\ ~(n + 1 > n + 1 + 1)
      BY <1>2
    <3> QED
      BY <1>1, <1>2, <1>3, <2>1, <2>2, <3>1 DEF At
  <2> QED
    BY <1>1, <1>2, <2>3 DEF Place
<1>6. Ends(r)' /\ Trigger(r)'
  BY <1>1, Parts DEF Ends, Trigger, Open
<1>7. Owns(r)' /\ Shown(r)' /\ Course(r)' /\ Runs(r)' /\ Judged(r)'
  BY <1>1, OutcomeKept, ServedKept, JudgedKept, Parts DEF Open
<1>8. \A q \in Handlers \ {r} : Still(q)
  BY <1>1, Parts DEF RequestTypes, Still
<1> QED
  BY <1>4, <1>5, <1>6, <1>7, <1>8, OneRequest DEF RequestInv

\* A request that ends with an error leaves its POST to the service.
LEMMA FailStep ==
  ASSUME GatewayInv, ShopInv', Steady, NEW r \in Handlers,
         Open(r) /\ Fail502(r)
  PROVE  GatewayInv'
<1>1. /\ kind[r] # "none" /\ told' = [told EXCEPT ![r] = "error"]
      /\ todo' = [todo EXCEPT ![r] = <<>>] /\ page' = [page EXCEPT ![r] = {}]
      /\ kind' = kind /\ post' = post /\ body' = body
      /\ outcome' = outcome /\ gatewayUp' = gatewayUp /\ pc' = pc /\ draft' = draft
  BY DEF Fail502, Open, vars, orderVars
<1>2. RequestTypes'
  <2>1. "error" \in Placed!Code /\ <<>> \in Seq(Call)
    BY DEF Placed!Code
  <2> QED
    BY <1>1, <2>1, Parts DEF RequestTypes
<1>3. told'[r] = "error" /\ todo'[r] = <<>> /\ page'[r] = {}
  BY <1>1, Parts DEF RequestTypes
<1>4. Ends(r)' /\ Trigger(r)' /\ Place(r)'
  BY <1>1, <1>3, Parts DEF Ends, Trigger, Place, Open
<1>5. Owns(r)' /\ Shown(r)' /\ Course(r)' /\ Runs(r)' /\ Judged(r)'
  BY <1>1, <1>3, OutcomeKept, ServedKept, JudgedKept, Parts
<1>6. \A q \in Handlers \ {r} : Still(q)
  BY <1>1, Parts DEF RequestTypes, Still
<1> QED
  BY <1>2, <1>4, <1>5, <1>6, OneRequest DEF RequestInv

\* Whatever the list of products was, triggerError posts a complete order.
LEMMA TriggerBody ==
  ASSUME ShopInv, NEW found \in Fetched("products"), NEW b \in TriggerBodies(found)
  PROVE  b \in Order /\ Placeable(b)
<1>1. PICK p \in IF UNION found = {} THEN {NoSuchId} ELSE UNION found :
        b = FormOrder(NoSuchId, p, 1)
  BY DEF TriggerBodies
<1>2. UNION found \subseteq ProductIds
  BY DEF Fetched, Records, ShopInv, ProductsOK, ProductsTypeOK
<1>3. p \in Text /\ TrimSpace[p] = p /\ p # Empty
  BY <1>1, <1>2, DomainAssumption DEF Trimmed
<1>4. 1 \in Int64
  BY DomainAssumption DEF Int64
<1>5. b \in Order
  BY <1>1, <1>3, <1>4, FormOrderType
<1>6. b.customer_id = NoSuchId /\ b.product_id = p /\ b.quantity = 1
  BY <1>1 DEF FormOrder, ZeroOrder
<1>7. /\ TrimOrder(b).customer_id = NoSuchId /\ TrimOrder(b).product_id = p
      /\ TrimOrder(b).quantity = 1
  BY <1>3, <1>5, <1>6 DEF TrimOrder, Order
<1> QED
  BY <1>3, <1>5, <1>6, <1>7 DEF Placeable, OrderComplete

LEMMA FetchStep ==
  ASSUME GatewayInv, ShopInv', Steady, NEW r \in Handlers, Fetch(r)
  PROVE  GatewayInv'
<1> DEFINE calls == Calls[kind[r]]
<1>1. /\ Open(r) /\ todo[r] # <<>> /\ Head(todo[r]).verb = "GET"
      /\ todo' = [todo EXCEPT ![r] = Tail(todo[r])]
      /\ kind' = kind /\ post' = post /\ outcome' = outcome /\ told' = told
      /\ gatewayUp' = gatewayUp /\ pc' = pc /\ draft' = draft
  BY DEF Fetch, Calling, vars, orderVars
<1>2. PICK n \in 0 .. Len(calls) :
        /\ kind[r] \in Kinds /\ calls \in Seq(Call)
        /\ At(r, calls, n)
        /\ n + 1 \in 1 .. Len(calls) /\ n + 1 \in 0 .. Len(calls)
        /\ Head(todo[r]) = calls[n + 1]
        /\ Tail(todo[r]) = Rest(calls, n + 1)
  BY <1>1, NextCall, Parts
<1>0. PICK service \in Services : service = calls[n + 1].to
  BY <1>2, PostCalls
<1>3. PICK found \in Fetched(service) :
        /\ page' = IF Posts(r, service) THEN [page EXCEPT ![r] = found] ELSE page
        /\ \E b \in IF kind[r] = "triggerError" THEN TriggerBodies(found)
                                                ELSE {body[r]} :
             body' = [body EXCEPT ![r] = b]
  BY <1>0, <1>2 DEF Fetch
<1>4. PICK b \in IF kind[r] = "triggerError" THEN TriggerBodies(found)
                                             ELSE {body[r]} :
        body' = [body EXCEPT ![r] = b]
  BY <1>3
<1>5. kind[r] = "triggerError" => n = 0 /\ service = "products"
  BY <1>0, <1>1, <1>2, CallShapes DEF List, Post
<1>6. b \in Order /\ (kind[r] = "triggerError" => Placeable(b))
  BY <1>4, <1>5, TriggerBody, Parts DEF RequestTypes
<1>7. todo'[r] = Rest(calls, n + 1) /\ Rest(calls, n + 1) \in Seq(Call)
  BY <1>1, <1>2, RestFacts, Parts DEF RequestTypes
<1>8. RequestTypes'
  BY <1>1, <1>2, <1>3, <1>4, <1>6, <1>7, Parts DEF RequestTypes
\* What is read for the page was posted, and answered, before.
<1>9. Posts(r, service) =>
        /\ post[r] \in Answers
        /\ \A j \in 1 .. Len(calls) : calls[j].verb = "POST" => j < n + 1
  <2> SUFFICES ASSUME Posts(r, service)
               PROVE  /\ post[r] \in Answers
                      /\ \A j \in 1 .. Len(calls) : calls[j].verb = "POST" => j < n + 1
    OBVIOUS
  <2>1. PICK i \in 1 .. Len(calls) : calls[i] = Post(service)
    BY <1>2 DEF Posts
  <2>2. calls[i].verb = "POST" /\ calls[i].to = service
    BY <1>2, <2>1, PostCalls
  <2>3. i < n + 1
    BY <1>0, <1>1, <1>2, <2>2, CallShapes
  <2>4. \A j \in 1 .. Len(calls) : calls[j].verb = "POST" => j = i
    BY <1>2, <2>2, CallShapes
  <2>5. i <= n
    BY <1>2, <2>3
  <2> QED
    BY <1>2, <2>2, <2>3, <2>4, <2>5 DEF At
<1>10. Place(r)'
  <2>1. \A j \in 1 .. Len(calls) : calls[j].verb = "POST" =>
          /\ j <= n + 1 => post[r] \in Answers
          /\ j > n + 1 => page[r] = {} /\ ~Posts(r, service)
          /\ j > n + 1 + 1 => post[r] = "unsent"
    <3> SUFFICES ASSUME NEW j \in 1 .. Len(calls), calls[j].verb = "POST"
                 PROVE  /\ j <= n + 1 => post[r] \in Answers
                        /\ j > n + 1 => page[r] = {} /\ ~Posts(r, service)
                        /\ j > n + 1 + 1 => post[r] = "unsent"
      OBVIOUS
    <3>1. j # n + 1
      BY <1>1, <1>2
    <3>2. /\ j <= n + 1 => j <= n
          /\ j > n + 1 => j > n /\ ~(j < n + 1)
          /\ j > n + 1 + 1 => j > n + 1
      BY <1>2, <3>1
    <3> QED
      BY <1>2, <1>9, <3>2 DEF At
  <2>2. page'[r] = IF Posts(r, service) THEN found ELSE page[r]
    BY <1>3, Parts DEF RequestTypes
  <2>3. body'[r] = b
    BY <1>4, Parts DEF RequestTypes
  <2>4. At(r, calls, n + 1)'
    BY <1>1, <1>6, <1>7, <2>1, <2>2, <2>3 DEF At
  <2> QED
    BY <1>1, <1>2, <2>4 DEF Place
<1>11. Ends(r)' /\ Trigger(r)'
  <2>1. body'[r] = b
    BY <1>4, Parts DEF RequestTypes
  <2> QED
    BY <1>1, <1>6, <2>1, Parts DEF Ends, Trigger, Open
<1>12. Course(r)' /\ Runs(r)'
  BY <1>1, ServedKept, Parts DEF Open
<1>13. Owns(r)' /\ Shown(r)'
  <2>1. CASE ~Posts(r, service)
    BY <1>1, <1>3, <2>1, OutcomeKept, Parts
  <2>2. CASE Posts(r, service)
    <3>1. page'[r] = found
      BY <1>3, <2>2, Parts DEF RequestTypes
    <3>2. Owns(r)'
      BY <1>1, PostsKept, Parts DEF Owns, Steady
    <3>3. \A s : Posts(r, s)' => s = service
      BY <1>1, <2>2, PostsKept, OnePost, Parts
    <3>4. \A ids \in found : ids = DOMAIN Records(service)'
      <4>1. customers' = customers /\ products' = products /\ orders' = orders
        BY DEF Fetch, vars, customerVars, productVars, orderVars
      <4>2. Records(service)' = Records(service)
        BY <4>1 DEF Records
      <4>3. found \subseteq {DOMAIN Records(service)}
        BY <1>3 DEF Fetched
      <4> QED
        BY <4>2, <4>3
    <3>5. Shown(r)'
      <4>1. ASSUME NEW s \in Services, Posts(r, s)', NEW o \in outcome'[r],
                   NEW ids \in page'[r], o.id \in DOMAIN Records(s)'
            PROVE  o.id \in ids
        BY <3>1, <3>3, <3>4, <4>1
      <4>2. post'[r] \in Answers
        BY <1>1, <1>9, <2>2
      <4> QED
        BY <4>1, <4>2 DEF Shown
    <3> QED
      BY <3>2, <3>5
  <2> QED
    BY <2>1, <2>2
\* triggerError changes its order only before it posts it.
<1>14. Judged(r)'
  <2>1. CASE kind[r] = "triggerError"
    <3>1. post[r] = "unsent"
      BY <1>2, <1>5, <2>1, CallShapes DEF At, Post
    <3>2. pc'[r] = "idle" /\ outcome'[r] = {}
      BY <1>1, <3>1, Parts DEF Runs, Course
    <3> QED
      BY <3>2 DEF Judged
  <2>2. CASE kind[r] # "triggerError"
    <3>1. body'[r] = body[r]
      BY <1>4, <2>2, Parts DEF RequestTypes
    <3> QED
      BY <1>1, <3>1, JudgedKept, Parts
  <2> QED
    BY <2>1, <2>2
<1>15. \A q \in Handlers \ {r} : Still(q)
  BY <1>1, <1>3, <1>4, Parts DEF RequestTypes, Still
<1> QED
  BY <1>8, <1>10, <1>11, <1>12, <1>13, <1>14, <1>15, OneRequest DEF RequestInv

\* A handler that has made all its calls has the answer to its POST.
LEMMA CallsMade ==
  ASSUME RequestTypes, NEW r \in Handlers, Place(r), Open(r), todo[r] = <<>>
  PROVE  /\ \A s : Posts(r, s) => post[r] \in Answers
         /\ kind[r] \in Proxies \cup {"triggerError"} => post[r] \in Answers
<1> DEFINE calls == Calls[kind[r]]
<1>1. kind[r] \in Kinds /\ calls \in Seq(Call) /\ At(r, calls, Len(calls))
  BY NextCall
<1>2. \A j \in 1 .. Len(calls) : calls[j].verb = "POST" => post[r] \in Answers
  BY <1>1 DEF At
<1>3. \A s : Posts(r, s) => \E j \in 1 .. Len(calls) : calls[j].verb = "POST"
  BY <1>1, PostCalls DEF Posts
<1>4. kind[r] \in Proxies \cup {"triggerError"} =>
        \E j \in 1 .. Len(calls) : calls[j].verb = "POST"
  BY <1>1, CallShapes DEF Post
<1> QED
  BY <1>2, <1>3, <1>4

LEMMA ReplyStep ==
  ASSUME GatewayInv, ShopInv', Steady, NEW r \in Handlers, Reply(r)
  PROVE  GatewayInv'
<1>1. /\ Open(r) /\ kind[r] # "none" /\ todo[r] = <<>>
      /\ told' = [told EXCEPT ![r] = ReplyStatus(r)]
      /\ page' = [page EXCEPT ![r] = {}]
      /\ kind' = kind /\ todo' = todo /\ post' = post /\ body' = body
      /\ outcome' = outcome /\ gatewayUp' = gatewayUp /\ pc' = pc /\ draft' = draft
  BY DEF Reply, Open, vars, orderVars
<1>2. /\ \A s : Posts(r, s) => post[r] \in Answers
      /\ kind[r] \in Proxies \cup {"triggerError"} => post[r] \in Answers
  BY <1>1, CallsMade, Parts
<1>3. ReplyStatus(r) \in Placed!Code \ {"error"}
  BY <1>2 DEF ReplyStatus, Answers, Placed!Code
<1>4. told'[r] = ReplyStatus(r) /\ told'[r] # "" /\ page'[r] = {}
  BY <1>1, <1>3, Parts DEF RequestTypes, Placed!Code
<1>5. RequestTypes'
  BY <1>1, <1>3, Parts DEF RequestTypes
<1>6. Ends(r)' /\ Place(r)'
  BY <1>1, <1>4 DEF Ends, Place, Open
<1>7. Owns(r)' /\ Shown(r)' /\ Judged(r)'
  BY <1>1, <1>4, OutcomeKept, JudgedKept, Parts
<1>8. Course(r)' /\ Runs(r)'
  <2>1. post[r] \notin {"sent", "held"}
    BY <1>2, Parts DEF Course, Answers
  <2> QED
    BY <1>1, <2>1, ServedKept, Parts
<1>9. Trigger(r)'
  <2>1. kind[r] = "triggerError" => outcome[r] # {}
    BY <1>2, Parts DEF Answers, Course, Trigger
  <2> QED
    BY <1>1, <2>1, Parts DEF Trigger
<1>10. \A q \in Handlers \ {r} : Still(q)
  BY <1>1, Parts DEF RequestTypes, Still
<1> QED
  BY <1>5, <1>6, <1>7, <1>8, <1>9, <1>10, OneRequest DEF RequestInv

-----------------------------------------------------------------------------
(* The services' side of a request: a POST under way takes its course.     *)

\* A POST that is with its service is the handler's next call, whatever
\* becomes of it.
LEMMA PlaceServed ==
  ASSUME RequestTypes, NEW r \in Handlers, Place(r), Shown(r),
         post[r] \in {"sent", "held"},
         kind'[r] = kind[r], todo'[r] = todo[r], told'[r] = told[r],
         body'[r] = body[r], page'[r] = page[r]
  PROVE  Place(r)' /\ page'[r] = {}
<1> DEFINE calls == Calls[kind[r]]
<1>1. page[r] = {}
  BY DEF Shown, Answers
<1>2. ASSUME Open(r) PROVE \E n \in 0 .. Len(calls) : At(r, calls, n)'
  <2>1. PICK n \in 0 .. Len(calls) : At(r, calls, n)
    BY <1>2 DEF Place
  <2>2. \A j \in 1 .. Len(calls) :
          calls[j].verb = "POST" => ~(j <= n) /\ ~(j > n + 1)
    BY <2>1 DEF At, Answers
  <2>3. At(r, calls, n)'
    BY <1>1, <2>1, <2>2 DEF At
  <2> QED
    BY <2>3
<1> QED
  BY <1>1, <1>2 DEF Place, Open

LEMMA TriggerPosts ==
  ASSUME NEW r \in Handlers, kind[r] = "triggerError"
  PROVE  \A s : Posts(r, s) => s = "orders"
<1>1. kind[r] \in Kinds
  BY DEF Kinds, Calls
<1> QED
  BY <1>1, CallShapes DEF Posts, Post, List

\* What concerns neither the POST nor its outcome.
Elsewhere ==
  /\ kind' = kind /\ todo' = todo /\ body' = body /\ page' = page /\ told' = told
  /\ gatewayUp' = gatewayUp

\* customer-svc and product-svc answer as soon as they have the record.
LEMMA CreatedStep ==
  ASSUME GatewayInv, ShopInv', Steady, NEW r \in Handlers,
         NEW s \in {"customers", "products"}, Posts(r, s), post[r] = "sent",
         NEW id \in CustomerIds \cup ProductIds \cup OrderIds, id \in Issued(s)',
         Elsewhere, pc' = pc, draft' = draft,
         outcome' = [outcome EXCEPT ![r] = {[id |-> id, ok |-> TRUE]}],
         post' = [post EXCEPT ![r] = "201"]
  PROVE  GatewayInv'
<1> USE DEF Elsewhere
<1> DEFINE o == [id |-> id, ok |-> TRUE]
<1>1. o \in Placed!Outcome /\ o.id = id /\ o.ok = TRUE
  BY DEF Placed!Outcome
<1> HIDE DEF o
<1>2. outcome' = [outcome EXCEPT ![r] = {o}]
  BY DEF o
<1>3. RequestTypes'
  <2>1. {o} \in SUBSET Placed!Outcome /\ "201" \in PostState
    BY <1>1 DEF PostState
  <2> QED
    BY <1>2, <2>1, Parts DEF RequestTypes
<1>4. outcome'[r] = {o} /\ post'[r] = "201" /\ pc'[r] = "idle"
  BY <1>2, Parts DEF RequestTypes, Runs
<1>5. Place(r)' /\ page'[r] = {}
  BY PlaceServed, Parts
<1>6. \A t : Posts(r, t)' => t = s
  BY PostsKept, OnePost, Parts
<1>7. kind[r] # "none" /\ kind[r] # "triggerError"
  BY TriggerPosts DEF Posts
<1>8. Ends(r)' /\ Trigger(r)' /\ Judged(r)'
  <2>1. ~Posts(r, "orders")'
    BY <1>6
  <2> QED
    BY <1>1, <1>4, <1>7, <2>1, Parts DEF Ends, Trigger, Judged, Foreign
<1>9. Course(r)' /\ Runs(r)'
  <2>1. \E t \in Services : Posts(r, t)'
    BY PostsKept DEF Services
  <2> QED
    BY <1>1, <1>4, <2>1 DEF Course, Runs, InProgress
<1>10. Owns(r)' /\ Shown(r)'
  BY <1>1, <1>4, <1>5, <1>6 DEF Owns, Shown
<1>11. \A q \in Handlers \ {r} : Still(q)
  BY <1>2, Parts DEF RequestTypes, Still
<1> QED
  BY <1>3, <1>5, <1>8, <1>9, <1>10, <1>11, OneRequest DEF RequestInv

LEMMA PostCustomerStep ==
  ASSUME GatewayInv, ShopInv', Steady, NEW r \in Handlers, PostCustomer(r)
  PROVE  GatewayInv'
<1>1. PICK id \in customersIssued' \ customersIssued :
        outcome' = [outcome EXCEPT ![r] = {[id |-> id, ok |-> TRUE]}]
  BY DEF PostCustomer, Created
<1>2. id \in CustomerIds
  BY DEF ShopInv, CustomersOK, CustomersTypeOK
<1>3. id \in Issued("customers")'
  BY DEF Issued
<1>4. /\ Posts(r, "customers") /\ post[r] = "sent"
      /\ Elsewhere /\ pc' = pc /\ draft' = draft
      /\ post' = [post EXCEPT ![r] = "201"]
  BY DEF PostCustomer, Sent, PostBecomes, Elsewhere, orderVars
<1> QED
  BY <1>1, <1>2, <1>3, <1>4, CreatedStep

LEMMA PostProductStep ==
  ASSUME GatewayInv, ShopInv', Steady, NEW r \in Handlers, PostProduct(r)
  PROVE  GatewayInv'
<1>1. PICK id \in productsIssued' \ productsIssued :
        outcome' = [outcome EXCEPT ![r] = {[id |-> id, ok |-> TRUE]}]
  BY DEF PostProduct, Created
<1>2. id \in ProductIds
  BY DEF ShopInv, ProductsOK, ProductsTypeOK
<1>3. id \in Issued("products")'
  BY DEF Issued
<1>4. /\ Posts(r, "products") /\ post[r] = "sent"
      /\ Elsewhere /\ pc' = pc /\ draft' = draft
      /\ post' = [post EXCEPT ![r] = "201"]
  BY DEF PostProduct, Sent, PostBecomes, Elsewhere, orderVars
<1> QED
  BY <1>1, <1>2, <1>3, <1>4, CreatedStep

\* order-svc's handler begins to work on the order.
LEMMA PostOrderStep ==
  ASSUME GatewayInv, ShopInv', Steady, NEW r \in Handlers, PostOrder(r)
  PROVE  GatewayInv'
<1> USE DEF Elsewhere
<1>1. /\ Posts(r, "orders") /\ post[r] = "sent" /\ Elsewhere
      /\ outcome' = outcome /\ post' = [post EXCEPT ![r] = "held"]
      /\ pc' = [pc EXCEPT ![r] = "customer"]
      /\ draft' = [draft EXCEPT ![r] = TrimOrder(body[r])]
  BY DEF PostOrder, Sent, PostBecomes, AcceptOrder
<1>2. RequestTypes'
  BY <1>1, Parts DEF RequestTypes, PostState
<1>3. /\ post'[r] = "held" /\ pc'[r] = "customer"
      /\ draft'[r] = TrimOrder(body[r]) /\ body[r] \in Order
  BY <1>1, Parts DEF RequestTypes, ShopInv, OrdersOK, OrdersTypeOK
<1>4. Place(r)' /\ page'[r] = {}
  BY <1>1, PlaceServed, Parts
<1>5. kind[r] # "none"
  BY <1>1 DEF Posts
<1>6. Ends(r)'
  BY <1>1, <1>5, Parts DEF Ends
<1>7. outcome[r] = {} /\ told[r] \in {"", "error"}
  BY <1>1, Parts DEF Course
<1>8. Course(r)' /\ Runs(r)'
  <2>1. Posts(r, "orders")' /\ "orders" \in Services
    BY <1>1, PostsKept DEF Services
  <2> QED
    BY <1>1, <1>3, <1>7, <2>1 DEF Course, Runs
<1>9. Owns(r)' /\ Shown(r)'
  BY <1>1, <1>4, <1>7 DEF Owns, Shown
<1>10. Trigger(r)' /\ Judged(r)'
  <2>1. draft'[r].customer_id = TrimSpace[body[r].customer_id]
    BY <1>3 DEF TrimOrder, Order
  <2> QED
    BY <1>1, <1>3, <1>7, <2>1, Parts DEF Trigger, Judged
<1>11. \A q \in Handlers \ {r} : Still(q)
  BY <1>1, Parts DEF RequestTypes, ShopInv, OrdersOK, OrdersTypeOK, Still
<1> QED
  BY <1>2, <1>4, <1>6, <1>8, <1>9, <1>10, <1>11, OneRequest DEF RequestInv

LEMMA PostRefusedStep ==
  ASSUME GatewayInv, ShopInv', Steady, NEW r \in Handlers, PostRefused(r)
  PROVE  GatewayInv'
<1> USE DEF Elsewhere
<1>1. PICK s \in Services :
        /\ Posts(r, s) /\ post[r] = "sent"
        /\ s = "orders" => ~OrderComplete(TrimOrder(body[r]))
  BY DEF PostRefused, Sent, Services
<1>2. /\ Elsewhere /\ outcome' = outcome /\ post' = [post EXCEPT ![r] = "400"]
      /\ pc' = pc /\ draft' = draft
  BY DEF PostRefused, PostBecomes, vars, orderVars
<1>3. RequestTypes'
  BY <1>2, Parts DEF RequestTypes, PostState
<1>4. post'[r] = "400" /\ pc'[r] = "idle" /\ outcome'[r] = {}
  BY <1>1, <1>2, Parts DEF RequestTypes, Runs, Course
<1>5. Place(r)' /\ page'[r] = {}
  BY <1>1, <1>2, PlaceServed, Parts
<1>6. kind[r] # "none" /\ kind[r] # "triggerError"
  BY <1>1, TriggerPosts, Parts DEF Posts, Trigger, Placeable
<1>7. Ends(r)' /\ Trigger(r)' /\ Judged(r)'
  BY <1>2, <1>4, <1>6, Parts DEF Ends, Trigger, Judged
<1>8. Course(r)' /\ Runs(r)'
  BY <1>1, <1>2, <1>4, PostsKept DEF Course, Runs, InProgress
<1>9. Owns(r)' /\ Shown(r)'
  BY <1>4, <1>5 DEF Owns, Shown
<1>10. \A q \in Handlers \ {r} : Still(q)
  BY <1>2, Parts DEF RequestTypes, Still
<1> QED
  BY <1>3, <1>5, <1>7, <1>8, <1>9, <1>10, OneRequest DEF RequestInv

\* The upstream calls of CreateOrder.  No customer is found for triggerError.
LEMMA PostRunsStep ==
  ASSUME GatewayInv, ShopInv', Steady, NEW r \in Handlers, PostRuns(r)
  PROVE  GatewayInv'
<1>1. /\ Elsewhere /\ outcome' = outcome /\ post' = post /\ draft' = draft
      /\ pc[r] \in {"customer", "product"}
      /\ \E state \in {"product", "confirm", "fail"} : pc' = [pc EXCEPT ![r] = state]
  <2>1. UNCHANGED gatewayVars
    BY DEF PostRuns
  <2>2. Elsewhere /\ outcome' = outcome /\ post' = post
    BY <2>1 DEF gatewayVars, requestVars, Elsewhere
  <2>3. /\ draft' = draft /\ pc[r] \in {"customer", "product"}
        /\ \E state \in {"product", "confirm", "fail"} : pc' = [pc EXCEPT ![r] = state]
    BY DEF PostRuns, AskCustomer, CustomerAnswered, GiveUpCustomer, CustomerCallFails,
           AskProduct, ProductAnswered, GiveUpProduct, ProductCallFails, Fail
  <2> QED
    BY <2>2, <2>3
<1>2. PICK state \in {"product", "confirm", "fail"} : pc' = [pc EXCEPT ![r] = state]
  BY <1>1
<1>3. pc'[r] = state /\ post[r] = "held" /\ outcome[r] = {}
  BY <1>1, <1>2, Parts DEF ShopInv, OrdersOK, OrdersTypeOK, Runs, InProgress, PC, Stored
<1>4. RequestTypes'
  BY <1>1, Parts DEF RequestTypes, Elsewhere
<1>5. Place(r)' /\ page'[r] = {}
  BY <1>1, <1>3, PlaceServed, Parts DEF Elsewhere
<1>6. Ends(r)'
  BY <1>1, Parts DEF Ends, Elsewhere
<1>7. Course(r)' /\ Runs(r)'
  BY <1>1, <1>3, PostsKept, Parts DEF Course, Runs, Elsewhere
<1>8. Owns(r)' /\ Shown(r)'
  BY <1>1, <1>3, <1>5 DEF Owns, Shown
<1>9. Trigger(r)'
  BY <1>1, <1>3, Parts DEF Trigger, Elsewhere
<1>10. Judged(r)'
  <2>1. ASSUME Foreign(r) PROVE state = "fail"
    <3>1. pc[r] = "customer" /\ draft[r].customer_id = TrimSpace[body[r].customer_id]
      BY <1>1, <2>1, Parts DEF Judged
    <3>2. CustomerNow(r) = {}
      <4>1. DOMAIN customers \subseteq CustomerIds
        BY Parts DEF ShopInv, CustomersOK, CustomersTypeOK
      <4> QED
        BY <2>1, <3>1, <4>1 DEF CustomerNow, Lookup, Foreign
    <3>3. pc' = [pc EXCEPT ![r] = "fail"]
      BY <3>1, <3>2
      DEF PostRuns, AskCustomer, CustomerAnswered, GiveUpCustomer, CustomerCallFails,
          AskProduct, ProductAnswered, GiveUpProduct, ProductCallFails, Fail
    <3>4. pc'[r] = "fail"
      BY <3>3, Parts DEF ShopInv, OrdersOK, OrdersTypeOK
    <3> QED
      BY <1>3, <3>4
  <2>2. Foreign(r)' <=> Foreign(r)
    BY <1>1, PostsKept DEF Foreign, Elsewhere
  <2> QED
    BY <1>1, <1>3, <2>1, <2>2, Parts DEF Judged, Elsewhere
<1>11. \A q \in Handlers \ {r} : Still(q)
  BY <1>1, <1>2, Parts DEF ShopInv, OrdersOK, OrdersTypeOK, Still, Elsewhere
<1> QED
  BY <1>4, <1>5, <1>6, <1>7, <1>8, <1>9, <1>10, <1>11, OneRequest DEF RequestInv

\* What order-svc stores for r: a failed order, or a confirmed one, under a
\* new id.
LEMMA DecidedRecord ==
  ASSUME GatewayInv, NEW r \in Handlers, PostDecided(r)
  PROVE  \E code \in {"201", "422"}, id \in OrderIds \ ordersIssued :
           /\ pc[r] = (IF code = "201" THEN "confirm" ELSE "fail")
           /\ pc' = [pc EXCEPT ![r] = code] /\ pc'[r] = code
           /\ ordersIssued' = ordersIssued \cup {id}
           /\ draft'[r].id = id /\ draft'[r].customer_id = draft[r].customer_id
           /\ \A q \in Handlers \ {r} : draft'[q] = draft[q]
<1>1. draft[r] \in Order /\ snapshot[r] \in Product
  BY Parts DEF ShopInv, OrdersOK, OrdersTypeOK
<1>2. ConfirmedOrder(draft[r], snapshot[r]) \in Order /\ FailedOrder(draft[r]) \in Order
  BY <1>1, OrderFacts, DomainAssumption
<1>3. /\ ConfirmedOrder(draft[r], snapshot[r]).customer_id = draft[r].customer_id
      /\ FailedOrder(draft[r]).customer_id = draft[r].customer_id
  BY <1>1 DEF ConfirmedOrder, FailedOrder, Order
<1>4. PICK code \in {"201", "422"}, o \in Order :
        /\ o.customer_id = draft[r].customer_id
        /\ pc[r] = (IF code = "201" THEN "confirm" ELSE "fail")
        /\ CreateRecord(r, o, code)
  BY <1>2, <1>3 DEF PostDecided, ConfirmOrder, RefuseOrder, StoreConfirmed, StoreFailed
<1>5. PICK id \in OrderIds \ ordersIssued : CreateRecord(r, o, code)!(id)
  BY <1>4 DEF CreateRecord
<1>6. pc'[r] = code /\ draft'[r] = [o EXCEPT !.id = id]
  BY <1>5, Parts DEF ShopInv, OrdersOK, OrdersTypeOK
<1>7. [o EXCEPT !.id = id].id = id /\ [o EXCEPT !.id = id].customer_id = o.customer_id
  BY DEF Order
<1>8. \A q \in Handlers \ {r} : draft'[q] = draft[q]
  BY <1>5, Parts DEF ShopInv, OrdersOK, OrdersTypeOK
<1> QED
  BY <1>4, <1>5, <1>6, <1>7, <1>8

\* The order is stored: from now on it is the outcome, answered or not.
LEMMA PostDecidedStep ==
  ASSUME GatewayInv, ShopInv', Steady, NEW r \in Handlers, PostDecided(r)
  PROVE  GatewayInv'
<1>1. /\ Elsewhere /\ post' = post
      /\ outcome' = [outcome EXCEPT ![r] = {[id |-> draft'[r].id, ok |-> pc'[r] = "201"]}]
  BY DEF PostDecided, Created, Elsewhere
<1>2. PICK code \in {"201", "422"}, id \in OrderIds \ ordersIssued :
        /\ pc[r] = (IF code = "201" THEN "confirm" ELSE "fail")
        /\ pc' = [pc EXCEPT ![r] = code] /\ pc'[r] = code
        /\ ordersIssued' = ordersIssued \cup {id}
        /\ draft'[r].id = id /\ draft'[r].customer_id = draft[r].customer_id
        /\ \A q \in Handlers \ {r} : draft'[q] = draft[q]
  BY DecidedRecord
<1>3. PICK u \in Placed!Outcome :
        /\ u.id = id /\ u.ok = (code = "201")
        /\ outcome' = [outcome EXCEPT ![r] = {u}]
  <2>1. outcome' = [outcome EXCEPT ![r] = {[id |-> id, ok |-> code = "201"]}]
    BY <1>1, <1>2
  <2>2. [id |-> id, ok |-> code = "201"] \in Placed!Outcome
    BY DEF Placed!Outcome
  <2> QED
    BY <2>1, <2>2
<1>4. /\ code = "201" => u.ok = TRUE
      /\ code = "422" => u.ok = FALSE
  BY <1>3
<1>5. outcome'[r] = {u} /\ post'[r] = "held" /\ post[r] = "held"
  BY <1>1, <1>2, <1>3, Parts DEF RequestTypes, Runs
<1>6. RequestTypes'
  <2>1. {u} \in SUBSET Placed!Outcome
    BY <1>3
  <2>2. outcome \in [Handlers -> SUBSET Placed!Outcome]
    BY Parts DEF RequestTypes
  <2>3. outcome' \in [Handlers -> SUBSET Placed!Outcome]
    BY <1>3, <2>1, <2>2
  <2> QED
    BY <1>1, <2>3, Parts DEF RequestTypes, Elsewhere
<1>7. Place(r)' /\ page'[r] = {}
  BY <1>1, <1>5, PlaceServed, Parts DEF Elsewhere
<1>8. Posts(r, "orders") /\ kind[r] # "none" /\ \A s : Posts(r, s)' => s = "orders"
  BY <1>1, <1>5, PostsKept, OnePost, Parts DEF Runs, Posts, Elsewhere
<1>9. Ends(r)'
  BY <1>1, <1>8, Parts DEF Ends, Elsewhere
<1>10. Course(r)' /\ Runs(r)'
  <2>1. Posts(r, "orders")' /\ "orders" \in Services
    BY <1>1, <1>8, PostsKept DEF Services, Elsewhere
  <2> QED
    BY <1>1, <1>2, <1>4, <1>5, <2>1, Parts
    DEF Course, Runs, InProgress, Stored, Elsewhere
<1>11. Owns(r)' /\ Shown(r)'
  <2>1. u.id \in Issued("orders")'
    BY <1>2, <1>3 DEF Issued
  <2> QED
    BY <1>5, <1>7, <1>8, <2>1 DEF Owns, Shown
<1>12. Trigger(r)'
  BY <1>1, <1>5, Parts DEF Trigger, Elsewhere
<1>13. Judged(r)'
  <2>1. Foreign(r)' <=> Foreign(r)
    BY <1>1, PostsKept DEF Foreign, Elsewhere
  <2>2. Foreign(r) => code = "422"
    BY <1>2, Parts DEF Judged
  <2>3. Posts(r, "orders")'
    BY <1>1, <1>8, PostsKept DEF Elsewhere
  <2>4. draft'[r].customer_id = TrimSpace[body'[r].customer_id]
    BY <1>1, <1>2, Parts DEF Judged, Elsewhere
  <2> QED
    BY <1>2, <1>4, <1>5, <2>1, <2>2, <2>3, <2>4 DEF Judged
<1>14. \A q \in Handlers \ {r} : Still(q)
  BY <1>1, <1>2, <1>3, Parts
  DEF RequestTypes, ShopInv, OrdersOK, OrdersTypeOK, Still, Elsewhere
<1> QED
  BY <1>6, <1>7, <1>9, <1>10, <1>11, <1>12, <1>13, <1>14, OneRequest DEF RequestInv

\* The answer of order-svc is on its way.
LEMMA PostEndsStep ==
  ASSUME GatewayInv, ShopInv', Steady, NEW r \in Handlers, PostEnds(r)
  PROVE  GatewayInv'
<1>1. /\ Elsewhere /\ outcome' = outcome /\ post' = [post EXCEPT ![r] = pc[r]]
      /\ pc[r] \in Stored /\ pc' = [pc EXCEPT ![r] = "idle"]
      /\ draft' = [draft EXCEPT ![r] = ZeroOrder]
  BY DEF PostEnds, PostBecomes, EndOrder, Finish, Elsewhere
<1>2. post[r] = "held" /\ post'[r] = pc[r] /\ pc'[r] = "idle"
  BY <1>1, Parts
  DEF RequestTypes, ShopInv, OrdersOK, OrdersTypeOK, Runs, Stored
<1>3. RequestTypes'
  BY <1>1, Parts DEF RequestTypes, PostState, Stored, Elsewhere
<1>4. Place(r)' /\ page'[r] = {}
  BY <1>1, <1>2, PlaceServed, Parts DEF Elsewhere
<1>5. kind[r] # "none" /\ Posts(r, "orders")
  BY <1>2, Parts DEF Runs, Posts
<1>6. Ends(r)'
  BY <1>1, <1>5, Parts DEF Ends, Elsewhere
<1>7. Course(r)' /\ Runs(r)'
  <2>1. Posts(r, "orders")' /\ "orders" \in Services
    BY <1>1, <1>5, PostsKept DEF Services, Elsewhere
  <2> QED
    BY <1>1, <1>2, <2>1, Parts DEF Course, Runs, InProgress, Stored
<1>8. Owns(r)' /\ Shown(r)'
  <2>1. Owns(r)'
    BY <1>1, PostsKept, Parts DEF Owns, Steady, Elsewhere
  <2> QED
    BY <1>4, <2>1 DEF Shown
<1>9. Trigger(r)' /\ Judged(r)'
  <2>1. Judged(r)'
    BY <1>1, <1>2, JudgedKept, Parts DEF Elsewhere
  <2> QED
    BY <1>1, <1>2, <2>1, Parts DEF Trigger, Stored, Elsewhere
<1>10. \A q \in Handlers \ {r} : Still(q)
  BY <1>1, Parts DEF RequestTypes, ShopInv, OrdersOK, OrdersTypeOK, Still, Elsewhere
<1> QED
  BY <1>3, <1>4, <1>6, <1>7, <1>8, <1>9, <1>10, OneRequest DEF RequestInv

-----------------------------------------------------------------------------
(* The steps that concern several requests at once.                        *)

\* A POST that is lost with its service.
LEMMA LostKept ==
  ASSUME GatewayInv, Steady, NEW q \in Handlers, Elsewhere, outcome' = outcome,
         post[q] \in {"sent", "held"}, post'[q] = "lost", pc'[q] = "idle"
  PROVE  RequestInv(q)'
<1> USE DEF Elsewhere
<1>1. Place(q)' /\ page'[q] = {}
  BY PlaceServed, Parts
<1>2. \E s \in Services : Posts(q, s)
  BY Parts DEF Course
<1>3. kind[q] # "none"
  BY <1>2 DEF Posts
<1>4. Ends(q)' /\ Trigger(q)'
  BY <1>3, Parts DEF Ends, Trigger
<1>5. Course(q)' /\ Runs(q)'
  BY <1>2, PostsKept, Parts DEF Course, Runs, InProgress
<1>6. Owns(q)' /\ Judged(q)'
  <2>1. Judged(q)'
    BY JudgedKept, Parts
  <2> QED
    BY <2>1, PostsKept, Parts DEF Owns, Steady
<1> QED
  BY <1>1, <1>4, <1>5, <1>6 DEF RequestInv, Shown

LEMMA BreakKept ==
  ASSUME GatewayInv, Steady, Elsewhere, outcome' = outcome, NEW s \in Services, Break(s),
         NEW q \in Handlers,
         s # "orders" => pc' = pc /\ draft' = draft,
         s = "orders" => pc'[q] = "idle"
  PROVE  RequestInv(q)'
<1>1. CASE post[q] \in {"sent", "held"} /\ Posts(q, s)
  <2>1. post'[q] = "lost"
    BY <1>1 DEF Break
  <2>2. post[q] = "held" => s = "orders"
    BY <1>1, OnePost, Parts DEF Runs
  <2>3. pc'[q] = "idle"
    BY <1>1, <2>2, Parts DEF Runs
  <2> QED
    BY <1>1, <2>1, <2>3, LostKept
<1>2. CASE ~(post[q] \in {"sent", "held"} /\ Posts(q, s))
  <2>1. post'[q] = post[q]
    BY <1>2 DEF Break
  <2>2. s = "orders" => pc[q] = "idle"
    BY <1>2, Parts DEF Runs
  <2> QED
    BY <2>1, <2>2, StillKept, Parts DEF Still, Elsewhere, GatewayInv
<1> QED
  BY <1>1, <1>2

LEMMA ServiceStepKept ==
  ASSUME GatewayInv, ShopInv', Steady, ServiceStep
  PROVE  GatewayInv'
<1>1. Elsewhere /\ outcome' = outcome
  BY DEF ServiceStep, Elsewhere
<1>2. \/ post' = post /\ pc' = pc /\ draft' = draft
      \/ \E s \in Services :
           /\ Break(s)
           /\ s # "orders" => pc' = pc /\ draft' = draft
           /\ s = "orders" => \A q \in Handlers : pc'[q] = "idle"
  <2>1. ASSUME NEW s \in {"customers", "products"}, UNCHANGED orderVars,
               UNCHANGED post \/ Break(s)
        PROVE  \/ post' = post /\ pc' = pc /\ draft' = draft
               \/ /\ s \in Services /\ Break(s) /\ s # "orders"
                  /\ pc' = pc /\ draft' = draft
    BY <2>1 DEF orderVars, Services
  <2>2. CASE OrderRecordStep /\ IF ordersUp' THEN UNCHANGED post ELSE Break("orders")
    <3>1. CASE OrderSvcStops
      BY <2>2, <3>1 DEF OrderSvcStops, Services
    <3>2. CASE UpdateOrder \/ DeleteOrder \/ OrderSvcStarts
      <4>1. ordersUp' = TRUE /\ pc' = pc /\ draft' = draft
        BY <3>2, Parts
        DEF UpdateOrder, DeleteOrder, OrderSvcStarts, GatewayInv, ShopInv, OrdersOK,
            OrdersTypeOK
      <4> QED
        BY <2>2, <4>1
    <3> QED
      BY <2>2, <3>1, <3>2 DEF OrderRecordStep
  <2> QED
    BY <2>1, <2>2 DEF ServiceStep
<1>3. CASE post' = post /\ pc' = pc /\ draft' = draft
  <2>1. RequestTypes'
    BY <1>1, <1>3 DEF GatewayInv, RequestTypes, Elsewhere
  <2>2. \A q \in Handlers : RequestInv(q)'
    BY <1>1, <1>3, StillKept DEF GatewayInv, Still, Elsewhere
  <2> QED
    BY <2>1, <2>2 DEF GatewayInv
<1>4. ASSUME NEW s \in Services, Break(s),
             s # "orders" => pc' = pc /\ draft' = draft,
             s = "orders" => \A q \in Handlers : pc'[q] = "idle"
      PROVE  GatewayInv'
  <2>1. post' \in [Handlers -> PostState]
    BY <1>4 DEF Break, GatewayInv, RequestTypes, PostState
  <2>2. RequestTypes'
    BY <1>1, <2>1 DEF GatewayInv, RequestTypes, Elsewhere
  <2>3. \A q \in Handlers : RequestInv(q)'
    BY <1>1, <1>4, BreakKept
  <2> QED
    BY <2>2, <2>3 DEF GatewayInv
<1> QED
  BY <1>2, <1>3, <1>4

LEMMA GatewayStopsStep ==
  ASSUME GatewayInv, ShopInv', Steady, GatewayStops
  PROVE  GatewayInv'
<1>1. /\ kind' = kind /\ body' = body /\ post' = post /\ outcome' = outcome
      /\ pc' = pc /\ draft' = draft /\ gatewayUp' = FALSE
      /\ told' = [r \in Handlers |-> IF Open(r) THEN "error" ELSE told[r]]
      /\ todo' = [r \in Handlers |-> <<>>] /\ page' = [r \in Handlers |-> {}]
  BY DEF GatewayStops, vars, orderVars
<1>2. RequestTypes'
  <2>1. "error" \in Placed!Code /\ <<>> \in Seq(Call)
    BY DEF Placed!Code
  <2>2. told' \in [Handlers -> Placed!Code \cup {""}] /\ todo' \in [Handlers -> Seq(Call)]
    BY <1>1, <2>1 DEF GatewayInv, RequestTypes
  <2> QED
    BY <1>1, <2>2 DEF GatewayInv, RequestTypes
<1>3. ASSUME NEW q \in Handlers PROVE RequestInv(q)'
  <2>1. /\ told'[q] = IF Open(q) THEN "error" ELSE told[q]
        /\ todo'[q] = <<>> /\ page'[q] = {}
    BY <1>1
  <2>2. Ends(q)' /\ Place(q)' /\ Trigger(q)'
    BY <1>1, <2>1, Parts DEF Ends, Place, Trigger, Open
  <2>3. Owns(q)' /\ Shown(q)'
    BY <1>1, <2>1, OutcomeKept, Parts
  <2>4. told'[q] \notin {"", "error"} => post[q] \notin {"sent", "held"}
    BY <2>1, Parts DEF Course
  <2>5. Course(q)' /\ Runs(q)' /\ Judged(q)'
    BY <1>1, <2>4, ServedKept, JudgedKept, Parts
  <2> QED
    BY <2>2, <2>3, <2>5 DEF RequestInv
<1> QED
  BY <1>2, <1>3 DEF GatewayInv

\* A restart of the gateway, and steps of others, change no request.
LEMMA RequestsStill ==
  ASSUME GatewayInv, ShopInv', Steady, GatewayStarts \/ UNCHANGED gvars
  PROVE  GatewayInv'
<1>1. /\ UNCHANGED requestVars /\ gatewayUp' \in BOOLEAN /\ pc' = pc /\ draft' = draft
  BY DEF GatewayStarts, gvars, gatewayVars, vars, orderVars, GatewayInv, RequestTypes
<1>2. RequestTypes'
  BY <1>1 DEF GatewayInv, RequestTypes, requestVars
<1>3. \A q \in Handlers : RequestInv(q)'
  BY <1>1, StillKept DEF GatewayInv, Still, requestVars
<1> QED
  BY <1>2, <1>3 DEF GatewayInv

-----------------------------------------------------------------------------

LEMMA GatewayInitial == GatewayInit => GatewayInv
<1> SUFFICES ASSUME GatewayInit PROVE GatewayInv
  OBVIOUS
<1>1. ShopInv
  BY InitShopInv DEF GatewayInit
<1>2. <<>> \in Seq(Call)
  OBVIOUS
<1>3. RequestTypes
  BY <1>2, ZeroFacts DEF GatewayInit, RequestTypes, PostState
<1>4. pc = [h \in Handlers |-> "idle"]
  BY DEF GatewayInit, Init, OrdersInit
<1>5. ASSUME NEW r \in Handlers PROVE RequestInv(r)
  BY <1>4
  DEF GatewayInit, RequestInv, Ends, Place, Open, Course, Owns, Runs, Shown, Trigger,
      Judged, InProgress
<1> QED
  BY <1>1, <1>3, <1>5 DEF GatewayInv

LEMMA GatewayInvStep == GatewayInv /\ [GatewayNext]_gvars => GatewayInv'
<1> SUFFICES ASSUME GatewayInv, [GatewayNext]_gvars PROVE GatewayInv'
  OBVIOUS
<1>1. ShopInv' /\ Steady
  BY ShopSide DEF GatewayInv
<1>2. ASSUME NEW r \in Handlers, GatewayStep(r) \/ Cut(r) PROVE GatewayInv'
  <2>1. PostFails(r) \/ Cut(r) => Open(r) /\ Fail502(r)
    BY DEF PostFails, Cut, Calling
  <2> QED
    BY <1>1, <1>2, <2>1, SendPostStep, PostAnsweredStep, FailStep, FetchStep, ReplyStep
    DEF GatewayStep
<1>3. ASSUME NEW r \in Handlers, PostStep(r) PROVE GatewayInv'
  BY <1>1, <1>3, PostCustomerStep, PostProductStep, PostOrderStep, PostRefusedStep,
     PostRunsStep, PostDecidedStep, PostEndsStep
  DEF PostStep
<1> QED
  BY <1>1, <1>2, <1>3, ArriveStep, GatewayStopsStep, ServiceStepKept, RequestsStill
  DEF GatewayNext

THEOREM GatewayInvariance == GatewaySpec => []GatewayInv
BY GatewayInitial, GatewayInvStep, PTL DEF GatewaySpec

-----------------------------------------------------------------------------

\* GatewayTypeOK: every request is where its handler's code can be, and a
\* goroutine of order-svc works for a request exactly while its POST is held.
THEOREM GatewayTypeSafety == GatewaySpec => []GatewayTypeOK
<1>1. ASSUME GatewayInv PROVE GatewayTypeOK
  <2>1. TypeOK
    BY <1>1 DEF GatewayInv, ShopInv, TypeOK, CustomersOK, ProductsOK, OrdersOK
  <2>2. ASSUME NEW r \in Handlers
        PROVE  /\ todo[r] = <<>> \/ \E n \in 0 .. Len(Calls[kind[r]]) :
                    todo[r] = SubSeq(Calls[kind[r]], n + 1, Len(Calls[kind[r]]))
               /\ pc[r] # "idle" <=> post[r] = "held"
    <3>1. ~Open(r) => todo[r] = <<>>
      BY <1>1, Parts DEF Ends, Open
    <3>2. Open(r) => \E n \in 0 .. Len(Calls[kind[r]]) :
                       todo[r] = SubSeq(Calls[kind[r]], n + 1, Len(Calls[kind[r]]))
      BY <1>1, Parts DEF Place, At, Rest
    <3> QED
      BY <1>1, <3>1, <3>2, Parts DEF Runs
  <2> QED
    BY <1>1, <2>1, <2>2 DEF GatewayTypeOK, GatewayInv, RequestTypes
<1> QED
  BY <1>1, GatewayInvariance, PTL

\* PageShowsOwnRecord: a form's table is never older than the form's record.
THEOREM OwnRecordShown == GatewaySpec => []PageShowsOwnRecord
<1>1. GatewayInv => PageShowsOwnRecord
  BY Parts DEF PageShowsOwnRecord, Shown
<1> QED
  BY <1>1, GatewayInvariance, PTL

\* TriggerPlacesFailure: the button fails orders and only fails them, from
\* any list of products and with any services down.
THEOREM TriggerFails == GatewaySpec => []TriggerPlacesFailure
<1>1. ASSUME GatewayInv PROVE TriggerPlacesFailure
  <2>1. ASSUME NEW r \in Handlers, kind[r] = "triggerError", NEW o \in outcome[r]
        PROVE  o.ok = FALSE
    <3>1. Posts(r, "orders") /\ Placeable(body[r])
      BY <1>1, <2>1, TriggerPosts, Parts DEF Course, Trigger
    <3>2. Foreign(r)
      BY <3>1 DEF Foreign, Placeable
    <3> QED
      BY <1>1, <2>1, <3>2, Parts DEF Judged
  <2>2. ASSUME NEW r \in Handlers, kind[r] = "triggerError", told[r] = "200"
        PROVE  outcome[r] # {}
    BY <1>1, <2>2, Parts DEF Trigger
  <2> QED
    BY <2>1, <2>2 DEF TriggerPlacesFailure
<1> QED
  BY <1>1, GatewayInvariance, PTL

\* NoSuchCustomerFails: what the seed script counts on when it posts orders
\* for an invalid customer.
THEOREM ForeignFails == GatewaySpec => []NoSuchCustomerFails
<1>1. ASSUME GatewayInv PROVE NoSuchCustomerFails
  <2>1. ASSUME NEW r \in Handlers, NEW o \in outcome[r]
        PROVE  /\ ~Posts(r, "orders") => o.ok
               /\ Foreign(r) => ~o.ok
    BY <1>1, Parts DEF Judged
  <2> QED
    BY <2>1 DEF NoSuchCustomerFails
<1> QED
  BY <1>1, GatewayInvariance, PTL

-----------------------------------------------------------------------------
(* Gateway implements Placement: an answer is a Tell, a record a Take, the *)
(* end of the gateway a Break, and every other step stutters.              *)

\* What a status that the gateway passes on says is so.
LEMMA AnswerTruthful ==
  ASSUME GatewayInv, NEW r \in Handlers, NEW code \in {"200", "error", post[r]}
  PROVE  Placed!Truthful(code, outcome[r])
<1>1. /\ post[r] = "201" => \E o \in outcome[r] : o.ok = TRUE
      /\ post[r] = "422" => \E o \in outcome[r] : o.ok = FALSE
      /\ post[r] = "400" => outcome[r] = {}
  BY Parts DEF Course
<1>2. /\ code = "201" => \E o \in outcome[r] : o.ok
      /\ code = "422" => \E o \in outcome[r] : ~o.ok
  BY <1>1
<1>3. code = "400" => outcome[r] = {}
  BY <1>1
<1> QED
  BY <1>2, <1>3 DEF Placed!Truthful

LEMMA FailTells ==
  ASSUME GatewayInv, NEW r \in Handlers, Open(r), Fail502(r)
  PROVE  Placed!Tell(r)
<1>1. Placed!Truthful("error", outcome[r])
  BY AnswerTruthful
<1>2. "error" \in Placed!Code
  BY DEF Placed!Code
<1>3. /\ told[r] = "" /\ outcome' = outcome
      /\ told' = [told EXCEPT ![r] = "error"]
  BY DEF Open, Fail502
<1> QED
  BY <1>1, <1>2, <1>3 DEF Placed!Tell

LEMMA ReplyTells ==
  ASSUME GatewayInv, NEW r \in Handlers, Reply(r)
  PROVE  Placed!Tell(r)
<1>1. /\ Open(r) /\ todo[r] = <<>> /\ told[r] = "" /\ outcome' = outcome
      /\ told' = [told EXCEPT ![r] = ReplyStatus(r)]
  BY DEF Open, Reply
<1>2. kind[r] \in Proxies => post[r] \in Answers
  BY <1>1, CallsMade, Parts
<1>3. ReplyStatus(r) \in Placed!Code
  BY <1>2 DEF ReplyStatus, Answers, Placed!Code
<1>4. Placed!Truthful(ReplyStatus(r), outcome[r])
  BY AnswerTruthful DEF ReplyStatus
<1> QED
  BY <1>1, <1>3, <1>4 DEF Placed!Tell

IdsOf(s) ==
  CASE s = "customers" -> CustomerIds [] s = "products" -> ProductIds [] OTHER -> OrderIds

\* An id that its service has not issued is no request's outcome.
LEMMA FreshId ==
  ASSUME GatewayInv, NEW s \in Services, NEW id \in IdsOf(s) \ Issued(s),
         NEW q \in Handlers, NEW u \in outcome[q]
  PROVE  u.id # id
<1>1. PICK t \in Services : Posts(q, t)
  BY Parts DEF Course
<1>2. u.id \in Issued(t)
  BY <1>1, Parts DEF Owns
<1>3. \A v \in Services : Issued(v) \subseteq IdsOf(v)
  BY Parts
  DEF GatewayInv, ShopInv, CustomersOK, CustomersTypeOK, ProductsOK, ProductsTypeOK,
      OrdersOK, OrdersTypeOK, Services, Issued, IdsOf
<1>4. s = t \/ IdsOf(s) \cap IdsOf(t) = {}
  BY DEF Services, IdsOf
<1> QED
  BY <1>2, <1>3, <1>4

\* A record that a service creates for a request that has none.
LEMMA CreationTakes ==
  ASSUME GatewayInv, NEW r \in Handlers, NEW s \in Services,
         NEW id \in IdsOf(s) \ Issued(s), NEW ok \in BOOLEAN,
         outcome[r] = {}, told[r] \in {"", "error"}, told' = told,
         outcome' = [outcome EXCEPT ![r] = {[id |-> id, ok |-> ok]}]
  PROVE  Placed!Take(r)
<1>1. IdsOf(s) \subseteq CustomerIds \cup ProductIds \cup OrderIds
  BY DEF IdsOf, Services
<1> DEFINE o == [id |-> id, ok |-> ok]
<1>2. o \in Placed!Outcome /\ o.id = id
  BY <1>1 DEF Placed!Outcome
<1>3. \A q \in Handlers : \A u \in outcome[q] : u.id # o.id
  BY <1>2, FreshId
<1> QED
  BY <1>2, <1>3 DEF Placed!Take

LEMMA PostTakes ==
  ASSUME GatewayInv, NEW r \in Handlers,
         PostCustomer(r) \/ PostProduct(r) \/ PostDecided(r)
  PROVE  Placed!Take(r)
<1>1. CASE PostCustomer(r)
  <2>1. PICK id \in customersIssued' \ customersIssued :
          outcome' = [outcome EXCEPT ![r] = {[id |-> id, ok |-> TRUE]}]
    BY <1>1 DEF PostCustomer, Created
  <2>2. id \in CustomerIds
    BY <1>1, <2>1 DEF PostCustomer, CreateCustomer, GatewayInv, ShopInv, CustomersOK, CustomersTypeOK
  <2>3. id \in IdsOf("customers") \ Issued("customers") /\ "customers" \in Services
    BY <2>1, <2>2 DEF IdsOf, Issued, Services
  <2>4. outcome[r] = {} /\ told[r] \in {"", "error"} /\ told' = told
    BY <1>1, Parts DEF PostCustomer, Sent, Course
  <2> QED
    BY <2>1, <2>3, <2>4, CreationTakes
<1>2. CASE PostProduct(r)
  <2>1. PICK id \in productsIssued' \ productsIssued :
          outcome' = [outcome EXCEPT ![r] = {[id |-> id, ok |-> TRUE]}]
    BY <1>2 DEF PostProduct, Created
  <2>2. id \in ProductIds
    BY <1>2, <2>1 DEF PostProduct, CreateProduct, GatewayInv, ShopInv, ProductsOK, ProductsTypeOK
  <2>3. id \in IdsOf("products") \ Issued("products") /\ "products" \in Services
    BY <2>1, <2>2 DEF IdsOf, Issued, Services
  <2>4. outcome[r] = {} /\ told[r] \in {"", "error"} /\ told' = told
    BY <1>2, Parts DEF PostProduct, Sent, Course
  <2> QED
    BY <2>1, <2>3, <2>4, CreationTakes
<1>3. CASE PostDecided(r)
  <2>1. /\ outcome' = [outcome EXCEPT ![r] = {[id |-> draft'[r].id, ok |-> pc'[r] = "201"]}]
        /\ told' = told
    BY <1>3 DEF PostDecided, Created
  <2>2. PICK id \in OrderIds \ ordersIssued :
          draft'[r].id = id /\ pc[r] \in {"confirm", "fail"}
    BY <1>3, DecidedRecord
  <2>3. id \in IdsOf("orders") \ Issued("orders") /\ "orders" \in Services
    BY <2>2 DEF IdsOf, Issued, Services
  <2>4. outcome[r] = {} /\ told[r] \in {"", "error"}
    BY <2>2, Parts DEF Course, Runs, InProgress, PC, Stored
  <2> QED
    BY <2>1, <2>2, <2>3, <2>4, CreationTakes
<1> QED
  BY <1>1, <1>2, <1>3

LEMMA StopBreaks == GatewayStops => Placed!Break
<1> SUFFICES ASSUME GatewayStops PROVE Placed!Break
  OBVIOUS
<1> DEFINE S == {r \in Handlers : Open(r)}
<1>1. S \in SUBSET {r \in Handlers : told[r] = ""}
  BY DEF Open
<1>2. told' = [r \in Handlers |-> IF r \in S THEN "error" ELSE told[r]]
  BY DEF GatewayStops
<1>3. outcome' = outcome
  BY DEF GatewayStops
<1> HIDE DEF S
<1> QED
  BY <1>1, <1>2, <1>3 DEF Placed!Break

\* PlacementKept: no status lies, no request has two records, and only after
\* an error may a record come late, whoever stops and whatever is given up.
THEOREM PlacementImplemented == GatewaySpec => PlacementKept
<1>1. GatewayInit => Placed!Init
  BY DEF GatewayInit, Placed!Init
<1>2. ASSUME GatewayInv, [GatewayNext]_gvars
      PROVE  [Placed!Next]_(Placed!vars)
  <2>1. ASSUME NEW r \in Handlers, PostFails(r) \/ Cut(r) \/ Reply(r)
        PROVE  Placed!Tell(r)
    BY <1>2, <2>1, FailTells, ReplyTells DEF PostFails, Cut, Calling
  <2>2. ASSUME NEW r \in Handlers, PostCustomer(r) \/ PostProduct(r) \/ PostDecided(r)
        PROVE  Placed!Take(r)
    BY <1>2, <2>2, PostTakes
  <2>3. ASSUME NEW r \in Handlers,
               \/ Arrive(r) \/ SendPost(r) \/ PostAnswered(r) \/ Fetch(r)
               \/ PostOrder(r) \/ PostRefused(r) \/ PostRuns(r) \/ PostEnds(r)
        PROVE  UNCHANGED Placed!vars
    BY <2>3
    DEF Arrive, SendPost, PostAnswered, Fetch, PostOrder, PostRefused, PostRuns, PostEnds,
        gatewayVars, requestVars, Placed!vars
  <2>4. GatewayStarts \/ ServiceStep \/ UNCHANGED gvars => UNCHANGED Placed!vars
    BY DEF GatewayStarts, ServiceStep, gvars, gatewayVars, requestVars, Placed!vars
  <2> QED
    BY <1>2, <2>1, <2>2, <2>3, <2>4, StopBreaks
    DEF GatewayNext, GatewayStep, PostStep, Placed!Next
<1> QED
  BY <1>1, <1>2, GatewayInvariance, PTL DEF GatewaySpec, PlacementKept, Placed!Spec
=============================================================================
