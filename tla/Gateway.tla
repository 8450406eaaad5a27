------------------------------ MODULE Gateway ------------------------------
(***************************************************************************)
(* cmd/api-gateway over the three services.  The gateway keeps no state    *)
(* of its own: each request runs in a goroutine that makes HTTP calls one  *)
(* after the other, each under the client's timeout of 10 s.               *)
(*                                                                         *)
(* A request is named by its goroutine, and so is the goroutine of the     *)
(* POST it sends to order-svc: Handlers is the set of requests.  PUT and   *)
(* DELETE pass through proxy to one atomic store operation and are steps   *)
(* of Shop, as are the requests that reach a service past the gateway.     *)
(***************************************************************************)
EXTENDS Shop, Sequences

CONSTANTS
  NoSuchId,  \* an id that no service issues: the constants of triggerError
  Routes     \* Routes[r]: the handlers that r may be for

ASSUME NoSuchIdAssumption ==
  /\ NoSuchId \in Text \ {Empty}
  /\ TrimSpace[NoSuchId] = NoSuchId
  /\ PathId[NoSuchId] \notin CustomerIds

\* generateID: 32 hexadecimal digits, drawn at random from all services' ids.
ASSUME IdsAssumption ==
  /\ CustomerIds \cap ProductIds = {}
  /\ CustomerIds \cap OrderIds = {}
  /\ ProductIds \cap OrderIds = {}
  /\ \A id \in ProductIds : Trimmed(id)

VARIABLES
  gatewayUp,  \* the gateway process runs
  kind,       \* kind[r]: the handler that r runs, "none" before r arrives
  todo,       \* todo[r]: the calls r still has to make
  body,       \* body[r]: the order that r posts
  post,       \* post[r]: the POST of r, from the sending to the answer
  page,       \* page[r]: the list that r's page is to show, {} if it has none
  outcome,    \* outcome[r]: {the record created for r}, or {} (history)
  told        \* told[r]: the status that r's client has got, "" before

requestVars == <<kind, todo, body, post, page, outcome, told>>
gatewayVars == <<gatewayUp, requestVars>>
gvars == <<vars, gatewayVars>>

Services == {"customers", "products", "orders"}

Post(s) == [verb |-> "POST", to |-> s]
List(s) == [verb |-> "GET", to |-> s]

\* The calls of each handler, in their order.
FetchStats == <<List("customers"), List("products"), List("orders")>>
UiCustomers == <<List("customers")>>
UiProducts == <<List("products")>>
UiOrders == <<List("orders"), List("customers"), List("products")>>
UiCreateCustomer == <<Post("customers"), List("customers")>>
UiCreateProduct == <<Post("products"), List("products")>>

\* Faulty variant of UiCreateOrder: the table is read before the order is sent.
ListThenPost ==
  <<List("orders"), Post("orders"), List("customers"), List("products")>>

UiCreateOrder ==
  <<Post("orders"), List("orders"), List("customers"), List("products")>>

TriggerError == <<List("products"), Post("orders")>>
Proxy(s) == <<Post(s)>>

\* The routes; "/" is as GET /ui/stats.
Calls == [
  uiStats |-> FetchStats,
  uiCustomers |-> UiCustomers,
  uiProducts |-> UiProducts,
  uiOrders |-> UiOrders,
  uiCreateCustomer |-> UiCreateCustomer,
  uiCreateProduct |-> UiCreateProduct,
  uiCreateOrder |-> UiCreateOrder,
  triggerError |-> TriggerError,
  proxyCustomers |-> Proxy("customers"),
  proxyProducts |-> Proxy("products"),
  proxyOrders |-> Proxy("orders")]

Kinds == DOMAIN Calls

ASSUME RoutesAssumption == Routes \in [Handlers -> SUBSET Kinds]

Proxies == {"proxyCustomers", "proxyProducts", "proxyOrders"}

Posts(r, s) ==
  kind[r] # "none" /\ \E i \in DOMAIN Calls[kind[r]] : Calls[kind[r]][i] = Post(s)

Records(s) ==
  CASE s = "customers" -> customers [] s = "products" -> products [] OTHER -> orders

Up(s) ==
  CASE s = "customers" -> customersUp [] s = "products" -> productsUp [] OTHER -> ordersUp

GatewayInit ==
  /\ Init
  /\ gatewayUp = TRUE
  /\ kind = [r \in Handlers |-> "none"]
  /\ todo = [r \in Handlers |-> <<>>]
  /\ body = [r \in Handlers |-> ZeroOrder]
  /\ post = [r \in Handlers |-> "unsent"]
  /\ page = [r \in Handlers |-> {}]
  /\ outcome = [r \in Handlers |-> {}]
  /\ told = [r \in Handlers |-> ""]

-----------------------------------------------------------------------------
(* The gateway's side of a request.                                        *)

Open(r) == kind[r] # "none" /\ told[r] = ""

\* The form has three fields; the JSON posted has no other.
FormOrder(customer, product, quantity) ==
  [ZeroOrder EXCEPT !.customer_id = customer, !.product_id = product,
                    !.quantity = quantity]

KnownBodies == {b \in OrderBodies : IdsKnown(b)}

Bodies(k) ==
  CASE k = "proxyOrders" -> KnownBodies
    [] k = "uiCreateOrder" ->
         {FormOrder(b.customer_id, b.product_id, b.quantity) : b \in KnownBodies}
    [] OTHER -> {ZeroOrder}

Arrive(r) ==
  /\ gatewayUp
  /\ kind[r] = "none"
  /\ \E k \in Routes[r] : \E b \in Bodies(k) :
       /\ kind' = [kind EXCEPT ![r] = k]
       /\ todo' = [todo EXCEPT ![r] = Calls[k]]
       /\ body' = [body EXCEPT ![r] = b]
  /\ UNCHANGED <<vars, gatewayUp, post, page, outcome, told>>

Calling(r, verb) == Open(r) /\ todo[r] # <<>> /\ Head(todo[r]).verb = verb

\* httpClient.Do writes the POST.  It is written once: net/http repeats a POST
\* only if nothing of it was sent.
SendPost(r) ==
  /\ Calling(r, "POST")
  /\ post[r] = "unsent"
  /\ Up(Head(todo[r]).to)
  /\ post' = [post EXCEPT ![r] = "sent"]
  /\ UNCHANGED <<vars, gatewayUp, kind, todo, body, page, outcome, told>>

\* Do returns the answer.
PostAnswered(r) ==
  /\ Calling(r, "POST")
  /\ post[r] \in {"201", "422", "400"}
  /\ todo' = [todo EXCEPT ![r] = Tail(@)]
  /\ UNCHANGED <<vars, gatewayUp, kind, body, post, page, outcome, told>>

Fail502(r) ==
  /\ told' = [told EXCEPT ![r] = "error"]
  /\ todo' = [todo EXCEPT ![r] = <<>>]
  /\ page' = [page EXCEPT ![r] = {}]
  /\ UNCHANGED <<vars, gatewayUp, kind, body, post, outcome>>

\* Faulty variant of PostFails: an error is taken for a refusal.
PostFailsAs400(r) ==
  /\ Calling(r, "POST")
  /\ told' = [told EXCEPT ![r] = "400"]
  /\ todo' = [todo EXCEPT ![r] = <<>>]
  /\ UNCHANGED <<vars, gatewayUp, kind, body, post, page, outcome>>

\* Do returns an error: refused, broken, after 10 s, or the browser has gone.
\* The POST, if it was sent, takes its course at the service.
PostFails(r) == Calling(r, "POST") /\ Fail502(r)

\* getJSON: the ids that the service lists, or the zero value after any error.
Fetched(s) == {{}} \cup (IF Up(s) THEN {{DOMAIN Records(s)}} ELSE {})

\* Faulty variant of TriggerBodies: the customer is a real one.
RealCustomerBodies(found) ==
  {FormOrder(c, p, 1) : c \in customersIssued, p \in UNION found}
    \cup {FormOrder(NoSuchId, NoSuchId, 1)}

\* products[0].ID (List has no order), or the constant if there is none.
TriggerBodies(found) ==
  {FormOrder(NoSuchId, p, 1) :
     p \in IF UNION found = {} THEN {NoSuchId} ELSE UNION found}

Fetch(r) ==
  /\ Calling(r, "GET")
  /\ \E found \in Fetched(Head(todo[r]).to) :
       /\ page' = IF Posts(r, Head(todo[r]).to)
                    THEN [page EXCEPT ![r] = found] ELSE page
       /\ \E b \in IF kind[r] = "triggerError" THEN TriggerBodies(found)
                                               ELSE {body[r]} :
            body' = [body EXCEPT ![r] = b]
  /\ todo' = [todo EXCEPT ![r] = Tail(@)]
  /\ UNCHANGED <<vars, gatewayUp, kind, post, outcome, told>>

\* proxy passes the status on; a page and triggerError answer 200 whatever it was.
ReplyStatus(r) == IF kind[r] \in Proxies THEN post[r] ELSE "200"

Reply(r) ==
  /\ Open(r)
  /\ todo[r] = <<>>
  /\ told' = [told EXCEPT ![r] = ReplyStatus(r)]
  /\ page' = [page EXCEPT ![r] = {}]
  /\ UNCHANGED <<vars, gatewayUp, kind, todo, body, post, outcome>>

\* The browser does not get the reply: it went away, or the 30 s of
\* WriteTimeout were over.
Cut(r) == Open(r) /\ todo[r] = <<>> /\ Fail502(r)

GatewayStops ==
  /\ gatewayUp
  /\ gatewayUp' = FALSE
  /\ told' = [r \in Handlers |-> IF Open(r) THEN "error" ELSE told[r]]
  /\ todo' = [r \in Handlers |-> <<>>]
  /\ page' = [r \in Handlers |-> {}]
  /\ UNCHANGED <<vars, kind, body, post, outcome>>

GatewayStarts ==
  /\ ~gatewayUp
  /\ gatewayUp' = TRUE
  /\ UNCHANGED <<vars, requestVars>>

-----------------------------------------------------------------------------
(* The services' side: a POST that was sent is refused, answered or lost,  *)
(* whether or not the gateway still waits for it.                          *)

Sent(r, s) == post[r] = "sent" /\ Posts(r, s) /\ Up(s)

PostBecomes(r, state) == post' = [post EXCEPT ![r] = state]

Created(r, id, ok) ==
  outcome' = [outcome EXCEPT ![r] = {[id |-> id, ok |-> ok]}]

PostCustomer(r) ==
  /\ Sent(r, "customers")
  /\ CreateCustomer
  /\ \E id \in customersIssued' \ customersIssued : Created(r, id, TRUE)
  /\ PostBecomes(r, "201")
  /\ UNCHANGED <<productVars, orderVars, gatewayUp, kind, todo, body, page, told>>

PostProduct(r) ==
  /\ Sent(r, "products")
  /\ CreateProduct
  /\ \E id \in productsIssued' \ productsIssued : Created(r, id, TRUE)
  /\ PostBecomes(r, "201")
  /\ UNCHANGED <<customerVars, orderVars, gatewayUp, kind, todo, body, page, told>>

PostOrder(r) ==
  /\ Sent(r, "orders")
  /\ AcceptOrder(r, body[r])
  /\ PostBecomes(r, "held")
  /\ UNCHANGED <<customerVars, productVars, gatewayUp, kind, todo, body, page,
                 outcome, told>>

\* A required field is missing or out of range.
PostRefused(r) ==
  /\ \/ /\ Sent(r, "customers")
        /\ \E b \in CustomerBodies : ~CustomerComplete(TrimCustomer(b))
     \/ /\ Sent(r, "products")
        /\ \E b \in ProductBodies : ~ProductComplete(TrimProduct(b))
     \/ /\ Sent(r, "orders")
        /\ ~OrderComplete(TrimOrder(body[r]))
  /\ PostBecomes(r, "400")
  /\ UNCHANGED <<vars, gatewayUp, kind, todo, body, page, outcome, told>>

\* CreateOrder's goroutine goes on, also for a client that has given up.
PostRuns(r) ==
  /\ \/ AskCustomer(r) \/ GiveUpCustomer(r)
     \/ AskProduct(r) \/ GiveUpProduct(r)
  /\ UNCHANGED gatewayVars

PostDecided(r) ==
  /\ ConfirmOrder(r) \/ RefuseOrder(r)
  /\ Created(r, draft'[r].id, pc'[r] = "201")
  /\ UNCHANGED <<gatewayUp, kind, todo, body, post, page, told>>

PostEnds(r) ==
  /\ EndOrder(r)
  /\ PostBecomes(r, pc[r])
  /\ UNCHANGED <<gatewayUp, kind, todo, body, page, outcome, told>>

\* Faulty variant of Break: handlers that run are not taken to be gone.
BreakSent(s) ==
  post' = [r \in Handlers |->
             IF post[r] = "sent" /\ Posts(r, s) THEN "lost" ELSE post[r]]

\* A process that stops takes the requests it has not answered with it.
Break(s) ==
  post' = [r \in Handlers |->
             IF post[r] \in {"sent", "held"} /\ Posts(r, s) THEN "lost" ELSE post[r]]

ServiceStep ==
  /\ \/ /\ CustomersNext /\ UNCHANGED <<productVars, orderVars>>
        /\ IF customersUp' THEN UNCHANGED post ELSE Break("customers")
     \/ /\ ProductsNext /\ UNCHANGED <<customerVars, orderVars>>
        /\ IF productsUp' THEN UNCHANGED post ELSE Break("products")
     \/ /\ OrderRecordStep
        /\ IF ordersUp' THEN UNCHANGED post ELSE Break("orders")
  /\ UNCHANGED <<gatewayUp, kind, todo, body, page, outcome, told>>

-----------------------------------------------------------------------------

GatewayStep(r) ==
  SendPost(r) \/ PostAnswered(r) \/ PostFails(r) \/ Fetch(r) \/ Reply(r)

PostStep(r) ==
  \/ PostCustomer(r) \/ PostProduct(r) \/ PostOrder(r) \/ PostRefused(r)
  \/ PostRuns(r) \/ PostDecided(r) \/ PostEnds(r)

GatewayNext ==
  \/ \E r \in Handlers : Arrive(r) \/ GatewayStep(r) \/ Cut(r) \/ PostStep(r)
  \/ GatewayStops \/ GatewayStarts
  \/ ServiceStep

GatewaySpec == GatewayInit /\ [][GatewayNext]_gvars

-----------------------------------------------------------------------------

PostState == {"unsent", "sent", "held", "201", "422", "400", "lost"}

Placed == INSTANCE Placement WITH
  Requests <- Handlers, Ids <- CustomerIds \cup ProductIds \cup OrderIds

\* The values, and what links a request in the gateway to its order: a POST
\* that order-svc runs is one that was sent and not yet answered.
GatewayTypeOK ==
  /\ TypeOK
  /\ gatewayUp \in BOOLEAN
  /\ kind \in [Handlers -> Kinds \cup {"none"}]
  /\ body \in [Handlers -> Order]
  /\ post \in [Handlers -> PostState]
  /\ told \in [Handlers -> Placed!Code \cup {""}]
  /\ \A r \in Handlers :
       /\ todo[r] = <<>> \/ \E n \in 0 .. Len(Calls[kind[r]]) :
            todo[r] = SubSeq(Calls[kind[r]], n + 1, Len(Calls[kind[r]]))
       /\ pc[r] # "idle" <=> post[r] = "held"

\* Clients may trust their answers: 201 is a record made for this request, 422
\* a failed order, 400 nothing for ever; only after an error may a record still
\* come, and no request makes two, whoever stops and whatever is given up.
PlacementKept == Placed!Spec

\* The table that a form submission returns has the submitted record, unless
\* the record is gone or the table could not be read: the partial is fetched
\* after the answer to the POST.
PageShowsOwnRecord ==
  \A r \in Handlers : \A s \in Services :
    Open(r) /\ todo[r] = <<>> /\ Posts(r, s) =>
      \A o \in outcome[r] : \A ids \in page[r] :
        o.id \in DOMAIN Records(s) => o.id \in ids

\* The order of r is for a customer who cannot be there.
Foreign(r) ==
  Posts(r, "orders") /\ PathId[TrimSpace[body[r].customer_id]] \notin CustomerIds

\* The Trigger Error button places an order that fails, never one that is
\* confirmed, and answers 200 only after it is stored: its product is read from
\* a list that may be empty, stale or missing, and its customer never exists.
TriggerPlacesFailure ==
  \A r \in Handlers : kind[r] = "triggerError" =>
    /\ \A o \in outcome[r] : ~o.ok
    /\ told[r] = "200" => outcome[r] # {}

\* What Seed's Take takes for granted: of all that is created only orders fail,
\* and an order for a customer id that no customer can have does, whichever of
\* its two upstream calls is answered, late or lost.
NoSuchCustomerFails ==
  \A r \in Handlers : \A o \in outcome[r] :
    /\ ~Posts(r, "orders") => o.ok
    /\ Foreign(r) => ~o.ok
=============================================================================
