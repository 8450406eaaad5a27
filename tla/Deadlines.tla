----------------------------- MODULE Deadlines -----------------------------
(***************************************************************************)
(* The time limits of an order on its way through the system.  The         *)
(* gateway makes its calls one after the other, each with the client's     *)
(* timeout; order-svc makes two, each with a shorter one; both servers     *)
(* have a limit for the whole response, and a process that was told to     *)
(* stop waits a limited time for its handlers.                             *)
(*                                                                         *)
(* Time is discrete.  Computing takes none; a message takes any time; a    *)
(* timer that has run out fires before time goes on, unless what it        *)
(* guards happens at the same instant.                                     *)
(***************************************************************************)
EXTENDS Naturals, Sequences

CONSTANTS
  CallLimit,    \* order-svc's client:  5 s
  ClientLimit,  \* the gateway's client:  10 s
  HeaderLimit,  \* ReadHeaderTimeout of the servers:  5 s
  ReadLimit,    \* ReadTimeout of the servers:  10 s
  WriteLimit,   \* WriteTimeout of the servers:  30 s
  DrainLimit    \* the context of Shutdown:  10 s

\* How the program's limits relate: one order fits in what waits for it.
ASSUME LimitsAssumption ==
  /\ CallLimit \in Nat \ {0}
  /\ ClientLimit \in Nat /\ 2 * CallLimit <= ClientLimit
  /\ DrainLimit \in Nat /\ 2 * CallLimit <= DrainLimit
  /\ HeaderLimit \in Nat /\ ReadLimit \in Nat
  /\ WriteLimit \in Nat /\ 3 * ClientLimit <= WriteLimit
  /\ ReadLimit + 2 * CallLimit < WriteLimit

VARIABLES
  gate,        \* the gateway's handler: idle, calling, answered, failed (400 or
               \* 502), timedout (502, by the client's limit on the POST), or
               \* cut: its page came after WriteTimeout
  route,       \* what the browser asked for
  todo,        \* the calls that are left
  order,       \* the order: none, sent, then order-svc's handler: reading the
               \* body, in its call to customer or product, answered, or cut off
               \* by the end of main
  main,        \* order-svc's main: serving, draining, flushing, gone
  requestAge,  \* the time since the gateway had the request's header,
  callAge,     \* since its present call, or the wait for the form, began,
  queueAge,    \* that the order was on its way while the gateway waited,
  readAge,     \* that order-svc's handler waited for its body,
  orderAge,    \* and worked on it,
  fetchAge,    \* that its present call has run,
  drainAge,    \* since Shutdown began,
  acceptAge,   \* what drainAge was when the handler got the order (history),
  listAge      \* and that the gateway's GET calls took together (history)

gateVars == <<gate, route, todo, requestAge, callAge, listAge>>
orderAges == <<queueAge, readAge, orderAge, fetchAge, acceptAge>>
orderVars == <<order, orderAges>>
mainVars == <<main, drainAge>>
vars == <<gateVars, orderVars, mainVars>>

\* What the gateway waits for, in order: uiCreateOrder and its form, proxyOrders
\* (which sends the body on as it comes), uiOrders and fetchStats, triggerError.
\* The other routes wait for fewer of the same.
Calls ==
  [form |-> <<"FORM", "POST", "GET", "GET", "GET">>,
   proxy |-> <<"POST">>,
   lists |-> <<"GET", "GET", "GET">>,
   trigger |-> <<"GET", "POST">>]

Init ==
  /\ gate = "idle" /\ route = "none" /\ todo = <<>>
  /\ order = "none"
  /\ main = "serving"
  /\ requestAge = 0 /\ callAge = 0 /\ listAge = 0
  /\ queueAge = 0 /\ readAge = 0 /\ orderAge = 0 /\ fetchAge = 0
  /\ drainAge = 0 /\ acceptAge = 0

WaitsFor(call) == gate = "calling" /\ todo # <<>> /\ Head(todo) = call
Uploading == WaitsFor("FORM")
Posting == WaitsFor("POST")
Listing == WaitsFor("GET")
Replying == gate = "calling" /\ todo = <<>>
Running == order \in {"customer", "product"}
Handling == order = "reading" \/ Running

\* Faulty variant of Overdue: getJSON uses a client without a timeout.
OverduePostOnly ==
  \/ Replying
  \/ Uploading /\ callAge >= ReadLimit
  \/ Posting /\ callAge >= ClientLimit
  \/ order = "reading" /\ readAge >= ReadLimit
  \/ Running /\ fetchAge >= CallLimit
  \/ main = "draining" /\ drainAge >= DrainLimit

\* Faulty variant of Overdue: order-svc uses a client without a timeout.
OverdueNoFetch ==
  \/ Replying
  \/ Uploading /\ callAge >= ReadLimit
  \/ (Posting \/ Listing) /\ callAge >= ClientLimit
  \/ order = "reading" /\ readAge >= ReadLimit
  \/ main = "draining" /\ drainAge >= DrainLimit

\* A timer has run out, or the reply is ready.
Overdue ==
  \/ Replying
  \/ Uploading /\ callAge >= ReadLimit
  \/ (Posting \/ Listing) /\ callAge >= ClientLimit
  \/ order = "reading" /\ readAge >= ReadLimit
  \/ Running /\ fetchAge >= CallLimit
  \/ main = "draining" /\ drainAge >= DrainLimit

Later(active, age) == age' = IF active THEN age + 1 ELSE age

Tick ==
  /\ ~Overdue
  /\ Later(gate = "calling", requestAge)
  /\ Later(gate = "calling", callAge)
  /\ Later(Listing, listAge)
  /\ Later(Posting /\ order = "sent", queueAge)
  /\ Later(order = "reading", readAge)
  /\ Later(Running, orderAge)
  /\ Later(Running, fetchAge)
  /\ Later(main = "draining", drainAge)
  /\ UNCHANGED <<gate, route, todo, order, main, acceptAge>>

-----------------------------------------------------------------------------
(* The gateway.                                                            *)

\* The handler goes on to the first of the calls that are left.
GoOn(calls) ==
  /\ todo' = calls
  /\ callAge' = 0
  /\ order' = IF calls # <<>> /\ Head(calls) = "POST" THEN "sent" ELSE order

Arrive ==
  /\ gate = "idle"
  /\ gate' = "calling"
  /\ \E r \in DOMAIN Calls : route' = r /\ GoOn(Calls[r])
  /\ UNCHANGED <<requestAge, listAge, orderAges, mainVars>>

NextCall ==
  /\ GoOn(Tail(todo))
  /\ UNCHANGED <<gate, route, requestAge, listAge, orderAges, mainVars>>

\* ParseForm has the whole form.
FormRead == Uploading /\ NextCall

PostAnswered == Posting /\ order = "answered" /\ NextCall

\* getJSON returns a list or, at the latest after its timeout, nothing.
ListEnds == Listing /\ NextCall

Leaves(how) ==
  /\ gate' = how
  /\ UNCHANGED <<route, todo, requestAge, callAge, listAge, orderVars, mainVars>>

\* ParseForm fails: ReadTimeout, a browser that leaves, or a bad form.
FormFails == Uploading /\ Leaves("failed")

\* Do returns an error: the browser has left and with it r.Context(), the
\* connection broke, or order-svc is gone.  The order stays what it is: on its
\* way, perhaps for ever, or in order-svc's hands.
PostFails == Posting /\ Leaves("failed")

\* Faulty variant of PostTimesOut: the gateway waits as short as order-svc does.
PostTimesOutEarly == Posting /\ callAge >= CallLimit /\ Leaves("timedout")

\* Do returns the error of the client's own timeout.
PostTimesOut == Posting /\ callAge >= ClientLimit /\ Leaves("timedout")

\* Faulty variant of Reply: the write limit is that of ReadTimeout.
ReplyEarly ==
  /\ Replying
  /\ \/ requestAge <= ReadLimit /\ Leaves("answered")
     \/ requestAge >= ReadLimit /\ Leaves("cut")

\* The page is ready, before WriteTimeout has run out or too late.  How long the
\* browser then takes to read it is its own matter.
Reply ==
  /\ Replying
  /\ \/ requestAge <= WriteLimit /\ Leaves("answered")
     \/ requestAge >= WriteLimit /\ Leaves("cut")

-----------------------------------------------------------------------------
(* order-svc.                                                              *)

OrderGoesTo(state) == order' = state /\ UNCHANGED <<gateVars, mainVars>>

\* A handler starts when the header is there.  Shutdown closes the listener and
\* idle connections, but not those that have had no request yet: such a one may
\* bring its first for as long as ReadHeaderTimeout lets it.
Accept ==
  /\ order = "sent"
  /\ main = "serving" \/ (main = "draining" /\ drainAge <= HeaderLimit)
  /\ OrderGoesTo("reading")
  /\ acceptAge' = drainAge
  /\ UNCHANGED <<queueAge, readAge, orderAge, fetchAge>>

\* The body is decoded and complete, or the order ends with 400, at the latest
\* by ReadTimeout.
BodyEnds ==
  /\ order = "reading"
  /\ OrderGoesTo("customer") \/ OrderGoesTo("answered")
  /\ UNCHANGED orderAges

CustomerFound ==
  /\ order = "customer"
  /\ OrderGoesTo("product")
  /\ fetchAge' = 0
  /\ UNCHANGED <<queueAge, readAge, orderAge, acceptAge>>

\* Faulty variant of FetchEnds: a call that timed out is made again.
RetryFetch ==
  /\ Running
  /\ \/ fetchAge < CallLimit /\ OrderGoesTo("answered") /\ UNCHANGED fetchAge
     \/ fetchAge >= CallLimit /\ OrderGoesTo(order) /\ fetchAge' = 0
  /\ UNCHANGED <<queueAge, readAge, orderAge, acceptAge>>

\* The product is found, or a call fails, in time or by its timeout or with the
\* gateway's own: the order is stored and answered at once.
FetchEnds ==
  /\ Running
  /\ OrderGoesTo("answered")
  /\ UNCHANGED orderAges

MainGoesTo(state) == main' = state /\ UNCHANGED <<gateVars, orderAges, drainAge>>

Signal ==
  /\ main = "serving"
  /\ MainGoesTo("draining")
  /\ UNCHANGED order

\* Shutdown found no active connection.
Drained ==
  /\ main = "draining"
  /\ ~Handling
  /\ MainGoesTo("flushing")
  /\ UNCHANGED order

\* Faulty variant of DrainTimeout: Shutdown gets the time of one call.
DrainShort ==
  /\ main = "draining"
  /\ drainAge >= CallLimit
  /\ MainGoesTo("flushing")
  /\ UNCHANGED order

\* Shutdown's context is over.
DrainTimeout ==
  /\ main = "draining"
  /\ drainAge >= DrainLimit
  /\ MainGoesTo("flushing")
  /\ UNCHANGED order

\* main returns from the deferred flush of the logs, and ends a handler that
\* still works.
Exit ==
  /\ main = "flushing"
  /\ MainGoesTo("gone")
  /\ order' = IF Handling THEN "cut" ELSE order

Next ==
  \/ Tick
  \/ Arrive \/ FormRead \/ FormFails
  \/ PostAnswered \/ PostFails \/ PostTimesOut \/ ListEnds \/ Reply
  \/ Accept \/ BodyEnds \/ CustomerFound \/ FetchEnds
  \/ Signal \/ Drained \/ DrainTimeout \/ Exit

Spec == Init /\ [][Next]_vars

-----------------------------------------------------------------------------

\* What the clocks may show: none passes its limit, and while the gateway waits
\* for an order its clock is the sum of the order's.
ClocksOK ==
  /\ gate \in {"idle", "calling", "answered", "failed", "timedout", "cut"}
  /\ route \in {"none"} \cup DOMAIN Calls
  /\ order \in {"none", "sent", "reading", "customer", "product", "answered", "cut"}
  /\ main \in {"serving", "draining", "flushing", "gone"}
  /\ readAge <= ReadLimit
  /\ fetchAge <= CallLimit
  /\ drainAge <= DrainLimit
  /\ Posting /\ (order = "sent" \/ Handling) =>
       callAge = queueAge + readAge + orderAge

\* order-svc works on an order no longer than its two calls may take, whatever
\* the other services do, and with the wait for its body ends it before
\* WriteTimeout: no order is stored whose answer its own server cuts off.
OrderInTime == orderAge <= 2 * CallLimit /\ readAge + orderAge < WriteLimit

\* Shutdown ends no order that came before the signal and could still be done in
\* its time: one that is cut off was with its handler for all of DrainLimit.
\* One that came after it, on a connection that Shutdown had to leave open, has
\* lost at most HeaderLimit of that.
DrainSuffices ==
  order = "cut" =>
    /\ acceptAge = 0 => readAge + orderAge >= DrainLimit
    /\ readAge + orderAge + HeaderLimit >= DrainLimit

\* The client's timeout, unlike a browser that leaves or a connection that
\* breaks, never ends the wait for an order because of the customer call alone:
\* at least the rest of its time went into the way to the handler and the body.
AbandonedLate ==
  gate = "timedout" /\ Handling =>
    /\ queueAge + readAge + orderAge >= ClientLimit
    /\ order = "customer" => queueAge + readAge >= ClientLimit - CallLimit

\* A page is ready too late for WriteTimeout only on a route with three lists,
\* and only if these took all of it but the limits of the form and the POST.
CutPageListsSlow ==
  gate = "cut" =>
    \/ route = "lists" /\ listAge >= WriteLimit
    \/ route = "form" /\ listAge + ReadLimit + ClientLimit >= WriteLimit

\* Each request leaves the gateway's handler within the limits of what its route
\* waits for.
RequestBounded ==
  gate = "calling" =>
    /\ route = "form" => requestAge <= ReadLimit + 4 * ClientLimit
    /\ route = "proxy" => requestAge <= ClientLimit
    /\ route = "lists" => requestAge <= 3 * ClientLimit
    /\ route = "trigger" => requestAge <= 2 * ClientLimit
=============================================================================
