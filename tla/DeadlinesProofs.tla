-------------------------- MODULE DeadlinesProofs --------------------------
(***************************************************************************)
(* The properties of Deadlines for all limits that LimitsAssumption        *)
(* admits.  The clocks are linked by where each actor stands: that is the  *)
(* inductive invariant, one part per actor.                                *)
(***************************************************************************)
EXTENDS Deadlines, TLAPS

\* What can be left of a route's calls.
AtForm == <<"FORM", "POST", "GET", "GET", "GET">>
AtFormPost == <<"POST", "GET", "GET", "GET">>
AtThree == <<"GET", "GET", "GET">>
AtTwo == <<"GET", "GET">>
AtOne == <<"GET">>
AtPost == <<"POST">>
AtTrigger == <<"GET", "POST">>

\* The gateway is at calls, and those before them have taken at most spent.
Stage(r, calls, spent) ==
  route = r /\ todo = calls /\ requestAge <= spent + callAge

Stages ==
  \/ Stage("form", AtForm, 0)
  \/ Stage("form", AtFormPost, ReadLimit)
  \/ Stage("form", AtThree, ReadLimit + ClientLimit)
  \/ Stage("form", AtTwo, ReadLimit + 2 * ClientLimit)
  \/ Stage("form", AtOne, ReadLimit + 3 * ClientLimit)
  \/ Stage("form", <<>>, ReadLimit + 4 * ClientLimit)
  \/ Stage("proxy", AtPost, 0)
  \/ Stage("proxy", <<>>, ClientLimit)
  \/ Stage("lists", AtThree, 0)
  \/ Stage("lists", AtTwo, ClientLimit)
  \/ Stage("lists", AtOne, 2 * ClientLimit)
  \/ Stage("lists", <<>>, 3 * ClientLimit)
  \/ Stage("trigger", AtTrigger, 0)
  \/ Stage("trigger", AtPost, ClientLimit)
  \/ Stage("trigger", <<>>, 2 * ClientLimit)

Types ==
  /\ gate \in {"idle", "calling", "answered", "failed", "timedout", "cut"}
  /\ route \in {"none", "form", "proxy", "lists", "trigger"}
  /\ order \in {"none", "sent", "reading", "customer", "product", "answered", "cut"}
  /\ main \in {"serving", "draining", "flushing", "gone"}
  /\ requestAge \in Nat /\ callAge \in Nat /\ listAge \in Nat
  /\ queueAge \in Nat /\ readAge \in Nat /\ orderAge \in Nat
  /\ fetchAge \in Nat /\ drainAge \in Nat /\ acceptAge \in Nat

\* The gateway: what is over has used at most its limit.
GateInv ==
  /\ gate = "idle" =>
       order = "none" /\ requestAge = 0 /\ callAge = 0 /\ listAge = 0
  /\ gate = "calling" =>
       /\ Stages
       /\ todo = <<>> => callAge = 0
       /\ callAge <= IF Uploading THEN ReadLimit ELSE ClientLimit
       /\ Uploading => listAge = 0
       /\ todo \in {AtForm, AtTrigger} => order = "none"
       /\ route = "lists" => requestAge <= listAge
       /\ route = "form" =>
            requestAge <= listAge + (IF Uploading THEN callAge
                                     ELSE IF Posting THEN ReadLimit + callAge
                                     ELSE ReadLimit + ClientLimit)
  /\ CutPageListsSlow

\* The order: while the gateway waits for it the gateway's clock is the sum of
\* the order's, and when it timed out on it that sum was the limit.
OrderInv ==
  /\ order = "none" => queueAge = 0
  /\ order \in {"none", "sent"} =>
       readAge = 0 /\ orderAge = 0 /\ fetchAge = 0 /\ acceptAge = 0
  /\ order = "reading" => orderAge = 0 /\ fetchAge = 0
  /\ order = "sent" \/ Handling =>
       /\ Posting \/ gate \in {"failed", "timedout"}
       /\ Posting => callAge = queueAge + readAge + orderAge
       /\ gate = "timedout" => queueAge + readAge + orderAge >= ClientLimit
  /\ readAge <= ReadLimit
  /\ fetchAge <= CallLimit
  /\ order = "customer" => orderAge = fetchAge
  /\ order = "product" => orderAge <= CallLimit + fetchAge
  /\ orderAge <= 2 * CallLimit

\* main: a handler at work has had all of the drain since it got its order.
MainInv ==
  /\ main = "serving" => drainAge = 0
  /\ drainAge <= DrainLimit
  /\ acceptAge <= HeaderLimit
  /\ Handling => main # "gone" /\ drainAge <= acceptAge + readAge + orderAge
  /\ Handling /\ main = "flushing" => drainAge = DrainLimit
  /\ DrainSuffices

IInv == Types /\ GateInv /\ OrderInv /\ MainInv

-----------------------------------------------------------------------------

LEMMA CallFacts ==
  /\ DOMAIN Calls = {"form", "proxy", "lists", "trigger"}
  /\ Calls["form"] = AtForm /\ Calls["proxy"] = AtPost
  /\ Calls["lists"] = AtThree /\ Calls["trigger"] = AtTrigger
  /\ AtForm # <<>> /\ Head(AtForm) = "FORM" /\ Tail(AtForm) = AtFormPost
  /\ AtFormPost # <<>> /\ Head(AtFormPost) = "POST" /\ Tail(AtFormPost) = AtThree
  /\ AtThree # <<>> /\ Head(AtThree) = "GET" /\ Tail(AtThree) = AtTwo
  /\ AtTwo # <<>> /\ Head(AtTwo) = "GET" /\ Tail(AtTwo) = AtOne
  /\ AtOne # <<>> /\ Head(AtOne) = "GET" /\ Tail(AtOne) = <<>>
  /\ AtPost # <<>> /\ Head(AtPost) = "POST" /\ Tail(AtPost) = <<>>
  /\ AtTrigger # <<>> /\ Head(AtTrigger) = "GET" /\ Tail(AtTrigger) = AtPost
<1>1. /\ DOMAIN Calls = {"form", "proxy", "lists", "trigger"}
      /\ Calls["form"] = AtForm /\ Calls["proxy"] = AtPost
      /\ Calls["lists"] = AtThree /\ Calls["trigger"] = AtTrigger
  BY DEF Calls, AtForm, AtPost, AtThree, AtTrigger
<1>2. AtForm # <<>> /\ Head(AtForm) = "FORM" /\ Tail(AtForm) = AtFormPost
  BY DEF AtForm, AtFormPost
<1>3. AtFormPost # <<>> /\ Head(AtFormPost) = "POST" /\ Tail(AtFormPost) = AtThree
  BY DEF AtFormPost, AtThree
<1>4. AtThree # <<>> /\ Head(AtThree) = "GET" /\ Tail(AtThree) = AtTwo
  BY DEF AtThree, AtTwo
<1>5. AtTwo # <<>> /\ Head(AtTwo) = "GET" /\ Tail(AtTwo) = AtOne
  BY DEF AtTwo, AtOne
<1>6. AtOne # <<>> /\ Head(AtOne) = "GET" /\ Tail(AtOne) = <<>>
  BY DEF AtOne
<1>7. AtPost # <<>> /\ Head(AtPost) = "POST" /\ Tail(AtPost) = <<>>
  BY DEF AtPost
<1>8. AtTrigger # <<>> /\ Head(AtTrigger) = "GET" /\ Tail(AtTrigger) = AtPost
  BY DEF AtTrigger, AtPost
<1>9. QED
  BY <1>1, <1>2, <1>3, <1>4, <1>5, <1>6, <1>7, <1>8

\* Only at its start has the gateway calls before an order.
LEMMA StartsDiffer ==
  {AtForm, AtTrigger} \cap {AtFormPost, AtThree, AtTwo, AtOne, AtPost, <<>>} = {}
<1>1. AtForm \notin {AtFormPost, AtThree, AtTwo, AtOne, AtPost, <<>>}
  BY CallFacts
<1>2. AtTrigger \notin {AtFormPost, AtPost, <<>>}
  BY CallFacts
<1>3. AtTrigger # AtThree /\ AtTrigger # AtTwo /\ AtTrigger # AtOne
  <2>1. AtPost # AtTwo /\ AtPost # AtOne /\ AtPost # <<>>
    BY CallFacts
  <2>2. QED
    BY <2>1, CallFacts
<1>4. QED
  BY <1>1, <1>2, <1>3

LEMMA Initial == Init => IInv
<1> SUFFICES ASSUME Init PROVE IInv
  OBVIOUS
<1> USE DEF Init
<1>1. Types
  BY DEF Types
<1>2. GateInv
  BY DEF GateInv, CutPageListsSlow
<1>3. OrderInv
  BY LimitsAssumption DEF OrderInv, Handling, Running
<1>4. MainInv
  BY LimitsAssumption DEF MainInv, Handling, Running, DrainSuffices
<1>5. QED
  BY <1>1, <1>2, <1>3, <1>4 DEF IInv

USE LimitsAssumption

LEMMA TickStep == IInv /\ Tick => IInv'
<1> SUFFICES ASSUME IInv, Tick PROVE IInv'
  OBVIOUS
<1> USE DEF IInv, Types
<1>1. /\ todo' = todo /\ gate' = gate /\ order' = order /\ main' = main
      /\ route' = route /\ acceptAge' = acceptAge
  BY DEF Tick
<1>2. /\ Uploading' = Uploading /\ Posting' = Posting /\ Listing' = Listing
      /\ Running' = Running /\ Handling' = Handling
  BY <1>1 DEF Uploading, Posting, Listing, WaitsFor, Running, Handling
<1>3. /\ requestAge' = IF gate = "calling" THEN requestAge + 1 ELSE requestAge
      /\ callAge' = IF gate = "calling" THEN callAge + 1 ELSE callAge
      /\ listAge' = IF Listing THEN listAge + 1 ELSE listAge
      /\ queueAge' = IF Posting /\ order = "sent" THEN queueAge + 1 ELSE queueAge
      /\ readAge' = IF order = "reading" THEN readAge + 1 ELSE readAge
      /\ orderAge' = IF Running THEN orderAge + 1 ELSE orderAge
      /\ fetchAge' = IF Running THEN fetchAge + 1 ELSE fetchAge
      /\ drainAge' = IF main = "draining" THEN drainAge + 1 ELSE drainAge
  BY DEF Tick, Later
<1>4. /\ gate = "calling" => todo # <<>>
      /\ Uploading => callAge < ReadLimit
      /\ Posting \/ Listing => callAge < ClientLimit
      /\ order = "reading" => readAge < ReadLimit
      /\ Running => fetchAge < CallLimit
      /\ main = "draining" => drainAge < DrainLimit
  BY DEF Tick, Overdue, Replying
<1>5. Types'
  BY <1>1, <1>3
<1>6. GateInv'
  <2>1. CutPageListsSlow'
    BY <1>1, <1>3 DEF CutPageListsSlow, GateInv, Listing, WaitsFor
  <2>2. ASSUME gate = "calling" PROVE Stages'
    <3>1. Stages /\ requestAge' = requestAge + 1 /\ callAge' = callAge + 1
      BY <2>2, <1>3 DEF GateInv
    <3>2. ASSUME NEW r, NEW t, NEW n \in Nat, Stage(r, t, n) PROVE Stage(r, t, n)'
      BY <3>1, <3>2, <1>1 DEF Stage
    <3>3. QED
      BY <3>1, <3>2 DEF Stages
  <2>3. ASSUME gate = "calling"
        PROVE  \/ Uploading /\ ~Posting /\ ~Listing
               \/ Posting /\ ~Uploading /\ ~Listing
               \/ Listing /\ ~Uploading /\ ~Posting
    BY <2>3, <1>4, CallFacts
    DEF GateInv, Stages, Stage, Uploading, Posting, Listing, WaitsFor
  <2>4. ASSUME gate = "calling"
        PROVE  /\ callAge' <= IF Uploading' THEN ReadLimit ELSE ClientLimit
               /\ Uploading' => listAge' = 0
    BY <2>3, <2>4, <1>2, <1>3, <1>4 DEF GateInv
  <2>5. ASSUME gate = "calling", route = "lists"
        PROVE  requestAge' <= listAge'
    <3>1. Listing
      BY <2>5, <1>4, CallFacts DEF GateInv, Stages, Stage, Listing, WaitsFor
    <3>2. QED
      BY <3>1, <2>5, <1>3 DEF GateInv
  <2>6. ASSUME gate = "calling", route = "form"
        PROVE  requestAge' <= listAge' + (IF Uploading' THEN callAge'
                                          ELSE IF Posting' THEN ReadLimit + callAge'
                                          ELSE ReadLimit + ClientLimit)
    BY <2>3, <2>6, <1>2, <1>3 DEF GateInv
  <2>7. gate = "idle" => /\ requestAge' = 0 /\ callAge' = 0 /\ listAge' = 0
    BY <1>3 DEF GateInv, Listing, WaitsFor
  <2>8. QED
    BY <1>1, <1>4, <2>1, <2>2, <2>4, <2>5, <2>6, <2>7 DEF GateInv
<1>7. OrderInv'
  BY <1>1, <1>2, <1>3, <1>4 DEF OrderInv, Handling, Running, Posting, WaitsFor
<1>8. MainInv'
  BY <1>1, <1>2, <1>3, <1>4 DEF MainInv, Handling, Running, DrainSuffices
<1>9. QED
  BY <1>5, <1>6, <1>7, <1>8

LEMMA ArriveStep == IInv /\ Arrive => IInv'
<1> SUFFICES ASSUME IInv, Arrive PROVE IInv'
  OBVIOUS
<1> USE DEF IInv, Types
<1>1. PICK r \in DOMAIN Calls : route' = r /\ GoOn(Calls[r])
  BY DEF Arrive
<1>2. /\ gate = "idle" /\ gate' = "calling" /\ order = "none"
      /\ requestAge' = 0 /\ callAge' = 0 /\ listAge' = 0
      /\ queueAge' = 0 /\ readAge' = 0 /\ orderAge' = 0 /\ fetchAge' = 0
      /\ acceptAge' = 0 /\ main' = main /\ drainAge' = drainAge
  BY <1>1 DEF Arrive, GoOn, GateInv, OrderInv, mainVars, orderAges
<1>3. \/ route' = "form" /\ todo' = AtForm /\ order' = "none"
      \/ route' = "proxy" /\ todo' = AtPost /\ order' = "sent"
      \/ route' = "lists" /\ todo' = AtThree /\ order' = "none"
      \/ route' = "trigger" /\ todo' = AtTrigger /\ order' = "none"
  BY <1>1, <1>2, CallFacts DEF GoOn
<1>4. Types'
  BY <1>2, <1>3
<1>5. GateInv'
  <2>1. Stages'
    BY <1>2, <1>3 DEF Stages, Stage
  <2>2. todo' = AtPost => todo' \notin {AtForm, AtTrigger}
    BY StartsDiffer
  <2>3. QED
    BY <1>2, <1>3, <2>1, <2>2, CallFacts DEF GateInv, CutPageListsSlow
<1>6. ~Handling' /\ (order' = "sent" => Posting')
  BY <1>2, <1>3, CallFacts DEF Handling, Running, Posting, WaitsFor
<1>7. OrderInv'
  BY <1>2, <1>3, <1>6 DEF OrderInv
<1>8. MainInv'
  BY <1>2, <1>3, <1>6 DEF MainInv, DrainSuffices
<1>9. QED
  BY <1>4, <1>5, <1>7, <1>8

\* One call is over: its limit goes over to what was spent.
LEMMA NextCallGate ==
  ASSUME IInv, gate = "calling", todo # <<>>, NextCall
  PROVE  Types' /\ GateInv'
<1> USE DEF IInv, Types
<1>1. /\ gate' = gate /\ route' = route /\ todo' = Tail(todo)
      /\ requestAge' = requestAge /\ callAge' = 0 /\ listAge' = listAge
      /\ UNCHANGED <<queueAge, readAge, orderAge, fetchAge, acceptAge, main, drainAge>>
      /\ order' = order \/ order' = "sent"
  BY DEF NextCall, GoOn, orderAges, mainVars
<1>2. Types'
  BY <1>1
<1>3. \/ Stage("form", AtForm, 0) /\ callAge <= ReadLimit
      \/ Stages /\ callAge <= ClientLimit /\ todo # AtForm
  BY CallFacts DEF GateInv, Stages, Stage, Uploading, WaitsFor
<1>4. Stages'
  <2>1. CASE Stage("form", AtForm, 0) /\ callAge <= ReadLimit
    BY <1>1, <2>1, CallFacts DEF Stages, Stage
  <2>2. CASE Stages /\ callAge <= ClientLimit /\ todo # AtForm
    <3>1. requestAge' = requestAge /\ callAge' = 0 /\ callAge <= ClientLimit
      BY <1>1, <2>2
    <3>2. /\ requestAge <= ReadLimit + callAge =>
               requestAge' <= ReadLimit + ClientLimit + callAge'
          /\ requestAge <= ReadLimit + ClientLimit + callAge =>
               requestAge' <= ReadLimit + 2 * ClientLimit + callAge'
          /\ requestAge <= ReadLimit + 2 * ClientLimit + callAge =>
               requestAge' <= ReadLimit + 3 * ClientLimit + callAge'
          /\ requestAge <= ReadLimit + 3 * ClientLimit + callAge =>
               requestAge' <= ReadLimit + 4 * ClientLimit + callAge'
          /\ requestAge <= 0 + callAge => requestAge' <= ClientLimit + callAge'
          /\ requestAge <= ClientLimit + callAge =>
               requestAge' <= 2 * ClientLimit + callAge'
          /\ requestAge <= 2 * ClientLimit + callAge =>
               requestAge' <= 3 * ClientLimit + callAge'
      BY <3>1
    <3>3. route' = route /\ todo' = Tail(todo)
      BY <1>1
    <3>4. CASE route = "form"
      BY <2>2, <3>2, <3>3, <3>4, CallFacts, Zenon DEF Stages, Stage
    <3>5. CASE route = "proxy"
      BY <2>2, <3>2, <3>3, <3>5, CallFacts, Zenon DEF Stages, Stage
    <3>6. CASE route = "lists"
      BY <2>2, <3>2, <3>3, <3>6, CallFacts, Zenon DEF Stages, Stage
    <3>7. CASE route = "trigger"
      BY <2>2, <3>2, <3>3, <3>7, CallFacts, Zenon DEF Stages, Stage
    <3>8. QED
      BY <2>2, <3>4, <3>5, <3>6, <3>7 DEF Stages, Stage
  <2>3. QED
    BY <1>3, <2>1, <2>2
<1>5. todo' \in {AtFormPost, AtThree, AtTwo, AtOne, AtPost, <<>>}
  BY <1>1, CallFacts DEF GateInv, Stages, Stage
<1>6. todo' \notin {AtForm, AtTrigger}
  BY <1>5, StartsDiffer
<1>7. ~Uploading'
  BY <1>5, CallFacts DEF Uploading, WaitsFor
<1>8. route = "lists" => requestAge' <= listAge'
  BY <1>1 DEF GateInv
<1>9. ASSUME route = "form"
      PROVE  requestAge' <= listAge' + (IF Posting' THEN ReadLimit + callAge'
                                        ELSE ReadLimit + ClientLimit)
  <2>1. CASE Uploading
    <3>1. Posting'
      BY <1>1, <1>9, <2>1, CallFacts
      DEF GateInv, Stages, Stage, Uploading, Posting, WaitsFor
    <3>2. QED
      BY <1>1, <1>9, <2>1, <3>1 DEF GateInv
  <2>2. CASE ~Uploading
    <3>1. ~Posting'
      BY <1>1, <1>9, <2>2, CallFacts
      DEF GateInv, Stages, Stage, Uploading, Posting, WaitsFor
    <3>2. QED
      BY <1>1, <1>9, <2>2, <3>1 DEF GateInv
  <2>3. QED
    BY <2>1, <2>2
<1>10. QED
  BY <1>1, <1>2, <1>4, <1>6, <1>7, <1>8, <1>9 DEF GateInv, CutPageListsSlow

\* The next call sends the order.
LEMMA SendStep ==
  ASSUME IInv, NextCall, gate = "calling", todo \in {AtForm, AtTrigger}
  PROVE  IInv'
<1> USE DEF IInv, Types
<1>1. Types' /\ GateInv'
  BY NextCallGate, CallFacts
<1>2. /\ order = "none" /\ order' = "sent" /\ callAge' = 0
      /\ UNCHANGED <<queueAge, readAge, orderAge, fetchAge, acceptAge, main, drainAge>>
      /\ gate' = "calling" /\ ~Handling'
  BY CallFacts DEF GateInv, NextCall, GoOn, orderAges, mainVars, Handling, Running
<1>3. Posting'
  BY CallFacts DEF NextCall, GoOn, Posting, WaitsFor
<1>4. OrderInv'
  BY <1>2, <1>3 DEF OrderInv
<1>5. MainInv'
  BY <1>2 DEF MainInv, DrainSuffices
<1>6. QED
  BY <1>1, <1>4, <1>5

\* The next call is a list, or there is none.
LEMMA ListStep ==
  ASSUME IInv, NextCall, gate = "calling", todo # <<>>,
         todo \notin {AtForm, AtTrigger}, order \notin {"sent"}, ~Handling
  PROVE  IInv'
<1> USE DEF IInv, Types
<1>1. Types' /\ GateInv'
  BY NextCallGate
<1>2. /\ order' = order /\ ~Handling'
      /\ UNCHANGED <<queueAge, readAge, orderAge, fetchAge, acceptAge, main, drainAge>>
  BY CallFacts
  DEF GateInv, Stages, Stage, NextCall, GoOn, orderAges, mainVars, Handling, Running
<1>3. OrderInv'
  BY <1>2 DEF OrderInv, Handling, Running
<1>4. MainInv'
  BY <1>2 DEF MainInv, DrainSuffices
<1>5. QED
  BY <1>1, <1>3, <1>4

LEMMA GatewayStep ==
  IInv /\ (FormRead \/ PostAnswered \/ ListEnds) => IInv'
<1>1. ASSUME IInv, FormRead PROVE IInv'
  <2>1. gate = "calling" /\ todo = AtForm /\ NextCall
    BY <1>1, CallFacts
    DEF FormRead, Uploading, WaitsFor, IInv, GateInv, Stages, Stage
  <2>2. QED
    BY <1>1, <2>1, SendStep
<1>2. ASSUME IInv, PostAnswered PROVE IInv'
  <2>1. /\ gate = "calling" /\ todo # <<>> /\ Head(todo) = "POST" /\ NextCall
        /\ order = "answered" /\ ~Handling
    BY <1>2 DEF PostAnswered, Posting, WaitsFor, Handling, Running
  <2>2. todo \notin {AtForm, AtTrigger}
    BY <2>1, CallFacts
  <2>3. QED
    BY <1>2, <2>1, <2>2, ListStep
<1>3. ASSUME IInv, ListEnds PROVE IInv'
  <2>1. /\ gate = "calling" /\ todo # <<>> /\ Head(todo) = "GET" /\ NextCall
        /\ ~Posting /\ todo # AtForm
    BY <1>3, CallFacts DEF ListEnds, Listing, Posting, WaitsFor
  <2>2. order # "sent" /\ ~Handling
    BY <1>3, <2>1 DEF IInv, OrderInv
  <2>3. CASE todo = AtTrigger
    BY <1>3, <2>1, <2>3, SendStep
  <2>4. CASE todo # AtTrigger
    BY <1>3, <2>1, <2>2, <2>4, ListStep
  <2>5. QED
    BY <2>3, <2>4
<1>4. QED
  BY <1>1, <1>2, <1>3

\* The handler leaves, with the page or an error.
LEMMA LeaveStep ==
  IInv /\ (FormFails \/ PostFails \/ PostTimesOut \/ Reply) => IInv'
<1> SUFFICES ASSUME IInv, FormFails \/ PostFails \/ PostTimesOut \/ Reply PROVE IInv'
  OBVIOUS
<1> USE DEF IInv, Types
<1>1. PICK how \in {"answered", "failed", "timedout", "cut"} :
        /\ gate = "calling" /\ Leaves(how)
        /\ how \in {"answered", "cut"} => Replying
        /\ how = "failed" => Uploading \/ Posting
        /\ how = "timedout" => Posting /\ callAge >= ClientLimit
        /\ how = "cut" => requestAge >= WriteLimit
  BY DEF FormFails, PostFails, PostTimesOut, Reply, Replying, Uploading, Posting, WaitsFor
<1>2. /\ gate' = how /\ UNCHANGED <<route, todo, requestAge, callAge, listAge>>
      /\ UNCHANGED <<order, queueAge, readAge, orderAge, fetchAge, acceptAge>>
      /\ UNCHANGED <<main, drainAge>>
      /\ ~Posting' /\ Handling' = Handling /\ Running' = Running
  BY <1>1 DEF Leaves, orderVars, orderAges, mainVars, Posting, WaitsFor, Handling, Running
<1>3. Types'
  BY <1>1, <1>2
<1>4. GateInv'
  <2>1. ASSUME how = "cut" PROVE CutPageListsSlow'
    <3>1. todo = <<>> /\ callAge = 0 /\ requestAge >= WriteLimit
      BY <1>1, <2>1 DEF Replying, GateInv
    <3>2. ~Uploading /\ ~Posting
      BY <3>1 DEF Uploading, Posting, WaitsFor
    <3>3. route \in {"lists", "form"}
      BY <1>1, <3>1, CallFacts DEF GateInv, Stages, Stage
    <3>4. QED
      BY <1>1, <1>2, <3>1, <3>2, <3>3 DEF GateInv, CutPageListsSlow
  <2>2. QED
    BY <1>1, <1>2, <2>1 DEF GateInv, CutPageListsSlow
<1>5. OrderInv'
  <2>1. order = "sent" \/ Handling => how # "answered" /\ how # "cut"
    BY <1>1 DEF OrderInv, Replying, Posting, WaitsFor
  <2>2. QED
    BY <1>1, <1>2, <2>1 DEF OrderInv
<1>6. MainInv'
  BY <1>2 DEF MainInv, DrainSuffices
<1>7. QED
  BY <1>3, <1>4, <1>5, <1>6

\* The steps of order-svc and its main leave the gateway as it is.
LEMMA GateStays ==
  ASSUME IInv, UNCHANGED gateVars, order' # order => order # "none"
  PROVE  GateInv' /\ Posting' = Posting
<1>1. Posting' = Posting /\ Uploading' = Uploading
  BY DEF gateVars, Posting, Uploading, WaitsFor
<1>2. Stages' = Stages
  BY DEF gateVars, Stages, Stage
<1>3. QED
  BY <1>1, <1>2 DEF IInv, Types, GateInv, CutPageListsSlow, gateVars

LEMMA OrderStep ==
  IInv /\ (Accept \/ BodyEnds \/ CustomerFound \/ FetchEnds) => IInv'
<1> SUFFICES ASSUME IInv, Accept \/ BodyEnds \/ CustomerFound \/ FetchEnds
             PROVE  IInv'
  OBVIOUS
<1> USE DEF IInv, Types
<1>1. /\ UNCHANGED gateVars /\ UNCHANGED <<main, drainAge>> /\ order # "none"
      /\ order' \in {"reading", "customer", "product", "answered"}
      /\ UNCHANGED <<queueAge, readAge, orderAge>>
      /\ fetchAge' \in {fetchAge, 0}
      /\ acceptAge' \in {acceptAge, drainAge}
  BY DEF Accept, BodyEnds, CustomerFound, FetchEnds, OrderGoesTo, Running,
         orderAges, mainVars
<1>2. Types'
  BY <1>1 DEF gateVars
<1>3. GateInv' /\ Posting' = Posting
  BY <1>1, GateStays
<1>4. UNCHANGED <<gate, callAge>>
  BY <1>1 DEF gateVars
<1>5. CASE Accept
  <2>1. /\ order = "sent" /\ order' = "reading" /\ acceptAge' = drainAge /\ fetchAge' = fetchAge
        /\ main = "serving" \/ (main = "draining" /\ drainAge <= HeaderLimit)
    BY <1>5 DEF Accept, OrderGoesTo
  <2>2. OrderInv'
    BY <1>1, <1>3, <1>4, <2>1 DEF OrderInv, Handling, Running
  <2>3. MainInv'
    BY <1>1, <2>1 DEF MainInv, OrderInv, Handling, Running, DrainSuffices
  <2>4. QED
    BY <1>2, <1>3, <2>2, <2>3
<1>6. CASE BodyEnds
  <2>1. /\ order = "reading" /\ order' \in {"customer", "answered"}
        /\ acceptAge' = acceptAge /\ fetchAge' = fetchAge
    BY <1>6 DEF BodyEnds, OrderGoesTo, orderAges
  <2>2. OrderInv'
    BY <1>1, <1>3, <1>4, <2>1 DEF OrderInv, Handling, Running
  <2>3. MainInv'
    BY <1>1, <2>1 DEF MainInv, Handling, Running, DrainSuffices
  <2>4. QED
    BY <1>2, <1>3, <2>2, <2>3
<1>7. CASE CustomerFound
  <2>1. /\ order = "customer" /\ order' = "product"
        /\ acceptAge' = acceptAge /\ fetchAge' = 0
    BY <1>7 DEF CustomerFound, OrderGoesTo
  <2>2. OrderInv'
    BY <1>1, <1>3, <1>4, <2>1 DEF OrderInv, Handling, Running
  <2>3. MainInv'
    BY <1>1, <2>1 DEF MainInv, Handling, Running, DrainSuffices
  <2>4. QED
    BY <1>2, <1>3, <2>2, <2>3
<1>8. CASE FetchEnds
  <2>1. /\ Running /\ order' = "answered"
        /\ acceptAge' = acceptAge /\ fetchAge' = fetchAge
    BY <1>8 DEF FetchEnds, OrderGoesTo, orderAges
  <2>2. OrderInv'
    BY <1>1, <1>3, <1>4, <2>1 DEF OrderInv, Handling, Running
  <2>3. MainInv'
    BY <1>1, <2>1 DEF MainInv, Handling, Running, DrainSuffices
  <2>4. QED
    BY <1>2, <1>3, <2>2, <2>3
<1>9. QED
  BY <1>5, <1>6, <1>7, <1>8

LEMMA MainStep ==
  IInv /\ (Signal \/ Drained \/ DrainTimeout \/ Exit) => IInv'
<1> SUFFICES ASSUME IInv, Signal \/ Drained \/ DrainTimeout \/ Exit PROVE IInv'
  OBVIOUS
<1> USE DEF IInv, Types
<1>1. /\ UNCHANGED gateVars
      /\ UNCHANGED <<queueAge, readAge, orderAge, fetchAge, acceptAge, drainAge>>
      /\ main' \in {"draining", "flushing", "gone"}
      /\ order' = order \/ (Exit /\ Handling /\ order' = "cut")
  BY DEF Signal, Drained, DrainTimeout, Exit, MainGoesTo, orderAges
<1>2. Types'
  BY <1>1 DEF gateVars
<1>3. GateInv' /\ Posting' = Posting
  BY <1>1, GateStays DEF Handling, Running
<1>4. OrderInv'
  BY <1>1, <1>3 DEF OrderInv, Handling, Running, gateVars
<1>5. MainInv'
  <2>1. CASE Signal
    BY <1>1, <2>1 DEF Signal, MainGoesTo, MainInv, Handling, Running, DrainSuffices
  <2>2. CASE Drained
    BY <1>1, <2>2 DEF Drained, MainGoesTo, MainInv, Handling, Running, DrainSuffices
  <2>3. CASE DrainTimeout
    BY <1>1, <2>3 DEF DrainTimeout, MainGoesTo, MainInv, Handling, Running, DrainSuffices
  <2>4. CASE Exit
    BY <1>1, <2>4 DEF Exit, MainGoesTo, MainInv, Handling, Running, DrainSuffices
  <2>5. QED
    BY <2>1, <2>2, <2>3, <2>4
<1>6. QED
  BY <1>2, <1>3, <1>4, <1>5

LEMMA StutterStep == IInv /\ UNCHANGED vars => IInv'
<1> SUFFICES ASSUME IInv, UNCHANGED vars PROVE IInv'
  OBVIOUS
<1> USE DEF IInv, Types, vars, gateVars, orderVars, orderAges, mainVars
<1>1. GateInv' /\ Posting' = Posting
  BY GateStays
<1>2. Handling' = Handling
  BY DEF Handling, Running
<1>3. QED
  BY <1>1, <1>2 DEF OrderInv, MainInv, DrainSuffices

THEOREM Invariance == Spec => []IInv
<1>1. Init => IInv
  BY Initial
<1>2. IInv /\ [Next]_vars => IInv'
  BY TickStep, ArriveStep, GatewayStep, LeaveStep, OrderStep, MainStep, StutterStep
  DEF Next
<1>3. QED
  BY <1>1, <1>2, PTL DEF Spec

-----------------------------------------------------------------------------

\* The clocks stay within their limits and the gateway's clock is the sum of
\* the order's, for all limits.
THEOREM ClockSafety == Spec => []ClocksOK
<1>1. IInv => ClocksOK
  BY CallFacts DEF IInv, Types, OrderInv, MainInv, ClocksOK
<1>2. QED
  BY <1>1, Invariance, PTL

\* Every order handler works for at most two call limits, and with the wait for
\* the body ends before WriteTimeout.
THEOREM OrderPunctuality == Spec => []OrderInTime
<1>1. IInv => OrderInTime
  BY DEF IInv, Types, OrderInv, OrderInTime
<1>2. QED
  BY <1>1, Invariance, PTL

\* Shutdown cuts off only an order that had all of the drain, or that came at
\* most HeaderLimit after the signal and had the rest of it.
THEOREM DrainSafety == Spec => []DrainSuffices
<1>1. IInv => DrainSuffices
  BY DEF IInv, MainInv
<1>2. QED
  BY <1>1, Invariance, PTL

\* The client's timeout ends the wait for an order in its first call only after
\* a delay before the handler worked on it.
THEOREM AbandonmentSafety == Spec => []AbandonedLate
<1>1. IInv => AbandonedLate
  BY DEF IInv, Types, OrderInv, AbandonedLate, Posting, WaitsFor
<1>2. QED
  BY <1>1, Invariance, PTL

\* A page is cut off by WriteTimeout only when its lists were slow.
THEOREM CutPageSafety == Spec => []CutPageListsSlow
<1>1. IInv => CutPageListsSlow
  BY DEF IInv, GateInv
<1>2. QED
  BY <1>1, Invariance, PTL

\* The gateway's handler is bounded by the limits of the form and its calls.
THEOREM RequestBound == Spec => []RequestBounded
<1>1. ASSUME IInv, gate = "calling"
      PROVE  RequestBounded
  <2>1. /\ Stages /\ callAge \in Nat /\ requestAge \in Nat
        /\ todo = AtForm => callAge <= ReadLimit
        /\ todo # AtForm => callAge <= ClientLimit
        /\ todo = <<>> => callAge = 0
    BY <1>1, CallFacts DEF IInv, Types, GateInv, Stages, Stage, Uploading, WaitsFor
  <2>2. CASE route = "form"
    BY <2>1, <2>2, CallFacts DEF Stages, Stage, RequestBounded
  <2>3. CASE route = "proxy"
    BY <2>1, <2>3, CallFacts DEF Stages, Stage, RequestBounded
  <2>4. CASE route = "lists"
    BY <2>1, <2>4, CallFacts DEF Stages, Stage, RequestBounded
  <2>5. CASE route = "trigger"
    BY <2>1, <2>5, CallFacts DEF Stages, Stage, RequestBounded
  <2>6. QED
    BY <2>1, <2>2, <2>3, <2>4, <2>5 DEF Stages, Stage
<1>2. IInv => RequestBounded
  BY <1>1 DEF RequestBounded
<1>3. QED
  BY <1>2, Invariance, PTL
=============================================================================
