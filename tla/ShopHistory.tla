---------------------------- MODULE ShopHistory ----------------------------
(***************************************************************************)
(* Shop with history variables.  An order is decided on answers that may   *)
(* be stale when it is stored; what can be asked is that each held at some *)
(* instant between the request and the moment the order is in the store.   *)
(***************************************************************************)
EXTENDS Shop

VARIABLES
  customerSeen,   \* the optional customers that h's order named, over that time
  productSeen     \* the optional products likewise

hvars == <<vars, customerSeen, productSeen>>

\* The history of h after a step, when now is the present value: it starts
\* when the request is accepted and ends when the order is stored.
Seen(h, past, now) ==
  IF pc'[h] = "idle" THEN {}
  ELSE IF pc'[h] \in Stored THEN past ELSE past \cup {now}

Observe ==
  /\ customerSeen' = [h \in Handlers |->
                        Seen(h, customerSeen[h], CustomerNow(h)')]
  /\ productSeen' = [h \in Handlers |->
                        Seen(h, productSeen[h], ProductNow(h)')]

HInit ==
  /\ Init
  /\ customerSeen = [h \in Handlers |-> {}]
  /\ productSeen = [h \in Handlers |-> {}]

HNext == Next /\ Observe

HSpec == HInit /\ [][HNext]_hvars /\ Fairness

-----------------------------------------------------------------------------

\* A stored order is confirmed only on facts: while the request was running
\* its customer existed, and its product existed in a version that had the
\* stock and that gives the total its price (in 64-bit arithmetic).  The two
\* need not have held together, nor hold now.
ConfirmedJustified ==
  \A h \in Handlers : pc[h] = "201" =>
    /\ customerSeen[h] \ {{}} # {}
    /\ \E p \in Product :
         /\ {p} \in productSeen[h]
         /\ p.id = PathId[draft[h].product_id]
         /\ p.stock >= draft[h].quantity
         /\ draft[h].total = Wrap(p.price * draft[h].quantity)

\* A failed order failed for the reason that its log entry gives (the error,
\* not the message, which says "not found" of every failed call): the customer was
\* really absent at some instant of the request, or it was present and the
\* product absent, or short of stock.
FailedJustified ==
  \A h \in Handlers : pc[h] = "422" =>
    /\ cause[h] = "customer not found" => {} \in customerSeen[h]
    /\ cause[h] \in {"product not found", "insufficient stock"} =>
         customerSeen[h] \ {{}} # {}
    /\ cause[h] = "product not found" => {} \in productSeen[h]
    /\ cause[h] = "insufficient stock" =>
         \E p \in Product : {p} \in productSeen[h] /\ p.stock < draft[h].quantity
=============================================================================
