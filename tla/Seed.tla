-------------------------------- MODULE Seed --------------------------------
(***************************************************************************)
(* scripts/seed.go, a client of the gateway: it posts customers, products  *)
(* and orders one after the other and counts what it is told.  Of the      *)
(* system it knows only what Placement promises.                           *)
(***************************************************************************)
EXTENDS Naturals, FiniteSets

CONSTANTS
  Runs,        \* how often the script is run
  NCustomers,  \* len(customerSeed)
  NProducts,   \* len(productSeed)
  NOrders,     \* nOrders
  Ids,         \* the ids of the records that the system creates
  InvalidId    \* "invalid-seed-customer-id"

ASSUME SeedAssumption ==
  /\ Runs \in Nat \ {0}
  /\ NCustomers \in Nat \ {0} /\ NProducts \in Nat /\ NOrders \in Nat
  /\ InvalidId \notin Ids

VARIABLES
  outcome, told,       \* of each post, as in Placement
  run,                 \* the run that is under way
  at,                  \* the post it has come to
  state,               \* ready, waiting (for the answer), done; exit: code 1
  picked,              \* the customer that each order names
  createdCustomers,    \* the ids that the answers brought
  createdProducts,
  confirmed, failed    \* the counts of the summary

servedVars == <<outcome, told>>
madeVars == <<createdCustomers, createdProducts>>
counts == <<confirmed, failed>>
vars == <<servedVars, run, at, state, picked, madeVars, counts>>

Total == NCustomers + NProducts + NOrders
Posts == (1 .. Runs) \X (1 .. Total)
Service == INSTANCE Placement WITH Requests <- Posts

Customers == 1 .. NCustomers
Products == NCustomers + 1 .. NCustomers + NProducts
Orders == NCustomers + NProducts + 1 .. Total

Current == <<run, at>>

Init ==
  /\ Service!Init
  /\ run = 1 /\ at = 1 /\ state = "ready"
  /\ picked = [r \in Posts |-> InvalidId]
  /\ createdCustomers = {} /\ createdProducts = {}
  /\ confirmed = 0 /\ failed = 0

-----------------------------------------------------------------------------
(* The system: a post that was sent takes effect and is answered.  Every   *)
(* body is complete, so that none is refused with 400.                     *)

Sent(r) ==
  \/ r[1] < run
  \/ r[1] = run /\ r[2] < at
  \/ r = Current /\ state = "waiting"

Take(r) ==
  /\ Sent(r)
  /\ Service!Take(r)
  /\ \A o \in outcome'[r] :
       /\ r[2] \notin Orders => o.ok
       /\ r[2] \in Orders /\ picked[r] = InvalidId => ~o.ok
  /\ UNCHANGED <<run, at, state, picked, madeVars, counts>>

Tell ==
  /\ state = "waiting"
  /\ Service!Tell(Current)
  /\ told'[Current] \in {"201", "422", "error"}
  /\ UNCHANGED <<run, at, state, picked, madeVars, counts>>

-----------------------------------------------------------------------------
(* The script.                                                             *)

\* post: client.Post, and the random choice of an order before it.
Post ==
  /\ state = "ready"
  /\ at <= Total
  /\ at \in Orders => createdCustomers # {} /\ createdProducts # {}
  /\ state' = "waiting"
  /\ \E id \in createdCustomers \cup {InvalidId} :
       /\ at \notin Orders => id = InvalidId
       /\ picked' = [picked EXCEPT ![Current] = id]
  /\ UNCHANGED <<servedVars, run, at, madeVars, counts>>

Answered == state = "waiting" /\ told[Current] # ""

\* Faulty variant of GoOn: a post that failed is made again, without end.
GoOnIfDone ==
  /\ state' = "ready"
  /\ at' = IF told[Current] = "error" THEN at ELSE at + 1
  /\ UNCHANGED <<servedVars, run, picked>>

GoOn == at' = at + 1 /\ state' = "ready" /\ UNCHANGED <<servedVars, run, picked>>

\* Faulty variant of AnswerIds: without the continue after an error.
ZeroIdOnError ==
  IF told[Current] = "error" THEN {""} ELSE {o.id : o \in outcome[Current]}

AnswerIds == IF told[Current] = "error" THEN {} ELSE {o.id : o \in outcome[Current]}

CustomerCreated ==
  /\ Answered
  /\ at \in Customers
  /\ createdCustomers' = createdCustomers \cup AnswerIds
  /\ GoOn
  /\ UNCHANGED <<createdProducts, counts>>

ProductCreated ==
  /\ Answered
  /\ at \in Products
  /\ createdProducts' = createdProducts \cup AnswerIds
  /\ GoOn
  /\ UNCHANGED <<createdCustomers, counts>>

\* Faulty variant of OrderPlaced: whatever is not a failed order is confirmed.
ErrorsConfirmed ==
  /\ Answered
  /\ at \in Orders
  /\ IF told[Current] = "422"
       THEN failed' = failed + 1 /\ UNCHANGED confirmed
       ELSE confirmed' = confirmed + 1 /\ UNCHANGED failed
  /\ GoOn
  /\ UNCHANGED madeVars

\* An error and a failed order are counted alike.
OrderPlaced ==
  /\ Answered
  /\ at \in Orders
  /\ IF told[Current] \in {"422", "error"}
       THEN failed' = failed + 1 /\ UNCHANGED confirmed
       ELSE confirmed' = confirmed + 1 /\ UNCHANGED failed
  /\ GoOn
  /\ UNCHANGED madeVars

\* "cannot place orders"
GiveUp ==
  /\ state = "ready" /\ at = NCustomers + NProducts + 1
  /\ createdCustomers = {} \/ createdProducts = {}
  /\ state' = "exit"
  /\ UNCHANGED <<servedVars, run, at, picked, madeVars, counts>>

Summary ==
  /\ state = "ready" /\ at = Total + 1
  /\ createdCustomers # {} /\ createdProducts # {}
  /\ state' = "done"
  /\ UNCHANGED <<servedVars, run, at, picked, madeVars, counts>>

\* Somebody runs the script again.
Again ==
  /\ state \in {"done", "exit"}
  /\ run < Runs
  /\ run' = run + 1 /\ at' = 1 /\ state' = "ready"
  /\ createdCustomers' = {} /\ createdProducts' = {}
  /\ confirmed' = 0 /\ failed' = 0
  /\ UNCHANGED <<servedVars, picked>>

Script ==
  Post \/ CustomerCreated \/ ProductCreated \/ OrderPlaced \/ GiveUp \/ Summary

Next == (\E r \in Posts : Take(r)) \/ Tell \/ Script \/ Again

\* The script goes on, and each post is answered or ended by the client's
\* timeout of 10 s.
Spec == Init /\ [][Next]_vars /\ WF_vars(Script) /\ WF_vars(Tell)

-----------------------------------------------------------------------------

Read(told_) == {i \in Orders : i < at /\ told[<<run, i>>] \in told_}
Stored(ok) == {i \in Orders : \E o \in outcome[<<run, i>>] : o.ok = ok}

TypeOK ==
  /\ run \in 1 .. Runs /\ at \in 1 .. Total + 1
  /\ state \in {"ready", "waiting", "done", "exit"}
  /\ picked \in [Posts -> Ids \cup {InvalidId}]
  /\ createdCustomers \subseteq Ids /\ createdProducts \subseteq Ids
  /\ confirmed + failed <= NOrders

\* The summary never claims a confirmed order that is not stored as such, nor
\* counts one twice; the confirmed orders it misses, and the failed orders that
\* do not exist, are no more than the errors it was told, however late the
\* posts it gave up take effect.
SummaryHonest ==
  /\ confirmed <= Cardinality(Stored(TRUE) \cap Read({"201", "422", "error"}))
  /\ Cardinality(Stored(TRUE) \cap Read({"201", "422", "error"}))
       <= confirmed + Cardinality(Read({"error"}))
  /\ failed <= Cardinality(Stored(FALSE)) + Cardinality(Read({"error"}))
  /\ state = "done" => confirmed + failed = NOrders

\* Every order names a customer that the system created in the same run, or the
\* invalid one: a failed or lost creation leaves no blank or foreign id behind.
OrdersNameOwnCustomers ==
  \A r \in Posts : picked[r] # InvalidId =>
    \E i \in Customers : \E o \in outcome[<<r[1], i>>] : o.id = picked[r]

\* The script ends, with the summary or with code 1, whatever the system does.
ScriptEnds == state = "ready" ~> state \in {"done", "exit"}

\* "The seed script is idempotent": another run adds no customer or product.
Idempotent ==
  Cardinality({r \in Posts : r[2] \notin Orders /\ outcome[r] # {}})
    <= NCustomers + NProducts
=============================================================================
