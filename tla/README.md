# TLA+ verification of go-lgtm

go-lgtm is a small shop built to produce logs: three Go services keep customers,
products and orders in memory, an API gateway serves a UI and forwards requests, and
every process sends its logs to stdout and to an OpenTelemetry collector. This
directory holds TLA+ models of it, TLC configurations that check them, and proofs
checked by TLAPS.

Run inside this directory:

    tlc -workers 2 -config shop.cfg MCShop      # one of the runs below
    tlapm ShopProofs.tla                        # one of the proof modules

## 1. The system

| part | source | state | operations |
|---|---|---|---|
| record stores | `internal/store/{customer,product,order}.go` | a Go map under a `sync.RWMutex` | `Create` (draws a random id before locking), `List`, `Get`, `Update`, `Delete`, `Count` (no caller) |
| customer-svc | `internal/handler/customer.go`, `cmd/customer-svc` | a `CustomerStore` | POST, GET, PUT, DELETE on customers; name and email trimmed and required |
| product-svc | `internal/handler/product.go`, `cmd/product-svc` | a `ProductStore` | the same on products; POST refuses a negative price or stock, PUT does not look at them |
| order-svc | `internal/handler/order.go`, `cmd/order-svc` | an `OrderStore`, and one goroutine per running `CreateOrder` | POST asks customer-svc, then product-svc, compares the stock, and stores a confirmed or a failed order; PUT stores any body; GET, DELETE |
| api-gateway | `cmd/api-gateway/main.go` | none; requests in flight | proxies `/customers`, `/products`, `/orders`; `/ui/*` forms; dashboard counts |
| middleware | `internal/handler/handler.go`, `context.go` | the status code of a response | one access-log line per request |
| logger | `internal/logger/logger.go` | queue of the OTel batch processor | tee to stdout and OTLP; flush at shutdown |
| processes | `cmd/*/main.go` | listening or stopping | start, SIGTERM, `Shutdown` for at most 10 s, log flush for at most 5 s |
| containers | `docker-compose.yml`, `cmd/healthcheck` | health of each container | probe, start when dependencies are healthy, restart |
| seed script | `scripts/seed.go` | what it has created | creates customers, products, 50 orders |
| UI | `internal/ui` | none | templates, static files |
| observability | `configs/` | none of this repository's | configuration of Alloy and Grafana |

**How the parts interact.** Goroutines of one process share a store and nothing else.
order-svc calls customer-svc and product-svc over HTTP with a client timeout of 5 s per
call; the gateway calls all three with 10 s. There are no callbacks, queues or messages
between services; a service that restarts has lost its records and the others are not
told.

**What is hard here.** Map accesses interleave (a Go map crashes the process on
concurrent writes). `CreateOrder` decides on answers that may be stale when it acts, with
other requests and restarts between any two of its steps. A call may fail in several ways
that one branch handles alike. Records vanish with their process while other services
name them. Timeouts nest (5+5 s under 10 s, a form's 10 s and four times 10 s under 30 s), so a client may
be told of a failure when the order is stored. `PROJECT.json` lists the hazards by line.

**What makes each part correct.**
Stores: no data race; each operation atomic; every call returns.
customer-svc and product-svc: a record stays under its id, with its required fields; what
is deleted stays deleted.
order-svc: an order is confirmed or refused only on facts that held during its request,
and every accepted request is answered.
Gateway: one POST makes at most one record, and what a client is told is what was stored; a
submitted form comes back with its record; the Trigger Error button places a failed order.
Time limits: an order fits in what waits for it, and who is given up is given up for a reason.
Processes and logger: a request is cut off only when the time of Shutdown is over; what was answered
is in the access log, or a static file about to be; a log record that the collector misses was lost for a known reason.
Seed script: its summary is wrong by no more than the errors it was told. Containers: a service
starts only when those it calls have been healthy (Docker's work, see section 5).

## 2. The modules

| module | stands for |
|---|---|
| `StoreOps` | the statements on the map, as operators |
| `StoreCalls` | the calls a store takes and their results |
| `Store` | abstract: an object whose operations are atomic |
| `RWStore` | the code of the stores: each lock operation and each map access a step |
| `Domain` | the records, the trimmed text, the wrapping `int` |
| `CustomerSvc`, `ProductSvc`, `OrderSvc` | the handlers of the three services, with start and stop |
| `Shop` | the three together: `CreateOrder`'s steps joined to the state of the services it calls |
| `ShopHistory` | `Shop` with history variables, to say what an answer rests on |
| `ShopClaims` | statements of comments that the code does not keep |
| `Placement` | abstract: what a client of the gateway may rely on |
| `Gateway` | the gateway's handlers, composed with `Shop` |
| `Deadlines` | the time limits of gateway, order-svc and its shutdown, on one order |
| `Lifecycle` | one process: `main`, the access log, the logger's two outputs |
| `Seed` | the seed script, over `Placement` |
| `MCRWStore`, `MCShop`, `MCShopHistory`, `MCGateway`, `MCDeadlines`, `MCLifecycle`, `MCSeed` | values and symmetry for TLC |
| `StoreOpsProofs`, `RWStoreProofs`, `ShopProofs`, `ShopHistoryProofs`, `GatewayProofs`, `SeedProofs`, `DeadlinesProofs`, `LifecycleProofs` | the theorems |

    RWStore --implements--> Store             Domain <- CustomerSvc, ProductSvc, OrderSvc <- Shop
    Gateway --implements--> Placement <-- Seed (assumes it)       Shop <- ShopHistory, Gateway
    Lifecycle, Deadlines: what Shop's stops and GiveUp steps look like from inside, and in time

The levels fit together as follows. `RWStore` shows that a store operation may be
taken as one step. The service modules use that: a request to customer-svc or product-svc,
and a PUT or DELETE of an order, is one action, taken at the instant its store operation
takes effect. Trimming and validation before it depend on the request alone and are part of
the action. Requests answered with 400 or 404, and reads, leave the state alone; they are
stutters, not actions. The exception is the read that matters: `GET /customers/{id}` and
`GET /products/{id}` as order-svc calls them, which `AskCustomer` and `AskProduct` take from
the present state of the other service.

**`RWStore`.** `pc[t]` names the statement goroutine t is at. Create: `gen` (generateID,
before the lock), `lock`, `drain`, `write`, `unlock`, `ret`. Update and Delete add `check`,
the look-up whose early return goes straight to the unlock. Get and List: `rlock`, perhaps
`rwait`, `read`, `runlock`, `ret`; List copies one record per step, in any order.
`sync.RWMutex` is modelled by its documented contract and marked external: a `Lock` that has
begun keeps new readers out (`rwait`), waits for those inside, and its `Unlock` lets all
waiting readers in. The three stores are the same code over three record types; a record is
its id and a value that stands for the other fields. `Count` is left out: it locks as Get does
and nothing calls it.

**`OrderSvc` and `Shop`.** `CreateOrder(h)` starts a request whose body passes the checks
(line 63-83 of `order.go`). `AskCustomer` / `GiveUpCustomer` are the two ways fetchCustomer
ends: an answer 200 or 404 of a running customer-svc, or any other error (refused, timed
out, cancelled by the client, a bad status or body), which can come at any time, whether or
not the service is up. `AskProduct` / `GiveUpProduct` likewise, and `AskProduct` also compares
the stock. `ConfirmOrder` and `RefuseOrder` are the store's Create; `EndOrder` is the rest of the
goroutine. The order that is stored is the decoded body with the fields the code sets, so a
`total` sent by the client survives in a failed order, as in the code. `cause[h]` is the error
that the Warn entry carries.

Start and stop: a stop (crash, kill, or the end of `main`) loses the store and the running
handlers; a start begins with an empty store. Here a stop may come at any instant; `Lifecycle` says
what a graceful one spares, and `Deadlines` for which orders its 10 s are enough.

**`Gateway`.** A request is named by its goroutine, and the goroutine in which order-svc runs its POST
by the same name, so `Handlers` is both. `Calls` lists, route by route, the HTTP calls that a
handler makes in their order; `todo[r]` is what is left of it. `SendPost`, `PostAnswered` and `PostFails` are
`httpClient.Do` on a POST: the request leaves, and an answer or an error ends the wait at any time after.
`Fetch` is getJSON, which turns every error into an empty value. What was sent goes on at the service in
`PostCustomer`, `PostProduct`, `PostOrder`, `PostRuns`, ..., which are `Shop`'s actions together with the state of the POST
(`post[r]`), also when the gateway has given up or gone. So a record may be made after the client was
told of an error. It is made once: net/http sends a POST again only if nothing of it was written.
`page[r]` is the list that the page will show of the service posted to; all else on a page is left out, and so are `/health`
and `/static`, which make no call. PUT and DELETE pass through `proxy` to one atomic store operation, and are
steps of `Shop` as any other client's. `outcome` (history) and `told` are the two variables of `Placement`.

**`Lifecycle`.** `phase` is where `main` is: before the listener, in its `select`, in `Shutdown` (`draining`), in the
deferred flush, gone. A request passes `handler`, `written` (the handler has returned), `logged` (Middleware's
"request completed"), `answered` (net/http has flushed the response, after Middleware returned). `got` holds the
clients that have a whole answer. The length of a page or of JSON is not known before the handler returns, so
its end waits in net/http's buffer for `Answer`. A file under `/static/` (`Static`) is different: FileServer announces
its length, and one above the 4 KB of the buffer, as style.css is, leaves whole in `Respond`, before the log line.
`statusCode` and `sent` are responseWriter's copy and what went to the wrapped writer. `Log` is the tee: to
`stdout` at once and to the SDK's batch processor, whose bounded queue drops the oldest, whose exports may
fail, and which drops everything once its Shutdown has begun. That part is the SDK's and is marked external.
While `Shutdown` runs, a connection it has not closed yet may still bring a request (`Accept`): it gives a
new connection 5 s for its first one.

**`Deadlines`.** One browser request, the one order it may post, and order-svc's `main`, with a clock for each
limit. Time is discrete; computing takes none, a message any time, and a timer that has run out fires
before time goes on (`Overdue`). Where both a timer and what it guards fall on one instant, either may win.
`Calls` is what the handler waits for: the form (ParseForm, up to ReadTimeout, while WriteTimeout already runs), the
POST, the lists. The routes that are left out, the forms of customers and products and the single lists, wait for
fewer of the same. Do on the POST ends with an answer, with the client's own timeout (`PostTimesOut`), or at any
moment because the browser left, as the request carries `r.Context()`, or the connection broke (`PostFails`). What
was sent goes on without the gateway. order-svc's handler starts with the header, waits for the body up to its ReadTimeout
(`readAge`), then makes its calls (`orderAge`). A call on a customer who is not there, or that times out, ends the order at once, so
only its second call can reach both limits. While `Shutdown` waits, a connection that had no request yet may still
bring its first, as long as ReadHeaderTimeout lets it (`Accept`; `acceptAge` is when). After `Shutdown` the
deferred flush runs, and with `Exit` a handler is cut off. A kill is `Lifecycle`'s, and so is what else main
does; how long a browser takes to read a page that is ready is not counted.

**`Seed`.** The script's loop over its posts, run several times. Of the system it knows `Placement`, and that its
bodies are complete, so nothing is refused with 400 (a 4xx without an id would make it panic at `ID[:8]`).
`Take` may come after the script was told of an error. The random choices are choices of the model.

**What the data keeps.** Text is a small set with `TrimSpace` as a function on it. Ids are text
too, because a client may write anything where an id is expected. fetchCustomer builds its URL
with `Sprintf` and no escaping, so `?` or `#` in an id ends the path: `PathId` is the id that the
other service extracts (`"c1?"` names `c1`). Ids with `/` or `..`, which change the route, are
outside the model. `int` wraps at `IntLimit`. `Customer.Country` and `Product.Category` are
never looked at and are left out.

**Assumptions on the environment.** `generateID` never repeats an id (128 random bits), also over
restarts; its error branch (`crypto/rand` failing) is left out. A client names an id only after
it was issued (`IdsKnown`), since ids cannot be guessed; any other text it may send freely. The
proofs about `Gateway` use two more consequences of `generateID` (`IdsAssumption`): the three services never draw
the same id, and an id, being hexadecimal, is not changed by trimming.

## 3. The runs

| run | checks | size |
|---|---|---|
| `rwstore` | `TypeOK`, `NoDataRace`, `Linearizable` | 3 goroutines, 2 ids, 2 values |
| `rwstore_live` | `EveryCallReturns` | 3 goroutines, 1 id, 1 value |
| `shop` | `TypeOK`, `RecordsWellFormed`, `GoneStaysGone`, `AcceptedIsAnswered` | 2 handlers, 2 order ids, 1 customer id, 1 product id |
| `shop_answers` | `ConfirmedJustified`, `FailedJustified` | the same |
| `gateway` | `GatewayTypeOK`, `PlacementKept`, `PageShowsOwnRecord`, `TriggerPlacesFailure`, `NoSuchCustomerFails` | 2 requests: one of any route, one proxied order; 3 order bodies, 2 order ids, 1 customer id, 1 product id |
| `deadlines` | `ClocksOK`, `OrderInTime`, `DrainSuffices`, `AbandonedLate`, `CutPageListsSlow`, `RequestBounded` | the program's limits in units of 2.5 s: 2 and 4 (clients), 2, 4 and 12 (servers: header, read, write), 4 (Shutdown) |
| `lifecycle` | `TypeOK`, `DrainedOrForced`, `AnsweredIsLogged`, `LossAccounted`, `Terminates` | 2 requests, one of them for a static file, 2 statuses, a queue of 3 |
| `seed` | `TypeOK`, `SummaryHonest`, `OrdersNameOwnCustomers`, `ScriptEnds` | 2 runs of 1 customer, 1 product, 2 orders; 4 ids |
| `claim_stock`, `claim_total`, `claim_validated`, `claim_idempotent` | one comment of the code each; violated | the same or smaller |

- `NoDataRace`: no goroutine looks at the map while another writes it.
- `Linearizable`: `RWStore` implements `Store` under a refinement mapping that takes back ids which
  Create has drawn and not yet written. Results are part of the mapped state, so it covers what
  each call returns: a List returns one state of the map, an Update that finds its id does not
  revive a record deleted meanwhile.
- `EveryCallReturns`: no call waits for ever, under the fairness below.
- `RecordsWellFormed`: under any sequence of POST, PUT, DELETE and restarts, each record is under
  its own id, whatever id its body had, and required fields are present and trimmed. Price and
  stock are not in it: PUT stores negative ones.
- `GoneStaysGone`: a deleted or lost record does not come back under its id.
- `AcceptedIsAnswered`: an accepted order is answered 201 or 422 unless order-svc stops, even if
  the services it asks are down for good.
- `ConfirmedJustified`: when 201 is due, its customer existed at some instant of the request, and
  one version of the product that existed during the request has the right id, enough stock, and
  the price that gives the total in wrapped arithmetic. More cannot be asked: the two need not
  have held at the same instant nor hold when the order is stored.
- `FailedJustified`: "customer not found" only if it was absent at some instant; "product not
  found" and "insufficient stock" only if the customer was there and the product was absent or
  short. The error in the log entry is meant: its message says "customer not found" of every
  failed call.

- `PlacementKept`: `Gateway` implements `Placement`: 201 means that a record was made for this request, 422
  that it is a failed order, 400 that nothing was made nor will be; only after an error may a record
  exist, or still come; no request makes two and no two share one. This holds whoever stops between
  storing, answering and passing on, and whichever timeout ends a call.
- `PageShowsOwnRecord`: the table that a form submission returns has the record, unless it is gone again or the
  table could not be read.
- `TriggerPlacesFailure`: the order of `POST /ui/trigger-error` fails, whatever the product list it was made from
  said, and 200 comes only after it was stored.
- `NoSuchCustomerFails`: an order for a customer id that none can have is stored as failed, by whatever route it came and however
  the call to customer-svc ends, a lost or late answer included; a created customer or product never counts as failed. The seed script relies on both.
- `OrderInTime`: an order is worked on no longer than its two calls' limits, and ends with the wait for its body before
  order-svc's WriteTimeout.
- `DrainSuffices`: a stopping order-svc cuts off an order that came before the signal only if its handler had it for all
  10 s. One that came after the signal, on a connection left open, had all of them but the 5 s in which that can happen.
- `AbandonedLate`: a browser may leave at any moment, but the client's own timeout ends the wait for an order that order-svc runs
  only after 10 s on the way, in the body and in work, and during its first call only if 5 s of them went before the
  work; so a timeout's "502, but stored" needs more than one slow service.
- `CutPageListsSlow`: a page is lost to WriteTimeout (30 s) only if three lists took all 30 s, or 10 s after a form and an order that
  may have had 10 s each. That it can be lost is what the form and four calls of 10 s imply.
- `RequestBounded`: each request leaves the gateway's handler after the limits of what its route waits for, 50 s for
  a form with an order. It is the gateway's liveness, with a bound.
- `DrainedOrForced`: a request is cut off only if Shutdown ran out of time or the process was killed.
- `AnsweredIsLogged`: a client that has its whole answer is in the access log on stdout with the status it got. A static
  file may be ahead of its line, and goes without it only if the process ended, by force, in between.
- `LossAccounted`: at the end each record on stdout was exported, was dropped with its batch or by the full queue,
  or came after the flush had begun, which without a forced drain is only the flush's own error.
- `Terminates`: after a signal or a server error the process ends, though handlers hang and no collector answers.
- `SummaryHonest`: the script claims no confirmed order that is not stored, and misses at most as many as it was told
  errors.
- `OrdersNameOwnCustomers`: an order names a customer made in the same run or the invalid one; a failed
  creation leaves no blank id.
- `ScriptEnds`: the script reaches its summary or exit code 1.

**Why these bounds are enough.** The store's conflicts are between a writer, another writer and a
reader, so three goroutines show each meeting with a third waiting behind it; two ids let a List
be half-way when another record changes; the liveness run needs threads, not data. In the shop,
two handlers race for one product and one customer, which can be changed, deleted, lost and (as
ids are not reused) replaced by nothing; the bodies include a blank and a cut-off id, an unknown
customer, a quantity of 2 at a price of 2 (`2 * 2` wraps at `IntLimit = 4`), a customer without an email, and a negative
price that only PUT accepts. `RoomForCreate` and `RoomForOrder` bound the creations to the ids there
are, so that no Create that has begun lacks one; once the ids are used up no new creation starts,
and everything else goes on. In `gateway` one request of every route meets an order that can be confirmed, on
services that change, stop and start; two orders racing in order-svc are `shop`'s matter, so the second
request is always a proxied order; of the three bodies one is refused, one can be confirmed, one names nobody. In `deadlines` the unit divides all limits, so each of
them can be met exactly, missed by one, or exceeded. In `lifecycle` two requests and `main` log more
than the queue holds, so it overflows both before and after an export. In `seed` the ids suffice for one full run, and the
second one finds posts of the first still taking effect.

Deadlock is checked in every run but `lifecycle`, `seed` and `claim_idempotent`, where a process or a script ends for good. In
`deadlines` it says that time never stands still: when a timer has run out, someone can act.

**Fairness.** `RWStore`: the Go scheduler runs every goroutine that can run (weak fairness of its
steps), and a mutex hands over to a waiter that has starved for 1 ms, its starvation mode (strong
fairness of `Lock`). No fairness on making calls. `Shop`: weak fairness of each handler's steps. It
includes `GiveUpCustomer` and `GiveUpProduct`, which the HTTP client's timeout of 5 s justifies: a
call ends one way or the other. Nothing makes a client send requests, nor a service stop or start.
`Lifecycle`: weak fairness of `main`'s steps, as `Shutdown` and the flush return at the latest by their contexts' deadlines;
none of the handlers, nor of the collector. `Seed`: weak fairness of the script's steps and of `Tell`, as the script's
client has a timeout of 10 s. Safety needs no fairness: `Gateway` and `Deadlines` state none.

**Findings.** Four comments disagree with the code. Three are in `internal/store/order.go`:
`claim_stock` (line 17, "stock was reserved": nothing is; two orders of 2 units are confirmed on a
stock of 2), `claim_total` (line 54, "0 if status is failed": the client's total is kept), and
`claim_validated` (line 40, the customer is validated "before confirming": PUT confirms unchecked).
`claim_idempotent`: `scripts/seed.go:23` calls the script idempotent; a second run makes all its customers and products again.

## 4. The proofs

For every number of goroutines, handlers, ids, values and request bodies, from the assumptions on
constants stated beside them (`NoIdAssumption`, `NoThreadAssumption`, `DomainAssumption`, and that
bodies are records of their type; for the gateway, `NoSuchIdAssumption`: the id that Trigger Error sends names no
customer, `RoutesAssumption`: each request has a set of routes, and `IdsAssumption`, above; for the clocks, `LimitsAssumption`: the limits
nest as the program's do (two of order-svc's calls within the client's limit and Shutdown's, and with the read limit below the
write limit), whatever their values; for a process, `LifecycleAssumption`; for the script, `SeedAssumption`: at least one customer, and an
invalid id that is none):

| theorem | states |
|---|---|
| `RWStoreProofs!TypeSafety`, `RaceFreedom`, `Linearizability` | `TypeOK`, `NoDataRace`, `Linearizable` of `RWStore` |
| `ShopProofs!ShopTypeSafety`, `WellFormedness`, `NoResurrection` | `TypeOK`, `RecordsWellFormed`, `GoneStaysGone` of `Shop` |
| `ShopHistoryProofs!ConfirmSafety`, `FailSafety` | `ConfirmedJustified`, `FailedJustified` |
| `ShopHistoryProofs!TotalSafety` | `ExactTotal`: a confirmed total is exact where the product fits in an `int` |
| `GatewayProofs!GatewayTypeSafety`, `OwnRecordShown`, `TriggerFails`, `ForeignFails` | the four invariants of `Gateway` |
| `GatewayProofs!PlacementImplemented` | `PlacementKept`: `Gateway` implements `Placement` |
| `SeedProofs!TypeSafety`, `OwnCustomers`, `Honesty` | `TypeOK`, `OrdersNameOwnCustomers`, `SummaryHonest` of `Seed` |
| `DeadlinesProofs!ClockSafety`, `OrderPunctuality`, `DrainSafety`, `AbandonmentSafety`, `CutPageSafety`, `RequestBound` | the six invariants of `Deadlines` |
| `LifecycleProofs!TypeSafety`, `DrainSafety`, `AccessLogSafety`, `LossSafety` | `TypeOK`, `DrainedOrForced`, `AnsweredIsLogged`, `LossAccounted` of `Lifecycle` |

*The store.* `NoDataRace` follows from `LockInv`, which is inductive by itself: `pc` says exactly who holds the
lock for writing and reading, and past `drain` the writer is alone. The refinement needs more, as
the abstract store never speaks of locks: `CallInv` (what `pc` says of the call and of its result),
`IdInv` (an id drawn and not written is its own and no one else's, so the abstract Create finds it unused)
and `ReadInv` (what was read is still so: an id found by `check` is there at `write`, and the part a List has
copied agrees with the map while it holds the read lock). `IndInv` is their conjunction with `TypeOK`;
`Invariance` proves it, and each step of `RWStore` under it is a step of `Store` or a stutter: `WriteNew`,
`WriteOver`, `WriteDelete`, the failing `Check`, `Read` and `ListEnd` are the linearization points.

*The shop.* `ShopInv` is one conjunct per service (its types, its records under their keys, the required
fields, the ids present among those issued), each kept by the actions of its own service and untouched by the
others. `GoneStaysGone` is an action property: an id enters a store only if it was not issued before.

*What an answer rests on.* `Basis` says, for each place of `pc`, what the handler has already seen: at `product`,
a customer; at `confirm`, also the version of the product in `snapshot`; at `fail`, the reason for `cause`.
The history only grows while the request runs, so what was seen stays seen, and at the answer it is the
property.

*The gateway.* `GatewayInv` is `ShopInv`, the types, and `RequestInv(r)` of every request. `ServicesStep` sorts the steps of `Gateway` by
what they do to the services: each is a step of `Shop`, or leaves the stores alone, so `ShopInv` carries over and a service only adds ids (`Steady`).
`RequestInv` says where a request stands. `Place`: how many calls of its route are done; at most one is a POST, and the list of the service posted to is read
after it (`CallShapes`). `Course` and `Runs`: what `post` and order-svc's `pc` say of `outcome`. `Owns`: the ids of outcomes are issued. `Shown`: a page has the record, if
the store does. `Trigger` and `Judged`: what becomes of a body that cannot be confirmed. Most steps are those of one request; then every other one is
`Still` and keeps its invariant because it speaks of the services only through sets that grow (`StillKept`). `GatewayStops` and a stop of a service
move all requests at once.

*Placement.* Under `GatewayInv` every step of `Gateway` is a step of `Placement` or a stutter. `PostFails`, `Cut` and `Reply` are `Tell`, which is truthful by `Course`. `GatewayStops` is
`Break`. `PostCustomer`, `PostProduct` and `PostDecided` are `Take`: by `Runs` and `Course` nothing was made yet, and the id is new among all
outcomes, because those of the same service are issued (`Owns`) and those of another come from disjoint sets. All else stutters.

*The seed script.* It needs no invariant of the system but that of `Placement` (`Truth`). `Counted` equates the two numbers of the summary with
the sizes of the sets of posts answered so; each post read adds one element to one of them (`ReadOne`). The bounds of `SummaryHonest` are then
inclusions: told 201 is stored and confirmed; stored and confirmed but not told so was told an error. `Made` ties the ids collected to outcomes of the same run. What
`Seed!Take` assumes beyond `Placement` is `NoSuchCustomerFails`, proved of `Gateway`; that the script's posts are requests of `Gateway` is argued, not proved (section 5).

*The time limits.* None of the invariants is inductive, as each clock is bounded only through the others. `IInv` links
them by where each actor stands. `Stages` lists, route by route, what is left of the calls and what those before may have
taken; with the age of the present one that bounds the request's. order-svc's handler is in its first call as old as that call, in its second at
most one limit older (`OrderInv`); while the gateway waits, its call is as old as the order's way, body and work together, and
if it timed out on them they were its limit. A handler at work has had all of the drain since it got its order (`MainInv`), which
after a drain that ran out is `DrainLimit` less `acceptAge`. Only `Tick` moves clocks, and its guard `~Overdue` leaves each at most at its limit.

*A process.* `Stream` keeps the books balanced at every step, not only at the end: what stdout shows is exported,
lost, late or queued. With that, `EndInv` need only say when the queue is empty and what may be late: after a
drain without timeout no handler runs (`RunInv`), so only the flush itself can still log. `LoggedInv` has each
request past its log line in it, and with its client before that only a static file.

Only model-checked: liveness (`EveryCallReturns`, `AcceptedIsAnswered`, `Terminates`, `ScriptEnds`: beyond the
prover) and the four violated claims. Every other property of a run is a theorem.

## 5. Not modelled, and the plan

Not modelled:
- Container start order and the health check binary (`docker-compose.yml`, `cmd/healthcheck`). The binary is one GET with an
  exit code; what probes, retries, `depends_on` and `restart` make of it is Docker's, and the repository has
  only the declaration. A model would restate the YAML. Docker's kill 10 s after SIGTERM (no `stop_grace_period` is set) is in `Lifecycle` as a kill
  at any time, with the reason it gives for lost logs.
- The UI's templates and static files (`internal/ui`): rendering, no state and no decision beyond formatting.
- The Alloy and Grafana configuration, build files and documentation: no code of this program runs there.
- In the parts that are modelled: encodings, log levels and texts, ids with `/` or `..` in a URL, `generateID`
  failing, `Count`, `fetchJSON` and `fmtPrice` (no caller), and that the three dashboard counts
  belong together, which the code does not promise.

The plan's models are written and every safety property they check is proved. What is left:

1. The safety half of the liveness properties, as invariants: that a process whose main has left `Shutdown` never waits for a handler
   again, and that a handler in progress always has an enabled step. The step from there to `<>` stays with TLC.
2. `Seed` over `Gateway` itself in place of `Placement`: that a post of the script, as a proxied request, is one of `Gateway`'s with `told` and `outcome` alike.
   `PlacementImplemented` and `ForeignFails` are its two halves; what is missing is the order of the posts.
