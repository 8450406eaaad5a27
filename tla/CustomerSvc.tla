---------------------------- MODULE CustomerSvc ----------------------------
(***************************************************************************)
(* customer-svc: internal/handler/customer.go over the CustomerStore.      *)
(*                                                                         *)
(* A request is one atomic step, taken when its store operation takes      *)
(* effect under the store's lock (RWStore shows that the operations are    *)
(* atomic).  Replies that change nothing (400, 404, the reads) are no      *)
(* steps of their own; GET /customers/{id} is what order-svc's step reads. *)
(***************************************************************************)
EXTENDS Domain, StoreOps

CONSTANTS
  CustomerBodies    \* the JSON bodies that POST and PUT requests carry

VARIABLES
  customers,        \* CustomerStore.customers
  customersIssued,  \* every id generateID has returned, in any process so far
  customersUp       \* the process is running and answers requests

customerVars == <<customers, customersIssued, customersUp>>

ASSUME CustomerBodiesAssumption == CustomerBodies \subseteq Customer

CustomersInit ==
  /\ customers = EmptyStore
  /\ customersIssued = {}
  /\ customersUp = TRUE

\* c.Name = strings.TrimSpace(c.Name); c.Email = strings.TrimSpace(c.Email)
TrimCustomer(c) ==
  [c EXCEPT !.name = TrimSpace[@], !.email = TrimSpace[@]]

CustomerComplete(c) == c.name # Empty /\ c.email # Empty

\* Faulty variant of CreateCustomer: without c.ID = id.
CreateUnderBodyId ==
  \E body \in CustomerBodies, id \in CustomerIds \ customersIssued :
    /\ customersUp
    /\ CustomerComplete(TrimCustomer(body))
    /\ customers' = With(customers, body.id, TrimCustomer(body))
    /\ customersIssued' = customersIssued \cup {id}
    /\ UNCHANGED customersUp

\* POST /customers.  The id is drawn from 2^128 values by crypto/rand: it is
\* taken never to be one that was issued before.
CreateCustomer ==
  \E body \in CustomerBodies, id \in CustomerIds \ customersIssued :
    /\ customersUp
    /\ CustomerComplete(TrimCustomer(body))
    /\ customers' = Put(customers, id, TrimCustomer(body))
    /\ customersIssued' = customersIssued \cup {id}
    /\ UNCHANGED customersUp

\* Faulty variant of UpdateCustomer: the fields are not checked again.
UpdateUnchecked ==
  \E body \in CustomerBodies, id \in DOMAIN customers :
    /\ customersUp
    /\ customers' = Put(customers, id, TrimCustomer(body))
    /\ UNCHANGED <<customersIssued, customersUp>>

\* PUT /customers/{id}: the whole record is replaced; 404 when it is absent.
UpdateCustomer ==
  \E body \in CustomerBodies, id \in DOMAIN customers :
    /\ customersUp
    /\ CustomerComplete(TrimCustomer(body))
    /\ customers' = Put(customers, id, TrimCustomer(body))
    /\ UNCHANGED <<customersIssued, customersUp>>

\* DELETE /customers/{id}
DeleteCustomer ==
  \E id \in DOMAIN customers :
    /\ customersUp
    /\ customers' = Remove(customers, id)
    /\ UNCHANGED <<customersIssued, customersUp>>

\* The process ends (a crash, SIGTERM): its store was only in memory.
CustomerSvcStops ==
  /\ customersUp
  /\ customersUp' = FALSE
  /\ customers' = EmptyStore
  /\ UNCHANGED customersIssued

\* main() again, with NewCustomerStore().
CustomerSvcStarts ==
  /\ ~customersUp
  /\ customersUp' = TRUE
  /\ UNCHANGED <<customers, customersIssued>>

CustomersNext ==
  \/ CreateCustomer
  \/ UpdateCustomer
  \/ DeleteCustomer
  \/ CustomerSvcStops
  \/ CustomerSvcStarts

CustomersTypeOK ==
  /\ IsStore(customers, CustomerIds, Customer)
  /\ customersIssued \subseteq CustomerIds
  /\ customersUp \in BOOLEAN
  /\ DOMAIN customers \subseteq customersIssued
=============================================================================
