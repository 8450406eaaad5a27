------------------------------ MODULE StoreOps ------------------------------
(***************************************************************************)
(* The map behind each store of internal/store: a function from the ids    *)
(* present to their records.  Every record has a field "id".  These are    *)
(* the statements executed under the store's lock, as operators.           *)
(***************************************************************************)

\* make(map[string]T): what NewCustomerStore, NewProductStore and
\* NewOrderStore start from, and what a restarted process starts from again.
EmptyStore == [k \in {} |-> k]

\* s is a store with keys in K and records in R.
IsStore(s, K, R) ==
  /\ DOMAIN s \subseteq K
  /\ s = [k \in DOMAIN s |-> s[k]]
  /\ \A k \in DOMAIN s : s[k] \in R

\* m[id] = rec
With(s, id, rec) ==
  [k \in DOMAIN s \cup {id} |-> IF k = id THEN rec ELSE s[k]]

\* rec.ID = id; m[id] = rec.  Create does it with a new id, Update with an id
\* that it has just found in the map.
Put(s, id, rec) == With(s, id, [rec EXCEPT !.id = id])

\* delete(m, id)
Remove(s, id) == [k \in DOMAIN s \ {id} |-> s[k]]

\* rec, ok := m[id] as an optional value: the set of the record, or {}.
Lookup(s, id) == IF id \in DOMAIN s THEN {s[id]} ELSE {}

\* Every record carries the key it is stored under.
Keyed(s) == \A k \in DOMAIN s : s[k].id = k
=============================================================================
