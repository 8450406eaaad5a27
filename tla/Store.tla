-------------------------------- MODULE Store --------------------------------
(***************************************************************************)
(* What CustomerStore, ProductStore and OrderStore promise to concurrent   *)
(* callers ("thread-safe"): an object whose operations each take effect at *)
(* one instant between the call and its return.  The three are the same    *)
(* code over different records; val stands for all fields but the id.      *)
(***************************************************************************)
EXTENDS StoreCalls

VARIABLES
  recs,      \* the map
  used,      \* the ids ever given to a record
  call,      \* call[t]: what t has called; NoCall between calls
  result     \* result[t]: {} until t's call has taken effect, then {what it returns}

vars == <<recs, used, call, result>>

Init ==
  /\ recs = EmptyStore
  /\ used = {}
  /\ call = [t \in Threads |-> NoCall]
  /\ result = [t \in Threads |-> {}]

Invoke(t) ==
  /\ call[t] = NoCall
  /\ \E c \in Call : call' = [call EXCEPT ![t] = c]
  /\ UNCHANGED <<recs, used, result>>

Pending(t, op) == call[t].op = op /\ result[t] = {}

Answer(t, r) == result' = [result EXCEPT ![t] = r] /\ UNCHANGED call

Create(t) ==
  /\ Pending(t, "create")
  /\ \E id \in Ids \ used : \E v \in call[t].val :
       /\ recs' = With(recs, id, [id |-> id, val |-> v])
       /\ used' = used \cup {id}
       /\ Answer(t, Found(Only(recs', id)))

Update(t) ==
  /\ Pending(t, "update")
  /\ call[t].id \in DOMAIN recs
  /\ \E v \in call[t].val :
       recs' = With(recs, call[t].id, [id |-> call[t].id, val |-> v])
  /\ Answer(t, Found(Only(recs', call[t].id)))
  /\ UNCHANGED used

Delete(t) ==
  /\ Pending(t, "delete")
  /\ call[t].id \in DOMAIN recs
  /\ recs' = Remove(recs, call[t].id)
  /\ Answer(t, Found(EmptyStore))
  /\ UNCHANGED used

Miss(t) ==
  /\ \E op \in {"update", "delete", "get"} : Pending(t, op)
  /\ call[t].id \notin DOMAIN recs
  /\ Answer(t, NotFound)
  /\ UNCHANGED <<recs, used>>

Get(t) ==
  /\ Pending(t, "get")
  /\ call[t].id \in DOMAIN recs
  /\ Answer(t, Found(Only(recs, call[t].id)))
  /\ UNCHANGED <<recs, used>>

List(t) ==
  /\ Pending(t, "list")
  /\ Answer(t, Found(recs))
  /\ UNCHANGED <<recs, used>>

Return(t) ==
  /\ result[t] # {}
  /\ call' = [call EXCEPT ![t] = NoCall]
  /\ result' = [result EXCEPT ![t] = {}]
  /\ UNCHANGED <<recs, used>>

Next ==
  \E t \in Threads :
    \/ Invoke(t) \/ Return(t)
    \/ Create(t) \/ Update(t) \/ Delete(t) \/ Miss(t) \/ Get(t) \/ List(t)

Spec == Init /\ [][Next]_vars
=============================================================================
