------------------------------- MODULE RWStore -------------------------------
(***************************************************************************)
(* The store types of internal/store as they are written: a Go map under a *)
(* sync.RWMutex, every access to the map a step of its own.  Where thread  *)
(* t stands in its call:                                                   *)
(*   idle                              between calls                       *)
(*   gen                               Create, before generateID           *)
(*   lock, drain                       in mu.Lock                          *)
(*   check, write, unlock              Update and Delete under the lock    *)
(*   write, unlock                     Create under the lock               *)
(*   rlock, rwait                      in mu.RLock                         *)
(*   read, runlock                     Get and List under RLock            *)
(*   ret                               about to return                     *)
(* sync.RWMutex is modelled by its contract: a Lock that has begun keeps   *)
(* later readers out and waits for the earlier ones; Unlock admits all the *)
(* readers that wait.                                                      *)
(***************************************************************************)
EXTENDS StoreCalls, Naturals, FiniteSets

VARIABLES
  recs,      \* the map
  issued,    \* every id generateID has returned
  call,      \* the arguments of t's call
  result,    \* what it is going to return
  pc,
  newId,     \* the id that Create has drawn and not yet written
  out,       \* List: the part of the map that its loop has copied
  writer,    \* who holds mu.w; NoThread if nobody
  readers    \* who holds mu for reading

vars == <<recs, issued, call, result, pc, newId, out, writer, readers>>

CONSTANT NoThread

ASSUME NoThreadAssumption == NoThread \notin Threads

PC == {"idle", "gen", "lock", "drain", "check", "write", "unlock",
       "rlock", "rwait", "read", "runlock", "ret"}

Init ==
  /\ recs = EmptyStore
  /\ issued = {}
  /\ call = [t \in Threads |-> NoCall]
  /\ result = [t \in Threads |-> {}]
  /\ pc = [t \in Threads |-> "idle"]
  /\ newId = [t \in Threads |-> NoId]
  /\ out = [t \in Threads |-> EmptyStore]
  /\ writer = NoThread
  /\ readers = {}

Goto(t, place) == pc' = [pc EXCEPT ![t] = place]

\* A bound of the model: every Create that has begun can still draw an id.
RoomForCreate ==
  Cardinality({t \in Threads : pc[t] = "gen"}) < Cardinality(Ids \ issued)

\* Faulty variant of FirstStep: List goes on without the lock.
UnlockedListFirst(op) ==
  CASE op = "create" -> "gen" [] op = "list" -> "read"
    [] op = "get" -> "rlock" [] OTHER -> "lock"

\* What the method does first: Create draws its id, the others lock.
FirstStep(op) ==
  IF op = "create" THEN "gen"
  ELSE IF op \in {"update", "delete"} THEN "lock" ELSE "rlock"

Invoke(t) ==
  /\ pc[t] = "idle"
  /\ \E c \in Call :
       /\ c.op = "create" => RoomForCreate
       /\ call' = [call EXCEPT ![t] = c]
       /\ Goto(t, FirstStep(c.op))
  /\ UNCHANGED <<recs, issued, result, newId, out, writer, readers>>

\* generateID(), before the lock is taken: 16 random bytes, taken to be new.
GenerateID(t) ==
  /\ pc[t] = "gen"
  /\ \E id \in Ids \ issued :
       /\ newId' = [newId EXCEPT ![t] = id]
       /\ issued' = issued \cup {id}
  /\ Goto(t, "lock")
  /\ UNCHANGED <<recs, call, result, out, writer, readers>>

-----------------------------------------------------------------------------
(* sync.RWMutex                                                            *)

\* mu.Lock(): first the mutex among writers ...
Lock(t) ==
  /\ pc[t] = "lock"
  /\ writer = NoThread
  /\ writer' = t
  /\ Goto(t, "drain")
  /\ UNCHANGED <<recs, issued, call, result, newId, out, readers>>

\* ... then the readers that were there before leave.
Drained(t) ==
  /\ pc[t] = "drain"
  /\ readers = {}
  /\ Goto(t, IF call[t].op = "create" THEN "write" ELSE "check")
  /\ UNCHANGED <<recs, issued, call, result, newId, out, writer, readers>>

\* mu.Unlock() wakes every reader that waits.
Unlock(t) ==
  /\ pc[t] = "unlock"
  /\ writer' = NoThread
  /\ readers' = readers \cup {u \in Threads : pc[u] = "rwait"}
  /\ pc' = [u \in Threads |-> IF u = t THEN "ret"
                              ELSE IF pc[u] = "rwait" THEN "read" ELSE pc[u]]
  /\ UNCHANGED <<recs, issued, call, result, newId, out>>

\* mu.RLock(): at once, or behind the writer that has the mutex or waits for it.
RLock(t) ==
  /\ pc[t] = "rlock"
  /\ \/ /\ writer = NoThread
        /\ readers' = readers \cup {t}
        /\ Goto(t, "read")
     \/ /\ writer # NoThread
        /\ Goto(t, "rwait")
        /\ UNCHANGED readers
  /\ UNCHANGED <<recs, issued, call, result, newId, out, writer>>

RUnlock(t) ==
  /\ pc[t] = "runlock"
  /\ readers' = readers \ {t}
  /\ Goto(t, "ret")
  /\ UNCHANGED <<recs, issued, call, result, newId, out, writer>>

-----------------------------------------------------------------------------
(* The map accesses                                                        *)

\* Faulty variant of Check: the early return forgets to unlock.
CheckKeepsLock(t) ==
  /\ pc[t] = "check"
  /\ \/ /\ call[t].id \in DOMAIN recs
        /\ Goto(t, "write")
        /\ UNCHANGED result
     \/ /\ call[t].id \notin DOMAIN recs
        /\ Goto(t, "ret")
        /\ result' = [result EXCEPT ![t] = NotFound]
  /\ UNCHANGED <<recs, issued, call, newId, out, writer, readers>>

\* Faulty variant of Check: Update writes whether or not it found the id.
CheckButUpdate(t) ==
  /\ pc[t] = "check"
  /\ \/ /\ call[t].id \in DOMAIN recs \/ call[t].op = "update"
        /\ Goto(t, "write")
        /\ UNCHANGED result
     \/ /\ call[t].id \notin DOMAIN recs /\ call[t].op # "update"
        /\ Goto(t, "unlock")
        /\ result' = [result EXCEPT ![t] = NotFound]
  /\ UNCHANGED <<recs, issued, call, newId, out, writer, readers>>

\* if _, ok := s.m[id]; !ok { return ..., false }
Check(t) ==
  /\ pc[t] = "check"
  /\ \/ /\ call[t].id \in DOMAIN recs
        /\ Goto(t, "write")
        /\ UNCHANGED result
     \/ /\ call[t].id \notin DOMAIN recs
        /\ Goto(t, "unlock")
        /\ result' = [result EXCEPT ![t] = NotFound]
  /\ UNCHANGED <<recs, issued, call, newId, out, writer, readers>>

\* s.m[id] = rec
StoreRecord(t, id) ==
  /\ \E v \in call[t].val : recs' = With(recs, id, [id |-> id, val |-> v])
  /\ result' = [result EXCEPT ![t] = Found(Only(recs', id))]

\* Faulty variant of WriteNew: without rec.ID = id.
WriteNewNoId(t) ==
  /\ pc[t] = "write"
  /\ call[t].op = "create"
  /\ StoreRecord(t, NoId)
  /\ newId' = [newId EXCEPT ![t] = NoId]
  /\ Goto(t, "unlock")
  /\ UNCHANGED <<issued, call, out, writer, readers>>

WriteNew(t) ==
  /\ pc[t] = "write"
  /\ call[t].op = "create"
  /\ StoreRecord(t, newId[t])
  /\ newId' = [newId EXCEPT ![t] = NoId]
  /\ Goto(t, "unlock")
  /\ UNCHANGED <<issued, call, out, writer, readers>>

WriteOver(t) ==
  /\ pc[t] = "write"
  /\ call[t].op = "update"
  /\ StoreRecord(t, call[t].id)
  /\ Goto(t, "unlock")
  /\ UNCHANGED <<issued, call, newId, out, writer, readers>>

\* delete(s.m, id)
WriteDelete(t) ==
  /\ pc[t] = "write"
  /\ call[t].op = "delete"
  /\ recs' = Remove(recs, call[t].id)
  /\ result' = [result EXCEPT ![t] = Found(EmptyStore)]
  /\ Goto(t, "unlock")
  /\ UNCHANGED <<issued, call, newId, out, writer, readers>>

\* rec, ok := s.m[id]
Read(t) ==
  /\ pc[t] = "read"
  /\ call[t].op = "get"
  /\ \/ /\ call[t].id \in DOMAIN recs
        /\ result' = [result EXCEPT ![t] = Found(Only(recs, call[t].id))]
     \/ /\ call[t].id \notin DOMAIN recs
        /\ result' = [result EXCEPT ![t] = NotFound]
  /\ Goto(t, "runlock")
  /\ UNCHANGED <<recs, issued, call, newId, out, writer, readers>>

\* for _, rec := range s.m { out = append(out, rec) }, in any order
ListNext(t) ==
  /\ pc[t] = "read"
  /\ call[t].op = "list"
  /\ \E k \in DOMAIN recs \ DOMAIN out[t] :
       out' = [out EXCEPT ![t] = With(@, k, recs[k])]
  /\ UNCHANGED <<recs, issued, call, result, pc, newId, writer, readers>>

ListEnd(t) ==
  /\ pc[t] = "read"
  /\ call[t].op = "list"
  /\ DOMAIN recs \subseteq DOMAIN out[t]
  /\ result' = [result EXCEPT ![t] = Found(out[t])]
  /\ out' = [out EXCEPT ![t] = EmptyStore]
  /\ Goto(t, "runlock")
  /\ UNCHANGED <<recs, issued, call, newId, writer, readers>>

-----------------------------------------------------------------------------

Return(t) ==
  /\ pc[t] = "ret"
  /\ call' = [call EXCEPT ![t] = NoCall]
  /\ result' = [result EXCEPT ![t] = {}]
  /\ Goto(t, "idle")
  /\ UNCHANGED <<recs, issued, newId, out, writer, readers>>

\* The steps of a call other than waiting for the mutex among writers.
CallStep(t) ==
  \/ GenerateID(t) \/ Drained(t) \/ Unlock(t) \/ RLock(t) \/ RUnlock(t)
  \/ Check(t) \/ WriteNew(t) \/ WriteOver(t) \/ WriteDelete(t)
  \/ Read(t) \/ ListNext(t) \/ ListEnd(t)
  \/ Return(t)

Next == \E t \in Threads : Invoke(t) \/ Lock(t) \/ CallStep(t)

\* The Go scheduler runs every goroutine that can run, and sync.Mutex hands
\* over to a waiter that has starved for 1 ms (starvation mode).
Fairness == \A t \in Threads : WF_vars(CallStep(t)) /\ SF_vars(Lock(t))

Spec == Init /\ [][Next]_vars /\ Fairness

-----------------------------------------------------------------------------

TypeOK ==
  /\ IsStore(recs, Ids, Rec)
  /\ issued \subseteq Ids
  /\ \A t \in Threads :
       /\ call[t] \in Call \cup {NoCall}
       /\ newId[t] \in Ids \cup {NoId}
       /\ IsStore(out[t], Ids, Rec)
       /\ \A r \in result[t] : r.ok \in BOOLEAN /\ IsStore(r.out, Ids, Rec)
  /\ DOMAIN call = Threads /\ DOMAIN result = Threads
  /\ DOMAIN newId = Threads /\ DOMAIN out = Threads
  /\ pc \in [Threads -> PC]
  /\ writer \in Threads \cup {NoThread}
  /\ readers \subseteq Threads

\* The Go memory model's condition on the map: nobody reads or writes it
\* while another goroutine writes it ("fatal error: concurrent map ...").
NoDataRace ==
  \A t, u \in Threads :
    t # u /\ pc[t] = "write" => pc[u] \notin {"check", "write", "read"}

\* Every operation takes effect at one instant: the store is a Store.  An id
\* drawn and not yet written is no id of the abstract store.
Abstract ==
  INSTANCE Store WITH used <- issued \ {newId[t] : t \in Threads}

Linearizable == Abstract!Spec

\* No call of a store waits for ever, whatever the others keep calling.
EveryCallReturns == \A t \in Threads : pc[t] # "idle" ~> pc[t] = "idle"
=============================================================================
