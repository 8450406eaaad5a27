--------------------------- MODULE RWStoreProofs ---------------------------
(***************************************************************************)
(* Proofs about RWStore, for any number of goroutines, ids and values:     *)
(* its types, the absence of data races on the map, and that it implements *)
(* Store.                                                                  *)
(***************************************************************************)
EXTENDS RWStore, StoreOpsProofs

LEMMA OnlyIsStore ==
  ASSUME NEW K, NEW R, NEW s, IsStore(s, K, R), NEW id \in DOMAIN s
  PROVE  IsStore(Only(s, id), K, R)
BY DEF IsStore, Only

-----------------------------------------------------------------------------
(* Mutual exclusion                                                        *)

WritePlaces == {"drain", "check", "write", "unlock"}
ReadPlaces == {"read", "runlock"}

\* pc says who holds the RWMutex, and past drain the writer is alone.
LockInv ==
  /\ pc \in [Threads -> PC]
  /\ \A t \in Threads :
       /\ pc[t] \in WritePlaces <=> writer = t
       /\ pc[t] \in ReadPlaces <=> t \in readers
       /\ pc[t] \in {"check", "write", "unlock"} => readers = {}
       /\ pc[t] = "rwait" => writer # NoThread
  /\ writer \in Threads \cup {NoThread}
  /\ readers \subseteq Threads

LEMMA LockInvStep == LockInv /\ [Next]_vars => LockInv'
<1> SUFFICES ASSUME LockInv, [Next]_vars PROVE LockInv'
  OBVIOUS
<1> USE NoThreadAssumption DEF LockInv, PC, WritePlaces, ReadPlaces, Goto
<1>1. ASSUME NEW t \in Threads, Invoke(t) PROVE LockInv'
  BY <1>1 DEF Invoke, FirstStep
<1>2. ASSUME NEW t \in Threads, GenerateID(t) PROVE LockInv'
  BY <1>2 DEF GenerateID
<1>3. ASSUME NEW t \in Threads, Lock(t) PROVE LockInv'
  BY <1>3 DEF Lock
<1>4. ASSUME NEW t \in Threads, Drained(t) PROVE LockInv'
  BY <1>4 DEF Drained
<1>5. ASSUME NEW t \in Threads, Unlock(t) PROVE LockInv'
  BY <1>5 DEF Unlock
<1>6. ASSUME NEW t \in Threads, RLock(t) PROVE LockInv'
  BY <1>6 DEF RLock
<1>7. ASSUME NEW t \in Threads, RUnlock(t) PROVE LockInv'
  BY <1>7 DEF RUnlock
<1>8. ASSUME NEW t \in Threads, Check(t) PROVE LockInv'
  BY <1>8 DEF Check
<1>9. ASSUME NEW t \in Threads, WriteNew(t) PROVE LockInv'
  BY <1>9 DEF WriteNew
<1>10. ASSUME NEW t \in Threads, WriteOver(t) PROVE LockInv'
  BY <1>10 DEF WriteOver
<1>11. ASSUME NEW t \in Threads, WriteDelete(t) PROVE LockInv'
  BY <1>11 DEF WriteDelete
<1>12. ASSUME NEW t \in Threads, Read(t) PROVE LockInv'
  BY <1>12 DEF Read
<1>13. ASSUME NEW t \in Threads, ListNext(t) PROVE LockInv'
  BY <1>13 DEF ListNext
<1>14. ASSUME NEW t \in Threads, ListEnd(t) PROVE LockInv'
  BY <1>14 DEF ListEnd
<1>15. ASSUME NEW t \in Threads, Return(t) PROVE LockInv'
  BY <1>15 DEF Return
<1>16. CASE UNCHANGED vars
  BY <1>16 DEF vars
<1> QED
  BY <1>1, <1>2, <1>3, <1>4, <1>5, <1>6, <1>7, <1>8, <1>9, <1>10, <1>11,
     <1>12, <1>13, <1>14, <1>15, <1>16 DEF Next, CallStep

\* The lock keeps every writer of the map alone, in every store method
\* together with every other.
THEOREM LockSafety == Spec => []LockInv
<1>1. Init => LockInv
  BY NoThreadAssumption DEF Init, LockInv, PC, WritePlaces, ReadPlaces
<1> QED
  BY <1>1, LockInvStep, PTL DEF Spec

\* NoDataRace: no goroutine is at an access of the map while another writes.
THEOREM RaceFreedom == Spec => []NoDataRace
<1>1. LockInv => NoDataRace
  BY DEF LockInv, NoDataRace, WritePlaces, ReadPlaces
<1> QED
  BY <1>1, LockSafety, PTL

-----------------------------------------------------------------------------
(* The calls in progress                                                   *)

WriteOps == {"create", "update", "delete"}
ReadOps == {"get", "list"}

\* What pc says of the call and of its result.
CallInv ==
  \A t \in Threads :
    /\ pc[t] = "idle" <=> call[t] = NoCall
    /\ pc[t] = "gen" => call[t].op = "create"
    /\ pc[t] \in {"lock", "drain", "write", "unlock"} => call[t].op \in WriteOps
    /\ pc[t] = "check" => call[t].op \in {"update", "delete"}
    /\ pc[t] \in {"rlock", "rwait", "read", "runlock"} => call[t].op \in ReadOps
    /\ result[t] = {} <=> pc[t] \notin {"unlock", "runlock", "ret"}

\* An id that Create has drawn is its own until it is written.
IdInv ==
  \A t \in Threads :
    /\ newId[t] # NoId <=>
         call[t].op = "create" /\ pc[t] \in {"lock", "drain", "write"}
    /\ newId[t] # NoId => newId[t] \in issued
    /\ \A u \in Threads : t # u /\ newId[t] = newId[u] => newId[t] = NoId

\* What a thread has read of the map is still so while it holds the lock.
ReadInv ==
  \A t \in Threads :
    /\ pc[t] = "write" /\ call[t].op \in {"update", "delete"} =>
         call[t].id \in DOMAIN recs
    /\ pc[t] = "read" /\ call[t].op = "list" =>
         /\ DOMAIN out[t] \subseteq DOMAIN recs
         /\ \A k \in DOMAIN out[t] : out[t][k] = recs[k]
    /\ ~(pc[t] = "read" /\ call[t].op = "list") => out[t] = EmptyStore

IndInv == TypeOK /\ LockInv /\ CallInv /\ IdInv /\ ReadInv

\* What a member of Call is.
LEMMA CallFacts ==
  /\ NoCall.op = "none"
  /\ \A c \in Call :
       /\ c # NoCall
       /\ c.op \in WriteOps \cup ReadOps
       /\ c.op \in {"update", "delete", "get"} => c.id \in Ids
       /\ \A v \in c.val : v \in Values
BY DEF Call, NoCall, WriteOps, ReadOps

\* What Found and NotFound are.
LEMMA ResultFacts ==
  /\ NotFound # {}
  /\ \A r \in NotFound : r.ok \in BOOLEAN /\ r.out = EmptyStore
  /\ \A s : /\ Found(s) # {}
            /\ \A r \in Found(s) : r.ok \in BOOLEAN /\ r.out = s
BY DEF Found, NotFound

LEMMA InitIndInv == Init => IndInv
<1> SUFFICES ASSUME Init PROVE IndInv
  OBVIOUS
<1> USE NoThreadAssumption DEF Init
<1>1. TypeOK
  BY EmptyIsStore DEF TypeOK, PC
<1>2. LockInv
  BY DEF LockInv, PC, WritePlaces, ReadPlaces
<1>3. CallInv /\ IdInv /\ ReadInv
  BY CallFacts DEF CallInv, IdInv, ReadInv
<1> QED
  BY <1>1, <1>2, <1>3 DEF IndInv

LEMMA IndInvStep == IndInv /\ [Next]_vars => IndInv'
<1> SUFFICES ASSUME IndInv, [Next]_vars PROVE IndInv'
  OBVIOUS
<1>l. LockInv /\ LockInv'
  BY LockInvStep DEF IndInv
<1> DEFINE Inv == TypeOK /\ CallInv /\ IdInv /\ ReadInv
<1>i. Inv
  BY DEF IndInv
<1> USE DEF Goto
<1>1. ASSUME NEW t \in Threads, Invoke(t) PROVE Inv'
  <2> USE <1>l, <1>i, <1>1 DEF Invoke
  <2>1. TypeOK'
    BY CallFacts DEF TypeOK, PC, LockInv, FirstStep
  <2>2. CallInv'
    BY CallFacts DEF CallInv, TypeOK, WriteOps, ReadOps, FirstStep
  <2>3. IdInv'
    BY CallFacts DEF IdInv, CallInv, TypeOK, FirstStep
  <2>4. ReadInv'
    BY DEF ReadInv, CallInv, TypeOK, FirstStep
  <2> QED
    BY <2>1, <2>2, <2>3, <2>4
<1>2. ASSUME NEW t \in Threads, GenerateID(t) PROVE Inv'
  <2> USE <1>l, <1>i, <1>2 DEF GenerateID
  <2>1. TypeOK'
    BY CallFacts DEF TypeOK, PC, LockInv
  <2>2. CallInv'
    BY CallFacts DEF CallInv, TypeOK, WriteOps, ReadOps
  <2>3. IdInv'
    BY NoIdAssumption DEF IdInv, CallInv, TypeOK
  <2>4. ReadInv'
    BY DEF ReadInv, CallInv, TypeOK, LockInv
  <2> QED
    BY <2>1, <2>2, <2>3, <2>4
<1>3. ASSUME NEW t \in Threads, Lock(t) PROVE Inv'
  <2> USE <1>l, <1>i, <1>3 DEF Lock
  <2>1. TypeOK'
    BY CallFacts DEF TypeOK, PC, LockInv
  <2>2. CallInv'
    BY CallFacts DEF CallInv, TypeOK, WriteOps, ReadOps
  <2>3. IdInv'
    BY NoIdAssumption DEF IdInv, CallInv, TypeOK
  <2>4. ReadInv'
    BY DEF ReadInv, CallInv, TypeOK, LockInv
  <2> QED
    BY <2>1, <2>2, <2>3, <2>4
<1>4. ASSUME NEW t \in Threads, Drained(t) PROVE Inv'
  <2> USE <1>l, <1>i, <1>4 DEF Drained
  <2>1. TypeOK'
    BY CallFacts DEF TypeOK, PC, LockInv
  <2>2. CallInv'
    BY CallFacts DEF CallInv, TypeOK, WriteOps, ReadOps
  <2>3. IdInv'
    BY NoIdAssumption DEF IdInv, CallInv, TypeOK
  <2>4. ReadInv'
    BY DEF ReadInv, CallInv, TypeOK, LockInv
  <2> QED
    BY <2>1, <2>2, <2>3, <2>4
<1>5. ASSUME NEW t \in Threads, Unlock(t) PROVE Inv'
  <2> USE <1>l, <1>i, <1>5 DEF Unlock
  <2>1. TypeOK'
    BY CallFacts DEF TypeOK, PC, LockInv
  <2>2. CallInv'
    BY CallFacts DEF CallInv, TypeOK, WriteOps, ReadOps
  <2>3. IdInv'
    BY NoIdAssumption DEF IdInv, CallInv, TypeOK
  <2>4. ReadInv'
    BY EmptyIsStore DEF ReadInv, CallInv, TypeOK
  <2> QED
    BY <2>1, <2>2, <2>3, <2>4
<1>6. ASSUME NEW t \in Threads, RLock(t) PROVE Inv'
  <2> USE <1>l, <1>i, <1>6 DEF RLock
  <2>1. TypeOK'
    BY CallFacts DEF TypeOK, PC, LockInv
  <2>2. CallInv'
    BY CallFacts DEF CallInv, TypeOK, WriteOps, ReadOps
  <2>3. IdInv'
    BY NoIdAssumption DEF IdInv, CallInv, TypeOK
  <2>4. ReadInv'
    BY EmptyIsStore DEF ReadInv, CallInv, TypeOK
  <2> QED
    BY <2>1, <2>2, <2>3, <2>4
<1>7. ASSUME NEW t \in Threads, RUnlock(t) PROVE Inv'
  <2> USE <1>l, <1>i, <1>7 DEF RUnlock
  <2>1. TypeOK'
    BY CallFacts DEF TypeOK, PC, LockInv
  <2>2. CallInv'
    BY CallFacts DEF CallInv, TypeOK, WriteOps, ReadOps
  <2>3. IdInv'
    BY NoIdAssumption DEF IdInv, CallInv, TypeOK
  <2>4. ReadInv'
    BY DEF ReadInv, CallInv, TypeOK, LockInv
  <2> QED
    BY <2>1, <2>2, <2>3, <2>4
<1>8. ASSUME NEW t \in Threads, Check(t) PROVE Inv'
  <2> USE <1>l, <1>i, <1>8 DEF Check
  <2>1. TypeOK'
    BY ResultFacts, EmptyIsStore DEF TypeOK, PC, LockInv
  <2>2. CallInv'
    BY ResultFacts DEF CallInv, TypeOK, WriteOps, ReadOps
  <2>3. IdInv'
    BY NoIdAssumption DEF IdInv, CallInv, TypeOK
  <2>4. ReadInv'
    BY DEF ReadInv, CallInv, TypeOK, LockInv
  <2> QED
    BY <2>1, <2>2, <2>3, <2>4
<1>9. ASSUME NEW t \in Threads, WriteNew(t) PROVE Inv'
  <2> USE <1>l, <1>i, <1>9 DEF WriteNew
  <2>a. \A u \in Threads : u # t => pc[u] \notin {"check", "write", "read"}
    BY DEF LockInv, WritePlaces, ReadPlaces
  <2>b. PICK v \in call[t].val : recs' = With(recs, newId[t], [id |-> newId[t], val |-> v])
    BY DEF StoreRecord
  <2>c. newId[t] \in Ids /\ [id |-> newId[t], val |-> v] \in Rec
    BY CallFacts, <2>b DEF TypeOK, CallInv, IdInv, Rec
  <2>g. IsStore(recs, Ids, Rec)
    BY DEF TypeOK
  <2>d. IsStore(recs', Ids, Rec) /\ DOMAIN recs' = DOMAIN recs \cup {newId[t]}
    <3> HIDE <1>l, <1>i, <1>9
    <3> QED
      BY <2>b, <2>c, <2>g DEF IsStore, With
  <2>e. result' = [result EXCEPT ![t] = Found(Only(recs', newId[t]))]
    BY DEF StoreRecord
  <2>f. IsStore(Only(recs', newId[t]), Ids, Rec)
    BY <2>d, OnlyIsStore
  <2>1. TypeOK'
    BY <2>d, <2>e, <2>f, ResultFacts DEF TypeOK, PC, LockInv
  <2>2. CallInv'
    BY <2>e, ResultFacts DEF CallInv, TypeOK, WriteOps, ReadOps
  <2>3. IdInv'
    BY NoIdAssumption DEF IdInv, CallInv, TypeOK
  <2>4. ReadInv'
    BY <2>a, <2>d DEF ReadInv, CallInv, TypeOK
  <2> QED
    BY <2>1, <2>2, <2>3, <2>4
<1>10. ASSUME NEW t \in Threads, WriteOver(t) PROVE Inv'
  <2> USE <1>l, <1>i, <1>10 DEF WriteOver
  <2>a. \A u \in Threads : u # t => pc[u] \notin {"check", "write", "read"}
    BY DEF LockInv, WritePlaces, ReadPlaces
  <2>b. PICK v \in call[t].val : recs' = With(recs, call[t].id, [id |-> call[t].id, val |-> v])
    BY DEF StoreRecord
  <2>c. call[t].id \in Ids /\ [id |-> call[t].id, val |-> v] \in Rec
    BY CallFacts, <2>b DEF TypeOK, CallInv, IdInv, Rec
  <2>g. IsStore(recs, Ids, Rec)
    BY DEF TypeOK
  <2>d. IsStore(recs', Ids, Rec) /\ DOMAIN recs' = DOMAIN recs \cup {call[t].id}
    <3> HIDE <1>l, <1>i, <1>10
    <3> QED
      BY <2>b, <2>c, <2>g DEF IsStore, With
  <2>e. result' = [result EXCEPT ![t] = Found(Only(recs', call[t].id))]
    BY DEF StoreRecord
  <2>f. IsStore(Only(recs', call[t].id), Ids, Rec)
    BY <2>d, OnlyIsStore
  <2>1. TypeOK'
    BY <2>d, <2>e, <2>f, ResultFacts DEF TypeOK, PC, LockInv
  <2>2. CallInv'
    BY <2>e, ResultFacts DEF CallInv, TypeOK, WriteOps, ReadOps
  <2>3. IdInv'
    BY NoIdAssumption DEF IdInv, CallInv, TypeOK
  <2>4. ReadInv'
    BY <2>a, <2>d DEF ReadInv, CallInv, TypeOK
  <2> QED
    BY <2>1, <2>2, <2>3, <2>4
<1>11. ASSUME NEW t \in Threads, WriteDelete(t) PROVE Inv'
  <2> USE <1>l, <1>i, <1>11 DEF WriteDelete
  <2>a. \A u \in Threads : u # t => pc[u] \notin {"check", "write", "read"}
    BY DEF LockInv, WritePlaces, ReadPlaces
  <2>b. IsStore(recs, Ids, Rec)
    BY DEF TypeOK
  <2>c. IsStore(recs', Ids, Rec)
    BY <2>b, RemoveIsStore
  <2>1. TypeOK'
    BY <2>c, ResultFacts, EmptyIsStore DEF TypeOK, PC, LockInv
  <2>2. CallInv'
    BY ResultFacts DEF CallInv, TypeOK, WriteOps, ReadOps
  <2>3. IdInv'
    BY NoIdAssumption DEF IdInv, CallInv, TypeOK
  <2>4. ReadInv'
    BY <2>a DEF ReadInv, CallInv, TypeOK
  <2> QED
    BY <2>1, <2>2, <2>3, <2>4
<1>12. ASSUME NEW t \in Threads, Read(t) PROVE Inv'
  <2> USE <1>l, <1>i, <1>12 DEF Read
  <2>1. TypeOK'
    BY ResultFacts, EmptyIsStore, OnlyIsStore DEF TypeOK, PC, LockInv
  <2>2. CallInv'
    BY ResultFacts DEF CallInv, TypeOK, WriteOps, ReadOps
  <2>3. IdInv'
    BY NoIdAssumption DEF IdInv, CallInv, TypeOK
  <2>4. ReadInv'
    BY DEF ReadInv, CallInv, TypeOK, LockInv
  <2> QED
    BY <2>1, <2>2, <2>3, <2>4
<1>13. ASSUME NEW t \in Threads, ListNext(t) PROVE Inv'
  <2> USE <1>l, <1>i, <1>13 DEF ListNext
  <2>b. PICK k \in DOMAIN recs \ DOMAIN out[t] :
          out' = [out EXCEPT ![t] = With(out[t], k, recs[k])]
    OBVIOUS
  <2>c. k \in Ids /\ recs[k] \in Rec /\ IsStore(out[t], Ids, Rec)
    BY DEF TypeOK, IsStore
  <2>d. IsStore(With(out[t], k, recs[k]), Ids, Rec)
    BY <2>c, WithIsStore
  <2>1. TypeOK'
    BY <2>b, <2>d DEF TypeOK, LockInv
  <2>2. CallInv'
    BY CallFacts DEF CallInv, TypeOK, WriteOps, ReadOps
  <2>3. IdInv'
    BY NoIdAssumption DEF IdInv, CallInv, TypeOK
  <2>4. ReadInv'
    BY <2>b DEF ReadInv, CallInv, TypeOK, With
  <2> QED
    BY <2>1, <2>2, <2>3, <2>4
<1>14. ASSUME NEW t \in Threads, ListEnd(t) PROVE Inv'
  <2> USE <1>l, <1>i, <1>14 DEF ListEnd
  <2>1. TypeOK'
    BY ResultFacts, EmptyIsStore DEF TypeOK, PC, LockInv
  <2>2. CallInv'
    BY ResultFacts DEF CallInv, TypeOK, WriteOps, ReadOps
  <2>3. IdInv'
    BY NoIdAssumption DEF IdInv, CallInv, TypeOK
  <2>4. ReadInv'
    BY DEF ReadInv, CallInv, TypeOK, LockInv
  <2> QED
    BY <2>1, <2>2, <2>3, <2>4
<1>15. ASSUME NEW t \in Threads, Return(t) PROVE Inv'
  <2> USE <1>l, <1>i, <1>15 DEF Return
  <2>1. TypeOK'
    BY CallFacts DEF TypeOK, PC, LockInv
  <2>2. CallInv'
    BY CallFacts DEF CallInv, TypeOK, WriteOps, ReadOps
  <2>3. IdInv'
    BY NoIdAssumption DEF IdInv, CallInv, TypeOK
  <2>4. ReadInv'
    BY DEF ReadInv, CallInv, TypeOK, LockInv
  <2> QED
    BY <2>1, <2>2, <2>3, <2>4
<1>16. CASE UNCHANGED vars
  <2> USE <1>i, <1>16 DEF vars
  <2>1. TypeOK'
    BY DEF TypeOK
  <2>2. CallInv'
    BY DEF CallInv
  <2>3. IdInv' /\ ReadInv'
    BY DEF IdInv, ReadInv
  <2> QED
    BY <1>l, <2>1, <2>2, <2>3 DEF IndInv
<1> QED
  BY <1>l, <1>1, <1>2, <1>3, <1>4, <1>5, <1>6, <1>7, <1>8, <1>9, <1>10, <1>11, <1>12, <1>13, <1>14, <1>15, <1>16 DEF IndInv, Next, CallStep

\* The types of RWStore, and everything that holds of it with them.
THEOREM Invariance == Spec => []IndInv
<1> QED
  BY InitIndInv, IndInvStep, PTL DEF Spec

\* TypeOK: no method of a store leaves its map, its lock or its results with
\* a value of another kind.
THEOREM TypeSafety == Spec => []TypeOK
<1>1. IndInv => TypeOK
  BY DEF IndInv
<1> QED
  BY <1>1, Invariance, PTL

-----------------------------------------------------------------------------
(* Linearizability                                                         *)

\* The ids of the abstract store: drawn, and already written.
Used == issued \ {newId[t] : t \in Threads}

LEMMA InitAbstract == Init => Abstract!Init
BY DEF Init, Abstract!Init, Abstract!EmptyStore, EmptyStore,
       Abstract!NoCall, NoCall, Abstract!NoId, NoId

\* Steps that neither touch the map nor decide a result are not visible.
LEMMA SilentStep ==
  ASSUME IndInv, NEW t \in Threads,
         \/ GenerateID(t) \/ Lock(t) \/ Drained(t) \/ Unlock(t) \/ RLock(t)
         \/ RUnlock(t) \/ ListNext(t)
  PROVE  UNCHANGED Abstract!vars
<1>1. Used' = Used
  <2>1. CASE GenerateID(t)
    <3>1. PICK id \in Ids \ issued : /\ newId' = [newId EXCEPT ![t] = id]
                                     /\ issued' = issued \cup {id}
      BY <2>1 DEF GenerateID
    <3>2. newId[t] = NoId /\ NoId \notin issued /\ pc[t] = "gen"
      BY <2>1, NoIdAssumption DEF GenerateID, IndInv, IdInv, TypeOK
    <3>3. DOMAIN newId = Threads
      BY DEF IndInv, TypeOK
    <3> QED
      BY <3>1, <3>2, <3>3 DEF Used
  <2>2. CASE ~GenerateID(t)
    BY <2>2 DEF Used, Lock, Drained, Unlock, RLock, RUnlock, ListNext
  <2> QED
    BY <2>1, <2>2
<1>2. UNCHANGED <<recs, call, result>>
  BY DEF GenerateID, Lock, Drained, Unlock, RLock, RUnlock, ListNext
<1> QED
  BY <1>1, <1>2 DEF Abstract!vars, Used

\* The effect of Create is at its write, under the lock.
LEMMA WriteNewRefines ==
  ASSUME IndInv, NEW t \in Threads, WriteNew(t) PROVE Abstract!Create(t)
<1>1. newId[t] \in issued /\ newId[t] # NoId /\ newId[t] \in Ids
  BY DEF IndInv, IdInv, TypeOK, WriteNew
<1>2. DOMAIN newId = Threads /\ NoId \notin issued
  BY NoIdAssumption DEF IndInv, TypeOK
<1>3. \A u \in Threads : u # t => newId[u] # newId[t]
  BY <1>1 DEF IndInv, IdInv
<1>4. newId' = [newId EXCEPT ![t] = NoId] /\ issued' = issued
  BY DEF WriteNew
<1>5. Used' = Used \cup {newId[t]} /\ newId[t] \notin Used
  BY <1>1, <1>2, <1>3, <1>4 DEF Used
<1>6. call[t].op = "create" /\ result[t] = {}
  BY DEF IndInv, CallInv, WriteNew
<1>7. /\ \E v \in call[t].val : recs' = With(recs, newId[t], [id |-> newId[t], val |-> v])
      /\ result' = [result EXCEPT ![t] = Found(Only(recs', newId[t]))]
      /\ call' = call
  BY DEF WriteNew, StoreRecord
<1> HIDE DEF WriteNew
<1> QED
  BY <1>1, <1>5, <1>6, <1>7
  DEF Abstract!Create, Abstract!Pending, Abstract!Answer, Used,
      Abstract!With, Abstract!Only, Abstract!Found, With, Only, Found

\* Update and Delete, on an id that is there since their check.
LEMMA WriteRefines ==
  ASSUME IndInv, NEW t \in Threads
  PROVE  /\ WriteOver(t) => Abstract!Update(t)
         /\ WriteDelete(t) => Abstract!Delete(t)
<1>1. pc[t] = "write" /\ call[t].op \in {"update", "delete"} =>
        result[t] = {} /\ call[t].id \in DOMAIN recs
  BY DEF IndInv, CallInv, ReadInv
<1>2. ASSUME WriteOver(t) PROVE Abstract!Update(t)
  BY <1>1, <1>2
  DEF WriteOver, StoreRecord, Abstract!Update, Abstract!Pending,
      Abstract!Answer, Abstract!With, Abstract!Only, Abstract!Found,
      With, Only, Found
<1>3. ASSUME WriteDelete(t) PROVE Abstract!Delete(t)
  BY <1>1, <1>3
  DEF WriteDelete, Abstract!Delete, Abstract!Pending, Abstract!Answer,
      Abstract!Remove, Remove, Abstract!EmptyStore, EmptyStore,
      Abstract!Found, Found
<1> QED
  BY <1>2, <1>3

\* Operations that find nothing, and Get.
LEMMA ReadRefines ==
  ASSUME IndInv, NEW t \in Threads
  PROVE  /\ Check(t) => Abstract!Miss(t) \/ UNCHANGED Abstract!vars
         /\ Read(t) => Abstract!Get(t) \/ Abstract!Miss(t)
<1>1. /\ pc[t] \in {"check", "read"} => result[t] = {}
      /\ pc[t] = "check" => call[t].op \in {"update", "delete"}
  BY DEF IndInv, CallInv
<1> QED
  BY <1>1
  DEF Check, Read, Abstract!Miss, Abstract!Get, Abstract!Pending,
      Abstract!Answer, Abstract!vars, Abstract!Only, Abstract!Found, Only,
      Found, Abstract!NotFound, NotFound, Abstract!EmptyStore, EmptyStore

\* List took its copy while nothing could change: it is the map at the end of
\* the loop.
LEMMA ListRefines ==
  ASSUME IndInv, NEW t \in Threads, ListEnd(t) PROVE Abstract!List(t)
<1>1. /\ pc[t] = "read" /\ call[t].op = "list" /\ result[t] = {}
      /\ DOMAIN out[t] = DOMAIN recs
      /\ \A k \in DOMAIN out[t] : out[t][k] = recs[k]
  BY DEF IndInv, CallInv, ReadInv, ListEnd
<1>2. /\ out[t] = [k \in DOMAIN out[t] |-> out[t][k]]
      /\ recs = [k \in DOMAIN recs |-> recs[k]]
  BY DEF IndInv, TypeOK, IsStore
<1>3. out[t] = recs
  BY <1>1, <1>2
<1> QED
  BY <1>1, <1>3
  DEF ListEnd, Abstract!List, Abstract!Pending, Abstract!Answer,
      Abstract!Found, Found

LEMMA EndsRefine ==
  ASSUME IndInv, NEW t \in Threads
  PROVE  /\ Invoke(t) => Abstract!Invoke(t)
         /\ Return(t) => Abstract!Return(t)
<1>1. /\ pc[t] = "idle" => call[t] = NoCall
      /\ pc[t] = "ret" => result[t] # {}
  BY DEF IndInv, CallInv
<1>2. Abstract!NoCall = NoCall /\ Abstract!Call = Call
  BY DEF Abstract!NoCall, NoCall, Abstract!NoId, NoId, Abstract!Call, Call
<1> QED
  BY <1>1, <1>2 DEF Invoke, Return, Abstract!Invoke, Abstract!Return

\* Linearizable: every execution of the store's methods under their RWMutex
\* is one of the atomic store.
THEOREM Linearizability == Spec => Linearizable
<1>1. IndInv /\ [Next]_vars => [Abstract!Next]_(Abstract!vars)
  <2> SUFFICES ASSUME IndInv, [Next]_vars
               PROVE  [Abstract!Next]_(Abstract!vars)
    OBVIOUS
  <2>1. ASSUME NEW t \in Threads, Invoke(t) \/ Lock(t) \/ CallStep(t)
        PROVE  [Abstract!Next]_(Abstract!vars)
    BY <2>1, SilentStep, WriteNewRefines, WriteRefines, ReadRefines,
       ListRefines, EndsRefine
    DEF CallStep, Abstract!Next
  <2>2. CASE UNCHANGED vars
    BY <2>2 DEF vars, Abstract!vars
  <2> QED
    BY <2>1, <2>2 DEF Next
<1> QED
  BY <1>1, InitAbstract, Invariance, PTL DEF Spec, Linearizable, Abstract!Spec
=============================================================================
