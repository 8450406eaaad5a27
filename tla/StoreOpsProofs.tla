--------------------------- MODULE StoreOpsProofs ---------------------------
(***************************************************************************)
(* What the statements on a store's map preserve.                          *)
(***************************************************************************)
EXTENDS StoreOps, TLAPS

\* Writes to a store leave a store.
LEMMA WithIsStore ==
  ASSUME NEW K, NEW R, NEW s, IsStore(s, K, R), NEW id \in K, NEW r \in R
  PROVE  IsStore(With(s, id, r), K, R)
BY DEF IsStore, With

LEMMA RemoveIsStore ==
  ASSUME NEW K, NEW R, NEW s, IsStore(s, K, R), NEW id
  PROVE  IsStore(Remove(s, id), K, R)
BY DEF IsStore, Remove

LEMMA EmptyIsStore ==
  ASSUME NEW K, NEW R
  PROVE  IsStore(EmptyStore, K, R) /\ DOMAIN EmptyStore = {}
BY DEF IsStore, EmptyStore

\* Get on a store returns nothing or a record of it.
LEMMA LookupType ==
  ASSUME NEW K, NEW R, NEW s, IsStore(s, K, R), NEW id
  PROVE  /\ Lookup(s, id) = {} <=> id \notin DOMAIN s
         /\ \A r \in Lookup(s, id) : r \in R /\ r = s[id] /\ id \in DOMAIN s
BY DEF IsStore, Lookup
=============================================================================
