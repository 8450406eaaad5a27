----------------------------- MODULE MCRWStore -----------------------------
(***************************************************************************)
(* RWStore for TLC.  Threads, ids and values are interchangeable, which is *)
(* used where only safety is checked.                                      *)
(***************************************************************************)
EXTENDS RWStore, TLC

Symmetry ==
  Permutations(Threads) \cup Permutations(Ids) \cup Permutations(Values)
=============================================================================
