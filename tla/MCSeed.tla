------------------------------- MODULE MCSeed -------------------------------
(***************************************************************************)
(* Values for model checking Seed: four ids, so that one run can have all  *)
(* the effects it asks for and a second one finds some left.               *)
(***************************************************************************)
EXTENDS Seed

MCIds == {"id1", "id2", "id3", "id4"}
=============================================================================
