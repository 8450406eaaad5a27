---------------------------- MODULE MCLifecycle ----------------------------
(***************************************************************************)
(* Values for model checking Lifecycle: two requests log four records, the *)
(* queue holds three.                                                      *)
(***************************************************************************)
EXTENDS Lifecycle

MCCodes == {200, 422}
=============================================================================
