-------------------------------- MODULE Part --------------------------------
(***************************************************************************)
(* Parts of the firmware that share no state are put under one             *)
(* specification: a behaviour runs one of them.                            *)
(***************************************************************************)
VARIABLE part

Runs(p) == part = p
=============================================================================
