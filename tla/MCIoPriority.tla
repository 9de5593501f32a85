---------------------------- MODULE MCIoPriority ----------------------------
(***************************************************************************)
(* IoPriority for TLC: nice values at both ends, around 0, and -1, which   *)
(* getpriority also returns for an error.                                  *)
(***************************************************************************)
EXTENDS IoPriority

MCNices == {-20, -1, 0, 4, 5, 19}
=============================================================================
