---------------------------- MODULE MCIoMonitor ----------------------------
(***************************************************************************)
(* IoMonitor, with the invariant the proofs rest on, for TLC: the ids are  *)
(* interchangeable.                                                        *)
(***************************************************************************)
EXTENDS IoMonitorInv, TLC

Symmetry == Permutations(Ids)
=============================================================================
