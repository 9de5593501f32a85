---------------------------- MODULE MCViewCurses ----------------------------
(***************************************************************************)
(* ViewCurses for TLC: the tasks are interchangeable.                      *)
(***************************************************************************)
EXTENDS ViewCurses, TLC

Symmetry == Permutations(Tasks)
=============================================================================
