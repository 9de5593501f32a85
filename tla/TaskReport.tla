----------------------------- MODULE TaskReport -----------------------------
(***************************************************************************)
(* What the collector delivers, without how: from time to time it takes a  *)
(* look at the machine and publishes a new set of tasks.  Everything it    *)
(* publishes was a task while it looked; nothing it published the time     *)
(* before is published again; and, unless a look may fail, whatever lived  *)
(* through the whole look is in this report or was in the one before.      *)
(*                                                                         *)
(* The middle clause is the code's, not a wish: unordered_map::emplace     *)
(* leaves the old, overdue row in place (io_monitor.cpp:44,53), so a       *)
(* task's fresh row is dropped and the overdue one swept.                  *)
(***************************************************************************)
EXTENDS ProcFs

CONSTANT Faults  \* may a look at a live task fail?

VARIABLES
  looking,  \* is a look under way?
  shown     \* the tasks of the last report

reportVars == <<tgid, bytes, seen, since, looking, shown>>

ReportInit ==
  /\ ProcInit
  /\ looking = FALSE
  /\ shown = {}

Look ==
  /\ ~looking
  /\ looking' = TRUE
  /\ Mark
  /\ UNCHANGED shown

(* "found" is what the look came across. *)
Publish ==
  /\ looking
  /\ looking' = FALSE
  /\ \E found \in SUBSET seen :
        /\ Faults \/ Steady \subseteq found
        /\ shown' = found \ shown
  /\ UNCHANGED procVars

ReportNext ==
  \/ Look
  \/ Publish
  \/ ProcNext /\ UNCHANGED <<looking, shown>>

ReportSpec == ReportInit /\ [][ReportNext]_reportVars

(* The collector never stops looking and never looks for ever. *)
FairReportSpec ==
  ReportSpec /\ WF_reportVars(Look) /\ WF_reportVars(Publish)
=============================================================================
