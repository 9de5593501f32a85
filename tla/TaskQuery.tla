------------------------------ MODULE TaskQuery ------------------------------
(***************************************************************************)
(* What IoMonitor counts on when it asks NetlinkIoStats about a task: one  *)
(* question at a time, and an answer that either is about that very task   *)
(* or says that there is none, in which case the row stays as it was.      *)
(***************************************************************************)
CONSTANTS
  Tasks,  \* the tasks that may be asked for
  NoTask  \* no question is open; a row nobody filled in

VARIABLES
  asked,  \* the task the open call is about
  row,    \* what the last call left in *io_stats: whose numbers they are
  ok      \* did the last call say that it filled the row in?

queryVars == <<asked, row, ok>>

QueryInit ==
  /\ asked = NoTask
  /\ row = NoTask
  /\ ok \in BOOLEAN

Ask(t) ==
  /\ asked = NoTask
  /\ asked' = t
  /\ row' = NoTask  \* every call comes with a fresh TaskIoInfo
  /\ UNCHANGED ok

Reply ==
  /\ asked # NoTask
  /\ asked' = NoTask
  /\ \/ row' = asked /\ ok'
     \/ row' = NoTask /\ ~ok'

QueryNext == Reply \/ \E t \in Tasks : Ask(t)

QuerySpec == QueryInit /\ [][QueryNext]_queryVars

(* Every call returns. *)
FairQuerySpec == QuerySpec /\ WF_queryVars(Reply)
=============================================================================
