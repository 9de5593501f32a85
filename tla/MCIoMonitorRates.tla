-------------------------- MODULE MCIoMonitorRates --------------------------
(***************************************************************************)
(* IoMonitor with the history it takes to say what a rate should be: each  *)
(* task's counter when the collection before this one began.  The history  *)
(* only watches; no step of the loop depends on it.                        *)
(***************************************************************************)
EXTENDS IoMonitor

VARIABLES
  marks,  \* since, as this collection found it when it began
  before  \* the same for the collection before

watchVars == <<marks, before>>

MCInit ==
  /\ Init
  /\ marks = EmptyFunction
  /\ before = EmptyFunction

StillAlive(f) == Restrict(f, DOMAIN f \cap DOMAIN since')

MCNext ==
  /\ Next
  /\ IF pc = "begin" /\ pc' = "scan"
     THEN /\ before' = marks
          /\ marks' = since'
     ELSE /\ marks' = StillAlive(marks)
          /\ before' = StillAlive(before)

MCSpec == MCInit /\ [][MCNext]_<<vars, watchVars>>

(* common.h:51: the period fields are a bandwidth over a time interval,    *)
(* and the interval the code divides by is the one since the collection    *)
(* before.  So the bytes behind the rate of a task that was there then     *)
(* are no more than what it has read since then.                           *)
RateOfThePeriod ==
  pc = "draw" =>
    \A t \in DOMAIN task_io_stats_table \cap DOMAIN before :
      task_io_stats_table[t].io_real_read_period <= bytes[t] - before[t]

(* README.md:11: the tool reports the I/O of every thread of the system.   *)
(* When nothing fails, a frame shows every task that was there from the    *)
(* beginning of its collection to its end.                                 *)
AllTasksShown ==
  (pc = "draw" /\ ~Faults) => Steady \subseteq DOMAIN task_io_stats_table
=============================================================================
