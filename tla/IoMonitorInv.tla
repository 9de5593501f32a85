---------------------------- MODULE IoMonitorInv ----------------------------
(***************************************************************************)
(* The inductive invariant of IoMonitor, from which IoMonitorProofs        *)
(* derives the properties.  It says what the table and the lists mean in   *)
(* every phase of a round, where the properties only look at its end.      *)
(***************************************************************************)
EXTENDS IoMonitor

Collecting == pc \in {"scan", "open", "tasks"}

(* An id that stood for one task ever since the mark still has the place   *)
(* in the process tree at which the listing found it.                      *)
ListingOK ==
  /\ pc = "open" /\ dir \in Steady => tgid[dir] = dir
  /\ Collecting =>
       /\ \A p \in DOMAIN task_ids :
            /\ p \in Steady => tgid[p] = p
            /\ \A t \in task_ids[p] \cap Steady : tgid[t] = p
       /\ ~Faults =>
            \A t \in Steady :
              tgid[t] \in DOMAIN task_ids => t \in task_ids[tgid[t]]

(* Rows left from the last frame are overdue, the others were fetched in   *)
(* this round, and those that got an answer got it for the right task.     *)
GoodRow(t) ==
  LET row == task_io_stats_table[t] IN
  /\ t \in seen
  /\ row.io_real_read_period > 0 => pause > MinPeriod
  /\ t \in Steady =>
       /\ since[t] <= row.io_real_read_b
       /\ row.io_real_read_b <= bytes[t]
       /\ row.is_pid <=> tgid[t] = t

TableOK ==
  /\ pc \in {"sleep", "begin", "scan", "open"} => DOMAIN task_io_stats_table = drawn
  /\ Collecting =>
       /\ drawn \subseteq DOMAIN task_io_stats_table
       /\ \A t \in drawn : ~task_io_stats_table[t].is_updated
  /\ pc \in {"tasks", "draw"} =>
       \A t \in DOMAIN task_io_stats_table :
         task_io_stats_table[t].is_updated => GoodRow(t)
  /\ pc = "draw" =>
       \A t \in DOMAIN task_io_stats_table :
         t \notin drawn /\ task_io_stats_table[t].is_updated

(* A leader among the threads still to come has its row already, so the    *)
(* thread's row cannot take its place.                                     *)
LeadersFirst ==
  \A t \in tids \cap Steady : tgid[t] = t => t \in DOMAIN task_io_stats_table

(* Every lasting task is still to come or has been dealt with.             *)
NoneForgotten ==
  ~Faults =>
    /\ pc = "tasks" =>
         \A t \in Steady :
           \/ tgid[t] \in todo
           \/ t \in tids
           \/ t \in DOMAIN task_io_stats_table
    /\ pc = "tasks" =>
         \A t \in (Steady \cap DOMAIN task_io_stats_table) \ drawn :
           task_io_stats_table[t].is_updated
    /\ pc = "draw" => Steady \subseteq DOMAIN task_io_stats_table \cup drawn

(* The timestamps, measured from the last collection.                      *)
ClockOK ==
  /\ pc = "begin" =>
       /\ clock = pause
       /\ collect_tm_ns = 0 /\ origin_collect_timestamp_ns = 0
  /\ Collecting =>
       /\ clock = pause /\ collect_tm_ns = clock
       /\ origin_collect_timestamp_ns = 0
  /\ pc \in {"draw", "sleep"} =>
       /\ collect_tm_ns = clock
       /\ origin_collect_timestamp_ns = clock

(* The header total has seen every process row of this round, and in a     *)
(* first frame whose ids were listed once each it has seen nothing else: a *)
(* process still to come has no row yet.                                   *)
Counted(table) == {t \in DOMAIN table : table[t].is_pid /\ table[t].is_updated}

CountedTotal(table) == SumFunctionOnSet(Periods(table), Counted(table))

HeaderOK ==
  /\ pc \in {"scan", "open"} => curr_disk_read_b_s = 0
  /\ pc \in {"tasks", "draw"} =>
       CountedTotal(task_io_stats_table) <= curr_disk_read_b_s
  /\ pc \in {"tasks", "draw"} /\ drawn = {} /\ ListedOnce =>
       /\ todo \cap (DOMAIN task_io_stats_table \cup tids) = {}
       /\ CountedTotal(task_io_stats_table) = curr_disk_read_b_s

(* The inductive invariant.                                                *)
IInv ==
  /\ TypeOK
  /\ ListingOK
  /\ TableOK
  /\ LeadersFirst
  /\ NoneForgotten
  /\ ClockOK
  /\ HeaderOK
=============================================================================
