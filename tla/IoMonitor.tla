------------------------------ MODULE IoMonitor ------------------------------
(***************************************************************************)
(* The collector and the loop that drives it: IoRunner::run calls          *)
(* IoMonitor::collect_timed, copies the table and the totals, draws them   *)
(* and sleeps.  The loop has one thread, but each of its system calls      *)
(* meets a machine that has moved on since the last one (ProcFs).          *)
(*                                                                         *)
(* One counter (io_real_read_b and the rate and header total made from it) *)
(* stands for the six that the code treats alike.  Directory order is      *)
(* arbitrary, so a listing is a function from pids to sets of tids.        *)
(***************************************************************************)
EXTENDS ProcFs

CONSTANTS
  Faults,     \* may opening a directory or querying a live task fail?
  MinPeriod,  \* 1E-3 s: over no longer a period is a rate computed
  Pauses      \* the time, in ms, that may pass between two collections
              \* (sleep is cut short by a signal, hence 0)

ASSUME IoMonitorAssumption ==
  /\ Faults \in BOOLEAN
  /\ MinPeriod \in Nat
  /\ Pauses \subseteq Nat

VARIABLES
  pc,                         \* where the loop is
  clock,                      \* CLOCK_MONOTONIC
  collect_tm_ns,              \* when this collection began
  origin_collect_timestamp_ns,\* when the one before began
  task_ids,                   \* the static list of get_all_task_id
  dir,                        \* the process directory being opened
  todo,                       \* listed processes not handled yet
  tids,                       \* threads of the current process not handled yet
  task_io_stats_table,
  curr_disk_read_b_s,         \* the total, as bytes of this period
  drawn,                      \* the tasks on the screen since the last frame
  pause                       \* history: the pause before this collection

collectVars == <<collect_tm_ns, origin_collect_timestamp_ns>>
listVars == <<task_ids, dir, todo, tids>>
tableVars == <<task_io_stats_table, curr_disk_read_b_s>>

vars == <<procVars, pc, clock, collectVars, listVars, tableVars, drawn, pause>>

EmptyFunction == [t \in {} |-> t]

-----------------------------------------------------------------------------
(* Rows *)

NewTaskIoInfo(is_pid) ==
  [is_pid |-> is_pid, io_real_read_b |-> 0, io_real_read_period |-> 0,
   is_updated |-> FALSE]

ULL_VALUE_DIFF(to, from) == IF to < from THEN 0 ELSE to - from

(* What the query and the rate computation make of a fresh row when the    *)
(* kernel answers "total".  All rates of a collection share one            *)
(* denominator, so a rate is kept as its numerator, 0 when none is         *)
(* computed.                                                               *)
Answered(info, total) ==
  LET origin == info.io_real_read_b IN
  [info EXCEPT
     !.io_real_read_b = total,
     !.io_real_read_period =
        IF collect_tm_ns - origin_collect_timestamp_ns > MinPeriod
        THEN ULL_VALUE_DIFF(total, origin) ELSE @,
     !.is_updated = TRUE]

(* The rows that handling task t may produce now. *)
HandleTask(t, is_pid) ==
  (IF t \in LiveIds THEN {Answered(NewTaskIoInfo(is_pid), bytes[t])} ELSE {})
    \cup (IF Faults \/ t \notin LiveIds THEN {NewTaskIoInfo(is_pid)} ELSE {})

(* Variant: insert_or_assign instead of emplace. *)
Emplace_Assigns(table, t, info) ==
  [k \in DOMAIN table \cup {t} |-> IF k = t THEN info ELSE table[k]]

Emplace(table, t, info) ==
  IF t \in DOMAIN table
  THEN table
  ELSE [k \in DOMAIN table \cup {t} |-> IF k = t THEN info ELSE table[k]]

(* Variant: the rows are not marked overdue. *)
SetTaskStateOverdue_Skipped(table) == table

SetTaskStateOverdue(table) ==
  [t \in DOMAIN table |-> [table[t] EXCEPT !.is_updated = FALSE]]

(* Variant: the overdue rows are not swept. *)
RemoveOverdueTask_Skipped(table) == table

RemoveOverdueTask(table) ==
  Restrict(table, {t \in DOMAIN table : table[t].is_updated})

(* Variant: "=" for "+=". *)
AddToTotal_Overwrites(total, info) == info.io_real_read_period

AddToTotal(total, info) == total + info.io_real_read_period

-----------------------------------------------------------------------------
(* The loop *)

Init ==
  /\ ProcInit
  /\ pc = "begin"
  /\ clock \in {n \in Pauses : n > MinPeriod}  \* up for a while
  /\ collect_tm_ns = 0
  /\ origin_collect_timestamp_ns = 0
  /\ task_ids = EmptyFunction
  /\ dir = NoTask
  /\ todo = {}
  /\ tids = {}
  /\ task_io_stats_table = EmptyFunction
  /\ curr_disk_read_b_s = 0
  /\ drawn = {}
  /\ pause = clock

(* Variant: get_all_task_id does not clear its static list. *)
BeginCollect_KeepsList ==
  /\ pc = "begin"
  /\ pc' = "scan"
  /\ task_io_stats_table' = SetTaskStateOverdue(task_io_stats_table)
  /\ curr_disk_read_b_s' = 0
  /\ collect_tm_ns' = clock
  /\ Mark
  /\ UNCHANGED <<clock, origin_collect_timestamp_ns, listVars, drawn, pause>>

(* collect_timed up to the listing; get_all_task_id clears its static list. *)
BeginCollect ==
  /\ pc = "begin"
  /\ pc' = "scan"
  /\ task_io_stats_table' = SetTaskStateOverdue(task_io_stats_table)
  /\ curr_disk_read_b_s' = 0
  /\ collect_tm_ns' = clock
  /\ task_ids' = EmptyFunction
  /\ Mark
  /\ UNCHANGED <<clock, origin_collect_timestamp_ns, dir, todo, tids, drawn, pause>>

(* readdir on /proc yields a process it has not yielded yet. *)
ReadProcDir(p) ==
  /\ pc = "scan"
  /\ p \in Processes \ DOMAIN task_ids
  /\ pc' = "open"
  /\ dir' = p
  /\ UNCHANGED <<procVars, clock, collectVars, task_ids, todo, tids,
                 tableVars, drawn, pause>>

(* Variant: the leader is left out of its process's threads.               *)
ReadTaskDir_SkipsLeader ==
  /\ pc = "open"
  /\ pc' = "scan"
  /\ \E threads \in {ThreadsOf(dir) \ {dir}} \cup (IF Faults THEN {{}} ELSE {}) :
        task_ids' = [p \in DOMAIN task_ids \cup {dir} |->
                       IF p = dir THEN threads ELSE task_ids[p]]
  /\ dir' = NoTask
  /\ UNCHANGED <<procVars, clock, collectVars, todo, tids, tableVars, drawn, pause>>

(* get_all_thread_id: the list is empty when the directory does not open,  *)
(* and by now the process may be gone.                                     *)
ReadTaskDir ==
  /\ pc = "open"
  /\ pc' = "scan"
  /\ \E threads \in {ThreadsOf(dir)} \cup (IF Faults THEN {{}} ELSE {}) :
        task_ids' = [p \in DOMAIN task_ids \cup {dir} |->
                       IF p = dir THEN threads ELSE task_ids[p]]
  /\ dir' = NoTask
  /\ UNCHANGED <<procVars, clock, collectVars, todo, tids, tableVars, drawn, pause>>

(* The end of /proc, or no /proc at all. *)
EndScan ==
  /\ pc = "scan"
  /\ \/ Processes \subseteq DOMAIN task_ids
     \/ Faults /\ DOMAIN task_ids = {}
  /\ pc' = "tasks"
  /\ todo' = DOMAIN task_ids
  /\ UNCHANGED <<procVars, clock, collectVars, task_ids, dir, tids,
                 tableVars, drawn, pause>>

HandleProcess(p) ==
  /\ pc = "tasks"
  /\ tids = {}
  /\ p \in todo
  /\ todo' = todo \ {p}
  /\ tids' = task_ids[p]
  /\ \E info \in HandleTask(p, TRUE) :
        /\ task_io_stats_table' = Emplace(task_io_stats_table, p, info)
        /\ curr_disk_read_b_s' = AddToTotal(curr_disk_read_b_s, info)
  /\ UNCHANGED <<procVars, pc, clock, collectVars, task_ids, dir, drawn, pause>>

(* Variant: threads are added to the total as well. *)
HandleThread_Totals(t) ==
  /\ pc = "tasks"
  /\ t \in tids
  /\ tids' = tids \ {t}
  /\ \E info \in HandleTask(t, FALSE) :
        /\ task_io_stats_table' = Emplace(task_io_stats_table, t, info)
        /\ curr_disk_read_b_s' = AddToTotal(curr_disk_read_b_s, info)
  /\ UNCHANGED <<procVars, pc, clock, collectVars, task_ids, dir, todo, drawn, pause>>

(* Variant: the thread that was handled stays in the list. *)
HandleThread_Repeats(t) ==
  /\ pc = "tasks"
  /\ t \in tids
  /\ \E info \in HandleTask(t, FALSE) :
        task_io_stats_table' = Emplace(task_io_stats_table, t, info)
  /\ UNCHANGED <<procVars, pc, clock, collectVars, listVars,
                 curr_disk_read_b_s, drawn, pause>>

HandleThread(t) ==
  /\ pc = "tasks"
  /\ t \in tids
  /\ tids' = tids \ {t}
  /\ \E info \in HandleTask(t, FALSE) :
        task_io_stats_table' = Emplace(task_io_stats_table, t, info)
  /\ UNCHANGED <<procVars, pc, clock, collectVars, task_ids, dir, todo,
                 curr_disk_read_b_s, drawn, pause>>

(* Variant: the timestamp of this collection is not kept for the next. *)
EndCollect_KeepsOrigin ==
  /\ pc = "tasks"
  /\ todo = {} /\ tids = {}
  /\ pc' = "draw"
  /\ task_io_stats_table' = RemoveOverdueTask(task_io_stats_table)
  /\ UNCHANGED <<procVars, clock, collectVars, listVars,
                 curr_disk_read_b_s, drawn, pause>>

(* Variant: the threads of the last process are skipped. *)
EndCollect_Early ==
  /\ pc = "tasks"
  /\ todo = {}
  /\ pc' = "draw"
  /\ origin_collect_timestamp_ns' = collect_tm_ns
  /\ task_io_stats_table' = RemoveOverdueTask(task_io_stats_table)
  /\ UNCHANGED <<procVars, clock, collect_tm_ns, listVars,
                 curr_disk_read_b_s, drawn, pause>>

EndCollect ==
  /\ pc = "tasks"
  /\ todo = {} /\ tids = {}
  /\ pc' = "draw"
  /\ origin_collect_timestamp_ns' = collect_tm_ns
  /\ task_io_stats_table' = RemoveOverdueTask(task_io_stats_table)
  /\ UNCHANGED <<procVars, clock, collect_tm_ns, listVars,
                 curr_disk_read_b_s, drawn, pause>>

Draw ==
  /\ pc = "draw"
  /\ pc' = "sleep"
  /\ drawn' = DOMAIN task_io_stats_table
  /\ UNCHANGED <<procVars, clock, collectVars, listVars, tableVars, pause>>

(* Both sleeps of a round; the time a collection takes is counted here too. *)
(* Only differences of timestamps are ever used, so to keep the state       *)
(* finite all three are measured anew from the last collection.             *)
Sleep ==
  /\ pc = "sleep"
  /\ pc' = "begin"
  /\ \E d \in Pauses :
        /\ clock' = (clock - origin_collect_timestamp_ns) + d
        /\ pause' = d
  /\ collect_tm_ns' = collect_tm_ns - origin_collect_timestamp_ns
  /\ origin_collect_timestamp_ns' = 0
  /\ UNCHANGED <<procVars, listVars, tableVars, drawn>>

Run ==
  \/ BeginCollect
  \/ \E p \in Ids : ReadProcDir(p)
  \/ ReadTaskDir
  \/ EndScan
  \/ \E p \in Ids : HandleProcess(p)
  \/ \E t \in Ids : HandleThread(t)
  \/ EndCollect
  \/ Draw
  \/ Sleep

loopVars == <<pc, clock, collectVars, listVars, tableVars, drawn, pause>>

Next == Run \/ (ProcNext /\ UNCHANGED loopVars)

Spec == Init /\ [][Next]_vars

(* The process is scheduled: "for (;;)" neither blocks for ever nor ends.  *)
FairSpec == Spec /\ WF_vars(Run)
-----------------------------------------------------------------------------
(* Properties *)

Row == [is_pid : BOOLEAN, io_real_read_b : 0 .. MaxBytes,
        io_real_read_period : 0 .. MaxBytes, is_updated : BOOLEAN]

(* The types of all variables, and what is only in use in part of a round: *)
(* the list of tasks to handle is used up when the collection ends, and    *)
(* the two timestamps differ only while one is under way.                  *)
TypeOK ==
  /\ ProcTypeOK
  /\ pc \in {"begin", "scan", "open", "tasks", "draw", "sleep"}
  /\ clock \in Nat /\ collect_tm_ns \in Nat /\ origin_collect_timestamp_ns \in Nat
  /\ DOMAIN task_ids \subseteq Ids
  /\ task_ids \in [DOMAIN task_ids -> SUBSET Ids]
  /\ dir \in Ids \cup {NoTask} /\ (pc = "open" => dir \in Ids)
  /\ todo \subseteq DOMAIN task_ids /\ tids \subseteq Ids
  /\ pc # "tasks" => todo = {} /\ tids = {}
  /\ DOMAIN task_io_stats_table \subseteq Ids
  /\ task_io_stats_table \in [DOMAIN task_io_stats_table -> Row]
  /\ curr_disk_read_b_s \in Nat
  /\ drawn \subseteq Ids
  /\ pause \in Pauses

(* Every row about to be drawn was fetched by the collection that ends     *)
(* here, however old the table it sits in: its id was a task during the    *)
(* collection, and if that task lived through it, the row's counter lies   *)
(* between the task's counter when the collection began and its counter    *)
(* now (set_task_state_overdue and remove_overdue_task around the fill).   *)
FreshRows ==
  pc = "draw" =>
    \A t \in DOMAIN task_io_stats_table :
      LET row == task_io_stats_table[t] IN
      /\ row.is_updated
      /\ t \in seen
      /\ t \in Steady => since[t] <= row.io_real_read_b /\ row.io_real_read_b <= bytes[t]

(* A process's leader is queried twice in a collection, as the process and *)
(* again as one of its own threads (/proc/p/task holds p), under the same  *)
(* key.  The row drawn for it is the process's, a thread's is a thread's.  *)
RowKind ==
  pc = "draw" =>
    \A t \in DOMAIN task_io_stats_table \cap Steady :
      task_io_stats_table[t].is_pid <=> tgid[t] = t

(* A rate is drawn only if more than MinPeriod really lay between the two  *)
(* collections (the filter of io_monitor.cpp:81): after a sleep that a     *)
(* signal cut short no bytes are divided by next to nothing.               *)
RateNeedsTime ==
  pc = "draw" =>
    \A t \in DOMAIN task_io_stats_table :
      task_io_stats_table[t].io_real_read_period > 0 => pause > MinPeriod

Periods(table) == [t \in DOMAIN table |-> table[t].io_real_read_period]

ProcessRowsTotal(table) ==
  SumFunctionOnSet(Periods(table), {t \in DOMAIN table : table[t].is_pid})

(* The total in the header is never less than what the process rows below  *)
(* it add up to, also when ids are reused while the collector runs.        *)
HeaderCoversRows ==
  pc = "draw" => ProcessRowsTotal(task_io_stats_table) <= curr_disk_read_b_s

(* No process was listed as somebody else's thread as well, as happens if  *)
(* its id is given away between the two readings.                          *)
ListedOnce ==
  \A p, q \in DOMAIN task_ids : p # q => p \notin task_ids[q]

(* In a frame that follows an empty one header and process rows agree      *)
(* exactly, unless an id was listed twice: a process whose query fails or  *)
(* that exits adds neither a row nor bytes, and none is added twice.       *)
HeaderMatchesRows ==
  (pc = "draw" /\ drawn = {} /\ ListedOnce) =>
    ProcessRowsTotal(task_io_stats_table) = curr_disk_read_b_s

(* The loop implements TaskReport: a report is a drawn frame.              *)
Report ==
  INSTANCE TaskReport WITH
    looking <- pc \notin {"begin", "sleep"},
    shown <- drawn

(* Every behaviour of the loop is one of the abstract collector: a frame   *)
(* shows only tasks seen while it was collected, none from the frame       *)
(* before, and no task that lives on is missing from two frames in a row.  *)
ImplementsReport == Report!ReportSpec

(* The fair loop implements the fair collector: every look ends and is     *)
(* followed by another, whatever the machine does in the meantime.         *)
ImplementsFairReport == Report!FairReportSpec

(* A task that goes on living is drawn again and again (when queries and   *)
(* directory reads do not fail), although every frame that shows it is     *)
(* followed by one that does not.                                          *)
LivingTaskIsDrawn ==
  \A t \in Ids :
    <>[](t \in LiveIds) => []<>(t \in drawn)
=============================================================================
