----------------------------- MODULE IoPriority -----------------------------
(***************************************************************************)
(* The PRIO column: get_task_io_priority asks the kernel up to three times *)
(* about a task that may change or exit in between, the row keeps the      *)
(* result, convert_io_prio_to_str shows it.                                *)
(*                                                                         *)
(* The kernel is external: a task has an I/O priority of its own, or none, *)
(* and then the one that follows from its scheduling policy and its nice   *)
(* value.                                                                  *)
(***************************************************************************)
EXTENDS Integers

CONSTANTS
  Levels,  \* data an I/O priority may be set to
  Nices    \* nice values that are in use

ASSUME PriorityAssumption ==
  /\ Levels \subseteq 0 .. 7 /\ 0 \in Levels
  /\ Nices \subseteq -20 .. 19

IOPRIO_CLASS_NONE == 0
IOPRIO_CLASS_RT == 1
IOPRIO_CLASS_BE == 2
IOPRIO_CLASS_IDLE == 3
IOPRIO_CLASS_MAX == 4

ClassUnit == 8192  \* 1 << IOPRIO_CLASS_SHIFT

IOPRIO_PRIO_VALUE(class, data) == class * ClassUnit + data

VARIABLES
  task,         \* what the kernel knows of the task
  changed,      \* history: has that changed since the call began?
  pc,
  scheduler,    \* the policy as it was read
  io_priority   \* the row's

vars == <<task, changed, pc, scheduler, io_priority>>

-----------------------------------------------------------------------------
(* The kernel *)

Policies == {"SCHED_OTHER", "SCHED_BATCH", "SCHED_IDLE", "SCHED_FIFO", "SCHED_RR"}

(* A class comes with every level; no class, with none.                    *)
IoPrios ==
  {0} \cup {IOPRIO_PRIO_VALUE(class, data) :
              class \in IOPRIO_CLASS_RT .. IOPRIO_CLASS_IDLE, data \in Levels}

TaskStates ==
  [alive : BOOLEAN, ioprio : IoPrios, policy : Policies, reset_on_fork : BOOLEAN,
   nice : Nices]

(* What I/O is done at: the policy alone decides the class.                *)
EffectiveClass ==
  CASE task.policy \in {"SCHED_FIFO", "SCHED_RR"} -> IOPRIO_CLASS_RT
    [] task.policy = "SCHED_IDLE" -> IOPRIO_CLASS_IDLE
    [] OTHER -> IOPRIO_CLASS_BE

EffectiveData ==
  IF EffectiveClass = IOPRIO_CLASS_IDLE THEN 0 ELSE (task.nice + 20) \div 5

Changes(new) ==
  /\ task.alive
  /\ task' = new
  /\ changed' = TRUE
  /\ UNCHANGED <<pc, scheduler, io_priority>>

Exit == Changes([task EXCEPT !.alive = FALSE])

SetScheduler ==
  \E policy \in Policies, reset \in BOOLEAN :
    Changes([task EXCEPT !.policy = policy, !.reset_on_fork = reset])

Renice == \E nice \in Nices : Changes([task EXCEPT !.nice = nice])

(* set_io_prio; the kernel takes no data without a class.                  *)
SetIoPrio ==
  \E class \in IOPRIO_CLASS_NONE .. IOPRIO_CLASS_IDLE, data \in Levels :
    /\ class = IOPRIO_CLASS_NONE => data = 0
    /\ Changes([task EXCEPT !.ioprio = IOPRIO_PRIO_VALUE(class, data)])

(* The flag is part of what sched_getscheduler returns.                    *)
SchedGetscheduler ==
  IF ~task.alive THEN "error"
  ELSE IF task.reset_on_fork THEN "SCHED_RESET_ON_FORK"
  ELSE task.policy

Getpriority == IF task.alive THEN task.nice ELSE -1

-----------------------------------------------------------------------------
(* get_task_io_priority *)

Init ==
  /\ task \in TaskStates
  /\ changed = FALSE
  /\ pc = "ioprio_get"
  /\ scheduler = "error"
  /\ io_priority = -1

(* Variant: an error is kept.                                              *)
Return_KeepsError(prio) ==
  /\ pc' = "done"
  /\ io_priority' = prio

(* handle_every_task_io_info replaces an error by 0.                       *)
Return(prio) ==
  /\ pc' = "done"
  /\ io_priority' = IF prio < 0 THEN 0 ELSE prio

IoprioGet ==
  /\ pc = "ioprio_get"
  /\ IF ~task.alive THEN Return(-1)
     ELSE IF task.ioprio \div ClassUnit # IOPRIO_CLASS_NONE THEN Return(task.ioprio)
     ELSE pc' = "sched_getscheduler" /\ UNCHANGED io_priority
  /\ UNCHANGED <<task, changed, scheduler>>

(* get_task_io_priority_from_sched                                         *)
ReadScheduler ==
  /\ pc = "sched_getscheduler"
  /\ pc' = "getpriority"
  /\ scheduler' = SchedGetscheduler
  /\ UNCHANGED <<task, changed, io_priority>>

(* Variant: the idle class is taken for a realtime one.                    *)
FromSched_SwapsIdle(policy, nice) ==
  IF policy \in {"SCHED_FIFO", "SCHED_RR", "SCHED_IDLE"}
  THEN IOPRIO_PRIO_VALUE(IOPRIO_CLASS_RT, (nice + 20) \div 5)
  ELSE IOPRIO_PRIO_VALUE(IOPRIO_CLASS_BE, (nice + 20) \div 5)

FromSched(policy, nice) ==
  IF policy \in {"SCHED_FIFO", "SCHED_RR"}
  THEN IOPRIO_PRIO_VALUE(IOPRIO_CLASS_RT, (nice + 20) \div 5)
  ELSE IF policy = "SCHED_IDLE"
  THEN IOPRIO_PRIO_VALUE(IOPRIO_CLASS_IDLE, 0)
  ELSE IOPRIO_PRIO_VALUE(IOPRIO_CLASS_BE, (nice + 20) \div 5)

(* Errors of the two calls are taken for a policy and a nice value.        *)
ReadNice ==
  /\ pc = "getpriority"
  /\ Return(FromSched(scheduler, Getpriority))
  /\ UNCHANGED <<task, changed, scheduler>>

(* The text for a priority: class and data.  Nothing guards the array of   *)
(* class names against a negative index.                                   *)
ConvertIoPrioToStr(io_prio) ==
  LET io_class == io_prio \div ClassUnit IN
  IF io_class >= IOPRIO_CLASS_MAX THEN [class |-> "xx", data |-> 0]
  ELSE IF io_class < 0 THEN [class |-> "undefined", data |-> 0]
  ELSE [class |-> <<"-", "rt", "be", "id">>[io_class + 1],
        data |-> io_prio % ClassUnit]

Next ==
  \/ IoprioGet
  \/ ReadScheduler
  \/ ReadNice
  \/ Exit
  \/ SetScheduler
  \/ Renice
  \/ SetIoPrio

Spec == Init /\ [][Next]_vars

-----------------------------------------------------------------------------
(* Properties *)

(* Types; and an error never stays in a row.                               *)
TypeOK ==
  /\ task \in TaskStates
  /\ changed \in BOOLEAN
  /\ pc \in {"ioprio_get", "sched_getscheduler", "getpriority", "done"}
  /\ scheduler \in Policies \cup {"SCHED_RESET_ON_FORK", "error"}
  /\ io_priority \in Int
  /\ pc = "done" => io_priority \in Nat

(* Whatever the task does between the calls, and if it exits between any   *)
(* two of them, the column shows a class there is and data it may have, or *)
(* "-/0"; errors do not get as far as convert_io_prio_to_str               *)
(* (io_monitor.cpp:61-66, util.cpp:60-72).                                 *)
ShownIsLegal ==
  pc = "done" =>
    LET shown == ConvertIoPrioToStr(io_priority) IN
    \/ shown = [class |-> "-", data |-> 0]
    \/ shown.class \in {"rt", "be", "id"} /\ shown.data \in 0 .. 7

(* What the task does its I/O at, as text.                                 *)
Effective ==
  IF task.ioprio # 0
  THEN ConvertIoPrioToStr(task.ioprio)
  ELSE [class |-> <<"rt", "be", "id">>[EffectiveClass], data |-> EffectiveData]

(* If the task stays as it is for the length of the call, the column shows *)
(* what the kernel does its I/O at.  Not so with SCHED_RESET_ON_FORK, which*)
(* hides a realtime policy from the comparison (util.cpp:65).              *)
ShownIsEffective ==
  (pc = "done" /\ ~changed /\ task.alive /\ ~task.reset_on_fork) =>
    ConvertIoPrioToStr(io_priority) = Effective
=============================================================================
