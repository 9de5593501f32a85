--------------------------- MODULE PriorityProofs ---------------------------
(***************************************************************************)
(* The PRIO column shows a priority there is, whatever happens to the task *)
(* between the calls, and the task's own if nothing does.                  *)
(***************************************************************************)
EXTENDS IoPriority, TLAPS

USE PriorityAssumption
USE DEF IOPRIO_CLASS_NONE, IOPRIO_CLASS_RT, IOPRIO_CLASS_BE, IOPRIO_CLASS_IDLE,
        IOPRIO_CLASS_MAX, ClassUnit, IOPRIO_PRIO_VALUE

(* Priorities with a class.                                                *)
Legal(prio) ==
  \E class \in 1 .. 3, data \in 0 .. 7 : prio = IOPRIO_PRIO_VALUE(class, data)

EffectiveValue ==
  IF task.ioprio # 0
  THEN task.ioprio
  ELSE IOPRIO_PRIO_VALUE(EffectiveClass, EffectiveData)

(* What the calls made so far say of a task that stays as it is.           *)
ReadOK ==
  (~changed /\ task.alive) =>
    /\ pc \in {"sched_getscheduler", "getpriority"} => task.ioprio = 0
    /\ pc = "getpriority" => scheduler = SchedGetscheduler
    /\ pc = "done" /\ ~task.reset_on_fork => io_priority = EffectiveValue

IInv == TypeOK /\ ReadOK /\ (pc = "done" => io_priority = 0 \/ Legal(io_priority))

LEMMA NiceData ==
  ASSUME NEW nice \in -20 .. 19
  PROVE  (nice + 20) \div 5 \in 0 .. 7
BY Z3

(* A priority falls apart into its class and its data again.               *)
LEMMA ClassAndData ==
  ASSUME NEW class \in 0 .. 3, NEW data \in 0 .. 7
  PROVE  /\ IOPRIO_PRIO_VALUE(class, data) \in Nat
         /\ IOPRIO_PRIO_VALUE(class, data) \div ClassUnit = class
         /\ IOPRIO_PRIO_VALUE(class, data) % ClassUnit = data
BY Z3

LEMMA IoPriosAreLegal ==
  ASSUME NEW prio \in IoPrios
  PROVE  /\ prio \in Nat
         /\ prio = 0 \/ Legal(prio)
         /\ prio \div ClassUnit = 0 <=> prio = 0
<1>1. CASE prio = 0
  BY <1>1
<1>2. CASE prio # 0
  <2>1. PICK class \in 1 .. 3, data \in Levels : prio = IOPRIO_PRIO_VALUE(class, data)
    BY <1>2 DEF IoPrios
  <2>2. data \in 0 .. 7
    OBVIOUS
  <2>3. QED
    BY <2>1, <2>2, ClassAndData DEF Legal
<1>3. QED
  BY <1>1, <1>2

(* Errors count as nice -1 and no realtime policy: the result is legal.    *)
LEMMA FromSchedIsLegal ==
  ASSUME NEW policy, NEW nice \in -20 .. 19
  PROVE  /\ FromSched(policy, nice) \in Nat
         /\ Legal(FromSched(policy, nice))
<1> DEFINE data == (nice + 20) \div 5
<1>1. data \in 0 .. 7
  BY NiceData
<1> HIDE DEF data
<1>2. Legal(IOPRIO_PRIO_VALUE(1, data)) /\ Legal(IOPRIO_PRIO_VALUE(2, data))
      /\ Legal(IOPRIO_PRIO_VALUE(3, 0))
  BY <1>1 DEF Legal
<1>3. \/ FromSched(policy, nice) = IOPRIO_PRIO_VALUE(1, data)
      \/ FromSched(policy, nice) = IOPRIO_PRIO_VALUE(2, data)
      \/ FromSched(policy, nice) = IOPRIO_PRIO_VALUE(3, 0)
  BY DEF FromSched, data
<1>4. QED
  BY <1>1, <1>2, <1>3

(* The fallback is the kernel's own rule, as long as no flag hides the     *)
(* policy.                                                                 *)
LEMMA FromSchedIsEffective ==
  ASSUME TypeOK, task.alive, ~task.reset_on_fork, task.ioprio = 0
  PROVE  FromSched(SchedGetscheduler, task.nice) = EffectiveValue
<1>1. SchedGetscheduler = task.policy /\ task.policy \in Policies
  BY DEF SchedGetscheduler, TypeOK, TaskStates
<1>2. CASE task.policy \in {"SCHED_FIFO", "SCHED_RR"}
  BY <1>1, <1>2 DEF FromSched, EffectiveValue, EffectiveClass, EffectiveData
<1>3. CASE task.policy = "SCHED_IDLE"
  BY <1>1, <1>3 DEF FromSched, EffectiveValue, EffectiveClass, EffectiveData
<1>4. CASE task.policy \in {"SCHED_OTHER", "SCHED_BATCH"}
  BY <1>1, <1>4 DEF FromSched, EffectiveValue, EffectiveClass, EffectiveData
<1>5. QED
  BY <1>1, <1>2, <1>3, <1>4 DEF Policies

LEMMA InitHolds == Init => IInv
<1> SUFFICES ASSUME Init PROVE IInv
  OBVIOUS
<1>1. TypeOK
  <2>1. io_priority \in Int
    BY DEF Init
  <2>2. QED
    BY <2>1 DEF Init, TypeOK
<1>2. ReadOK
  BY DEF Init, ReadOK
<1>3. QED
  BY <1>1, <1>2 DEF Init, IInv

LEMMA IoprioGetHolds ==
  ASSUME IInv, IoprioGet
  PROVE  IInv'
<1>1. task.ioprio \in IoPrios /\ UNCHANGED <<task, changed, scheduler>>
  BY DEF IInv, TypeOK, TaskStates, IoprioGet
<1>2. CASE ~task.alive
  <2>1. pc' = "done" /\ io_priority' = 0
    BY <1>2 DEF IoprioGet, Return
  <2>2. QED
    BY <1>1, <1>2, <2>1 DEF IInv, TypeOK, ReadOK
<1>3. CASE task.alive /\ task.ioprio \div ClassUnit # 0
  <2>1. pc' = "done" /\ io_priority' = task.ioprio /\ task.ioprio # 0
    BY <1>1, <1>3, IoPriosAreLegal DEF IoprioGet, Return
  <2>2. QED
    BY <1>1, <2>1, IoPriosAreLegal DEF IInv, TypeOK, ReadOK, EffectiveValue
<1>4. CASE task.alive /\ task.ioprio \div ClassUnit = 0
  <2>1. pc' = "sched_getscheduler" /\ io_priority' = io_priority /\ task.ioprio = 0
    BY <1>1, <1>4, IoPriosAreLegal DEF IoprioGet
  <2>2. QED
    BY <1>1, <2>1 DEF IInv, TypeOK, ReadOK
<1>5. QED
  BY <1>2, <1>3, <1>4

LEMMA ReadSchedulerHolds ==
  ASSUME IInv, ReadScheduler
  PROVE  IInv'
BY DEF IInv, TypeOK, ReadOK, ReadScheduler, SchedGetscheduler, TaskStates

LEMMA ReadNiceHolds ==
  ASSUME IInv, ReadNice
  PROVE  IInv'
<1>1. Getpriority \in -20 .. 19
  <2>1. task.nice \in Nices
    BY DEF IInv, TypeOK, TaskStates
  <2>2. Getpriority = task.nice \/ Getpriority = -1
    BY DEF Getpriority
  <2>3. task.nice \in -20 .. 19
    BY <2>1
  <2>4. -1 \in -20 .. 19
    OBVIOUS
  <2>5. QED
    BY <2>2, <2>3, <2>4
<1>2. /\ pc' = "done"
      /\ io_priority' = FromSched(scheduler, Getpriority)
      /\ UNCHANGED <<task, changed, scheduler>>
  BY <1>1, FromSchedIsLegal DEF ReadNice, Return
<1>3. TypeOK' /\ Legal(io_priority')
  BY <1>1, <1>2, FromSchedIsLegal DEF IInv, TypeOK
<1>4. ReadOK'
  <2> SUFFICES ASSUME ~changed, task.alive, ~task.reset_on_fork
               PROVE  io_priority' = EffectiveValue
    BY <1>2 DEF ReadOK, EffectiveValue, EffectiveClass, EffectiveData
  <2>1. task.ioprio = 0 /\ scheduler = SchedGetscheduler /\ Getpriority = task.nice
    BY DEF IInv, ReadOK, ReadNice, Getpriority
  <2>2. QED
    BY <1>2, <2>1, FromSchedIsEffective DEF IInv
<1>5. QED
  BY <1>3, <1>4 DEF IInv, Legal

(* After a change nothing is claimed of the task but its type.             *)
LEMMA ChangesHold ==
  ASSUME IInv, NEW new \in TaskStates, Changes(new)
  PROVE  IInv'
BY DEF IInv, TypeOK, ReadOK, Legal, Changes

LEMMA StepHolds == IInv /\ [Next]_vars => IInv'
<1> SUFFICES ASSUME IInv, [Next]_vars PROVE IInv'
  OBVIOUS
<1>1. task \in TaskStates
  BY DEF IInv, TypeOK
<1>2. CASE Exit
  <2>1. [task EXCEPT !.alive = FALSE] \in TaskStates
    BY <1>1 DEF TaskStates
  <2>2. QED
    BY <1>2, <2>1, ChangesHold DEF Exit
<1>3. CASE SetScheduler
  <2>1. PICK policy \in Policies, reset \in BOOLEAN :
          Changes([task EXCEPT !.policy = policy, !.reset_on_fork = reset])
    BY <1>3 DEF SetScheduler
  <2>2. [task EXCEPT !.policy = policy, !.reset_on_fork = reset] \in TaskStates
    BY <1>1 DEF TaskStates
  <2>3. QED
    BY <2>1, <2>2, ChangesHold
<1>4. CASE Renice
  <2>1. PICK nice \in Nices : Changes([task EXCEPT !.nice = nice])
    BY <1>4 DEF Renice
  <2>2. [task EXCEPT !.nice = nice] \in TaskStates
    BY <1>1 DEF TaskStates
  <2>3. QED
    BY <2>1, <2>2, ChangesHold
<1>5. CASE SetIoPrio
  <2>1. PICK class \in 0 .. 3, data \in Levels :
          /\ class = 0 => data = 0
          /\ Changes([task EXCEPT !.ioprio = IOPRIO_PRIO_VALUE(class, data)])
    BY <1>5 DEF SetIoPrio
  <2>2. IOPRIO_PRIO_VALUE(class, data) \in IoPrios
    BY <2>1 DEF IoPrios
  <2>3. [task EXCEPT !.ioprio = IOPRIO_PRIO_VALUE(class, data)] \in TaskStates
    BY <1>1, <2>2 DEF TaskStates
  <2>4. QED
    BY <2>1, <2>3, ChangesHold
<1>6. CASE UNCHANGED vars
  BY <1>6 DEF vars, IInv, TypeOK, ReadOK, Legal, SchedGetscheduler, EffectiveValue,
              EffectiveClass, EffectiveData
<1>7. QED
  BY <1>2, <1>3, <1>4, <1>5, <1>6, IoprioGetHolds, ReadSchedulerHolds,
     ReadNiceHolds DEF Next

LEMMA Inductive == Spec => []IInv
BY InitHolds, StepHolds, PTL DEF Spec

(* An error of one of the calls never stays in a row.                      *)
THEOREM TypeCorrect == Spec => []TypeOK
<1>1. IInv => TypeOK
  BY DEF IInv
<1>2. QED
  BY <1>1, Inductive, PTL

(* For all nice values and levels and whatever the task does between the   *)
(* calls, the column shows a priority there is (util.cpp:45-86).           *)
THEOREM AlwaysLegal == Spec => []ShownIsLegal
<1>1. IInv => ShownIsLegal
  <2> SUFFICES ASSUME IInv, pc = "done"
               PROVE  LET shown == ConvertIoPrioToStr(io_priority) IN
                      \/ shown = [class |-> "-", data |-> 0]
                      \/ shown.class \in {"rt", "be", "id"} /\ shown.data \in 0 .. 7
    BY DEF ShownIsLegal
  <2>1. CASE io_priority = 0
    BY <2>1 DEF ConvertIoPrioToStr
  <2>2. CASE Legal(io_priority)
    <3>1. PICK class \in 1 .. 3, data \in 0 .. 7 :
            io_priority = IOPRIO_PRIO_VALUE(class, data)
      BY <2>2 DEF Legal
    <3>2. io_priority \div ClassUnit = class /\ io_priority % ClassUnit = data
      BY <3>1, ClassAndData
    <3>3. QED
      BY <3>2 DEF ConvertIoPrioToStr
  <2>3. QED
    BY <2>1, <2>2 DEF IInv
<1>2. QED
  BY <1>1, Inductive, PTL

(* A task that stays as it is and whose policy no flag hides is shown with *)
(* the priority the kernel does its I/O at.                                *)
THEOREM ShowsEffective == Spec => []ShownIsEffective
<1>1. IInv => ShownIsEffective
  <2> SUFFICES ASSUME IInv, pc = "done", ~changed, task.alive, ~task.reset_on_fork
               PROVE  ConvertIoPrioToStr(io_priority) = Effective
    BY DEF ShownIsEffective
  <2>1. io_priority = EffectiveValue
    BY DEF IInv, ReadOK
  <2>2. CASE task.ioprio # 0
    BY <2>1, <2>2 DEF EffectiveValue, Effective
  <2>3. CASE task.ioprio = 0
    <3>1. EffectiveClass \in 1 .. 3
      BY DEF EffectiveClass
    <3>2. EffectiveData \in 0 .. 7
      BY NiceData DEF EffectiveData, IInv, TypeOK, TaskStates
    <3>3. /\ io_priority \div ClassUnit = EffectiveClass
          /\ io_priority % ClassUnit = EffectiveData
      BY <2>1, <2>3, <3>1, <3>2, ClassAndData DEF EffectiveValue
    <3>4. QED
      BY <2>3, <3>1, <3>3 DEF ConvertIoPrioToStr, Effective
  <2>4. QED
    BY <2>2, <2>3
<1>2. QED
  BY <1>1, Inductive, PTL
=============================================================================
