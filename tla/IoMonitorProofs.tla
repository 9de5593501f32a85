--------------------------- MODULE IoMonitorProofs ---------------------------
(***************************************************************************)
(* Proofs about IoMonitor for every set of ids, every bound and every      *)
(* choice of pauses: IInv is inductive, the safety properties follow from  *)
(* it, and the loop implements TaskReport.                                 *)
(***************************************************************************)
EXTENDS IoMonitorInv, Induction, TLAPS

USE ProcFsAssumption, IoMonitorAssumption

-----------------------------------------------------------------------------
(* The machine *)

(* What one step of the machine leaves alone: it invents no lasting task,  *)
(* and a lasting task keeps its place and never loses bytes.               *)
LEMMA MachineStep ==
  ASSUME ProcTypeOK, ProcNext
  PROVE  /\ ProcTypeOK'
         /\ Steady' \subseteq Steady
         /\ seen \subseteq seen'
         /\ \A t \in Steady' :
              /\ tgid'[t] = tgid[t]
              /\ since'[t] = since[t]
              /\ bytes[t] <= bytes'[t]
<1> DEFINE Goal ==
      /\ ProcTypeOK'
      /\ Steady' \subseteq Steady
      /\ seen \subseteq seen'
      /\ \A t \in Steady' :
           /\ tgid'[t] = tgid[t]
           /\ since'[t] = since[t]
           /\ bytes[t] <= bytes'[t]
<1>1. PICK i \in Ids : \/ Fork(i)
                       \/ \E p \in Ids : Clone(p, i)
                       \/ Exit(i)
                       \/ ReadDisk(i)
  BY DEF ProcNext
<1>2. ASSUME NEW p \in Ids, Born(i, p), p = i \/ p \in Processes
      PROVE  Goal
  BY <1>2 DEF Born, MayBeBorn, ProcTypeOK, LiveIds, Steady, Processes, LeadersAlive
<1>3. CASE Exit(i)
  BY <1>3 DEF Exit, ProcTypeOK, LiveIds, Steady, Processes, ThreadsOf, LeadersAlive, Restrict
<1>4. CASE ReadDisk(i)
  BY <1>4 DEF ReadDisk, ProcTypeOK, LiveIds, Steady, Processes, LeadersAlive
<1>5. QED
  BY <1>1, <1>2, <1>3, <1>4 DEF Fork, Clone

LEMMA MarkStep ==
  ASSUME ProcTypeOK, Mark
  PROVE  /\ ProcTypeOK'
         /\ seen' = LiveIds
         /\ Steady' = LiveIds
BY DEF Mark, ProcTypeOK, LiveIds, Steady, Processes, LeadersAlive

-----------------------------------------------------------------------------
(* Rows and the table *)

(* An answer fills in the counter, and a rate if enough time has passed.   *)
LEMMA AnsweredRow ==
  ASSUME NEW info \in Row, NEW total \in 0 .. MaxBytes,
         info.io_real_read_period = 0,
         NEW row, row = Answered(info, total)
  PROVE  /\ row \in Row
         /\ row.is_updated
         /\ row.is_pid = info.is_pid
         /\ row.io_real_read_b = total
         /\ row.io_real_read_period > 0 =>
              collect_tm_ns - origin_collect_timestamp_ns > MinPeriod
<1>1. ULL_VALUE_DIFF(total, info.io_real_read_b) \in 0 .. MaxBytes
  BY DEF ULL_VALUE_DIFF, Row
<1> DEFINE period ==
      IF collect_tm_ns - origin_collect_timestamp_ns > MinPeriod
      THEN ULL_VALUE_DIFF(total, info.io_real_read_b) ELSE 0
<1>2. row = [is_pid |-> info.is_pid, io_real_read_b |-> total,
             io_real_read_period |-> period, is_updated |-> TRUE]
  BY DEF Answered, Row
<1>3. period \in 0 .. MaxBytes
  BY <1>1
<1>4. period > 0 => collect_tm_ns - origin_collect_timestamp_ns > MinPeriod
  OBVIOUS
<1>5. QED
  BY <1>2, <1>3, <1>4 DEF Row

(* A fresh row is either unanswered or carries the task's own counter.     *)
LEMMA HandledRow ==
  ASSUME TypeOK, NEW t \in Ids, NEW b \in BOOLEAN, NEW info \in HandleTask(t, b)
  PROVE  /\ info \in Row
         /\ info.is_pid = b
         /\ ~Faults /\ t \in LiveIds => info.is_updated
         /\ ~info.is_updated => info.io_real_read_period = 0
         /\ info.is_updated => /\ t \in LiveIds
                              /\ info.io_real_read_b = bytes[t]
         /\ info.io_real_read_period > 0 =>
              collect_tm_ns - origin_collect_timestamp_ns > MinPeriod
<1>1. /\ NewTaskIoInfo(b) \in Row
      /\ NewTaskIoInfo(b).is_pid = b
      /\ NewTaskIoInfo(b).io_real_read_period = 0
      /\ NewTaskIoInfo(b).is_updated = FALSE
  BY DEF NewTaskIoInfo, Row
<1>2. bytes[t] \in 0 .. MaxBytes
  BY DEF TypeOK, ProcTypeOK
<1>3. CASE t \in LiveIds /\ info = Answered(NewTaskIoInfo(b), bytes[t])
  BY <1>1, <1>2, <1>3, AnsweredRow
<1>4. CASE (Faults \/ t \notin LiveIds) /\ info = NewTaskIoInfo(b)
  BY <1>1, <1>4
<1>5. QED
  BY <1>3, <1>4 DEF HandleTask

-----------------------------------------------------------------------------
(* The total of the process rows *)

(* What is counted in a table, and what a new row adds to it.              *)
LEMMA CountedType ==
  ASSUME NEW D, IsFiniteSet(D), NEW table \in [D -> Row]
  PROVE  /\ Counted(table) \subseteq D
         /\ IsFiniteSet(Counted(table))
         /\ \A k \in D : Periods(table)[k] = table[k].io_real_read_period
         /\ \A k \in D : Periods(table)[k] \in Nat
         /\ CountedTotal(table) \in Nat
<1>1. Counted(table) \subseteq D
  BY DEF Counted
<1>2. IsFiniteSet(Counted(table))
  BY <1>1, FS_Subset
<1>3. \A k \in D : Periods(table)[k] = table[k].io_real_read_period
  BY DEF Periods
<1>4. \A k \in D : Periods(table)[k] \in Nat
  BY <1>3, ProcFsAssumption DEF Row
<1>5. \A k \in Counted(table) : Periods(table)[k] \in Nat
  BY <1>1, <1>4
<1>6. CountedTotal(table) \in Nat
  BY <1>2, <1>5, SumType DEF CountedTotal
<1>7. QED
  BY <1>1, <1>2, <1>3, <1>4, <1>6

(* Tables that agree on what is counted count the same.                    *)
LEMMA CountedAgree ==
  ASSUME NEW D, IsFiniteSet(D), NEW table \in [D -> Row],
         NEW E, IsFiniteSet(E), NEW other \in [E -> Row],
         Counted(other) = Counted(table),
         \A k \in Counted(table) : other[k] = table[k]
  PROVE  CountedTotal(other) = CountedTotal(table)
<1>1. \A k \in Counted(table) : k \in D /\ k \in E
  BY CountedType
<1>2. \A k \in Counted(table) : Periods(other)[k] = Periods(table)[k]
  BY <1>1, CountedType
<1>3. IsFiniteSet(Counted(table))
  BY CountedType
<1>4. SumFunctionOnSet(Periods(other), Counted(table)) =
        SumFunctionOnSet(Periods(table), Counted(table))
  BY <1>2, <1>3, SumOfSame
<1>5. QED
  BY <1>4 DEF CountedTotal

LEMMA CountedPut ==
  ASSUME NEW D, IsFiniteSet(D), NEW table \in [D -> Row], NEW t, NEW info \in Row
  PROVE  CountedTotal(Emplace(table, t, info)) =
           CountedTotal(table) +
             (IF t \notin D /\ info.is_pid /\ info.is_updated
              THEN info.io_real_read_period ELSE 0)
<1> DEFINE next == Emplace(table, t, info)
<1>1. CountedTotal(table) \in Nat
  BY CountedType
<1>2. CASE t \in D
  BY <1>1, <1>2 DEF Emplace
<1>3. CASE t \notin D
  <2>1. IsFiniteSet(D \cup {t})
    BY FS_AddElement
  <2>2. /\ next \in [D \cup {t} -> Row]
        /\ next[t] = info
        /\ \A k \in D : next[k] = table[k]
    BY <1>3 DEF Emplace
  <2> HIDE DEF next
  <2>3. \A k \in Counted(table) : k \in D /\ k # t
    BY <1>3, CountedType
  <2>4. CASE info.is_pid /\ info.is_updated
    <3>1. Counted(next) = Counted(table) \cup {t}
      BY <1>3, <2>2, <2>4 DEF Counted
    <3>2. \A k \in D \cup {t} : /\ Periods(next)[k] = next[k].io_real_read_period
                               /\ Periods(next)[k] \in Nat
      BY <2>1, <2>2, CountedType
    <3>3. IsFiniteSet(Counted(table)) /\ t \notin Counted(table)
      BY <2>3, CountedType
    <3>4. \A k \in Counted(table) \cup {t} : Periods(next)[k] \in Nat
      BY <2>3, <3>2
    <3>5. SumFunctionOnSet(Periods(next), Counted(table) \cup {t}) =
            Periods(next)[t] + SumFunctionOnSet(Periods(next), Counted(table))
      BY <3>3, <3>4, SumOfOneMore
    <3>6. \A k \in Counted(table) : Periods(next)[k] = Periods(table)[k]
      BY <2>2, <2>3, <3>2, CountedType
    <3>7. SumFunctionOnSet(Periods(next), Counted(table)) =
            SumFunctionOnSet(Periods(table), Counted(table))
      BY <3>3, <3>6, SumOfSame
    <3>8. CountedTotal(next) = info.io_real_read_period + CountedTotal(table)
      BY <2>2, <3>1, <3>2, <3>5, <3>7 DEF CountedTotal
    <3>9. info.io_real_read_period \in Nat
      BY ProcFsAssumption DEF Row
    <3>10. QED
      BY <1>1, <1>3, <2>4, <3>8, <3>9 DEF next
  <2>5. CASE ~ (info.is_pid /\ info.is_updated)
    <3>1. Counted(next) = Counted(table)
      BY <1>3, <2>2, <2>5 DEF Counted
    <3>2. CountedTotal(next) = CountedTotal(table)
      BY <2>1, <2>2, <2>3, <3>1, CountedAgree
    <3>3. QED
      BY <1>1, <2>5, <3>2 DEF next
  <2>6. QED
    BY <2>4, <2>5
<1>4. QED
  BY <1>2, <1>3

(* Nothing is counted in a table nobody has been put into this round.      *)
LEMMA CountedNone ==
  ASSUME NEW table, \A t \in DOMAIN table : ~table[t].is_updated
  PROVE  CountedTotal(table) = 0
<1>1. Counted(table) = {}
  BY DEF Counted
<1>2. QED
  BY <1>1, SumOfNothing DEF CountedTotal

-----------------------------------------------------------------------------
(* The initial states *)

LEMMA InitIInv == Init => IInv
<1> SUFFICES ASSUME Init PROVE IInv
  OBVIOUS
<1> USE DEF Init, EmptyFunction
<1>1. TypeOK
  <2>1. ProcTypeOK
    BY DEF ProcInit, ProcTypeOK, Steady, LiveIds
  <2>2. QED
    BY <2>1 DEF TypeOK
<1>2. ListingOK
  BY DEF ListingOK, Collecting
<1>3. TableOK
  BY DEF TableOK, Collecting
<1>4. LeadersFirst /\ NoneForgotten /\ ClockOK
  BY DEF LeadersFirst, NoneForgotten, ClockOK, Collecting
<1>5. HeaderOK
  BY DEF HeaderOK
<1>6. QED
  BY <1>1, <1>2, <1>3, <1>4, <1>5 DEF IInv

-----------------------------------------------------------------------------
(* Steps of the machine while the loop stands still *)

LEMMA MachineIInv ==
  ASSUME IInv, ProcNext, UNCHANGED loopVars
  PROVE  IInv'
<1> USE DEF loopVars, collectVars, listVars, tableVars
<1>1. /\ ProcTypeOK'
      /\ Steady' \subseteq Steady
      /\ seen \subseteq seen'
      /\ \A t \in Steady' :
           /\ tgid'[t] = tgid[t]
           /\ since'[t] = since[t]
           /\ bytes[t] <= bytes'[t]
  BY MachineStep DEF IInv, TypeOK
<1>2. TypeOK'
  BY <1>1 DEF IInv, TypeOK
<1>3. ListingOK'
  BY <1>1 DEF IInv, ListingOK, Collecting
<1>4. TableOK'
  <2>1. ASSUME NEW t \in DOMAIN task_io_stats_table, GoodRow(t)
        PROVE  GoodRow(t)'
    <3>1. t \in Ids /\ task_io_stats_table[t] \in Row
      BY DEF IInv, TypeOK
    <3>2. t \in Steady' => bytes[t] \in Nat /\ bytes'[t] \in Nat
      BY <1>1, <3>1 DEF IInv, TypeOK, ProcTypeOK
    <3>3. QED
      BY <1>1, <2>1, <3>1, <3>2 DEF GoodRow, Row
  <2>2. QED
    BY <2>1 DEF IInv, TableOK, Collecting
<1>5. LeadersFirst'
  BY <1>1 DEF IInv, LeadersFirst
<1>6. NoneForgotten'
  BY <1>1 DEF IInv, NoneForgotten
<1>7. ClockOK'
  BY DEF IInv, ClockOK, Collecting
<1>8. HeaderOK'
  BY DEF IInv, HeaderOK, ListedOnce
<1>9. QED
  BY <1>2, <1>3, <1>4, <1>5, <1>6, <1>7, <1>8 DEF IInv

-----------------------------------------------------------------------------
(* Steps of the loop *)

LEMMA BeginCollectIInv ==
  ASSUME IInv, BeginCollect
  PROVE  IInv'
<1> USE DEF BeginCollect, EmptyFunction
<1>1. ProcTypeOK'
  BY MarkStep DEF IInv, TypeOK
<1> DEFINE table == task_io_stats_table
<1>2. /\ DOMAIN table' = DOMAIN table
      /\ \A t \in DOMAIN table : table'[t] = [table[t] EXCEPT !.is_updated = FALSE]
  BY DEF SetTaskStateOverdue
<1>3. \A t \in DOMAIN table : table'[t] \in Row /\ ~table'[t].is_updated
  <2>1. ASSUME NEW row \in Row
        PROVE  /\ [row EXCEPT !.is_updated = FALSE] \in Row
               /\ ~[row EXCEPT !.is_updated = FALSE].is_updated
    BY DEF Row
  <2>2. \A t \in DOMAIN table : table[t] \in Row
    BY DEF IInv, TypeOK
  <2>3. QED
    BY <1>2, <2>1, <2>2
<1>4. TypeOK'
  <2>1. table' \in [DOMAIN table' -> Row]
    BY <1>2, <1>3 DEF SetTaskStateOverdue
  <2>2. QED
    BY <1>1, <1>2, <2>1 DEF IInv, TypeOK
<1>5. ListingOK'
  BY DEF ListingOK
<1>6. TableOK'
  BY <1>2, <1>3 DEF IInv, TableOK, Collecting
<1>7. LeadersFirst' /\ NoneForgotten'
  BY DEF IInv, TypeOK, LeadersFirst, NoneForgotten
<1>8. ClockOK'
  BY DEF IInv, ClockOK, Collecting
<1>9. HeaderOK'
  BY DEF HeaderOK
<1>10. QED
  BY <1>4, <1>5, <1>6, <1>7, <1>8, <1>9 DEF IInv

LEMMA ReadProcDirIInv ==
  ASSUME IInv, NEW p \in Ids, ReadProcDir(p)
  PROVE  IInv'
<1> USE DEF ReadProcDir, procVars, collectVars, tableVars
<1>1. TypeOK'
  BY DEF IInv, TypeOK, ProcTypeOK, LeadersAlive, LiveIds, Processes, Steady
<1>2. ListingOK'
  BY DEF IInv, ListingOK, Collecting, Steady, Processes
<1>3. TableOK'
  BY DEF IInv, TableOK, Collecting
<1>4. LeadersFirst' /\ NoneForgotten'
  BY DEF IInv, LeadersFirst, NoneForgotten, Steady
<1>5. ClockOK'
  BY DEF IInv, ClockOK, Collecting
<1>6. HeaderOK'
  BY DEF IInv, HeaderOK
<1>7. QED
  BY <1>1, <1>2, <1>3, <1>4, <1>5, <1>6 DEF IInv

LEMMA ReadTaskDirIInv ==
  ASSUME IInv, ReadTaskDir
  PROVE  IInv'
<1> USE DEF procVars, collectVars, tableVars
<1>1. PICK threads \in {ThreadsOf(dir)} \cup (IF Faults THEN {{}} ELSE {}) :
        task_ids' = [p \in DOMAIN task_ids \cup {dir} |->
                       IF p = dir THEN threads ELSE task_ids[p]]
  BY DEF ReadTaskDir
<1>2. /\ pc = "open" /\ pc' = "scan" /\ dir \in Ids /\ dir' = NoTask
      /\ UNCHANGED <<procVars, clock, collectVars, todo, tids, tableVars, drawn, pause>>
  BY DEF ReadTaskDir, IInv, TypeOK
<1>3. threads \subseteq ThreadsOf(dir) /\ (~Faults => threads = ThreadsOf(dir))
  OBVIOUS
<1>4. TypeOK'
  <2>1. ProcTypeOK'
    BY <1>2 DEF IInv, TypeOK, ProcTypeOK, LeadersAlive, LiveIds, Processes, Steady
  <2>2. threads \in SUBSET Ids
    BY <1>3 DEF ThreadsOf
  <2>3. /\ DOMAIN task_ids' \subseteq Ids
        /\ task_ids' \in [DOMAIN task_ids' -> SUBSET Ids]
    BY <1>1, <1>2, <2>2 DEF IInv, TypeOK
  <2>4. QED
    BY <1>1, <1>2, <2>1, <2>3 DEF IInv, TypeOK
<1>5. ListingOK'
  <2>1. ASSUME NEW p \in DOMAIN task_ids'
        PROVE  /\ p \in Steady => tgid[p] = p
               /\ \A t \in task_ids'[p] \cap Steady : tgid[t] = p
    BY <1>1, <1>2, <1>3 DEF IInv, ListingOK, Collecting, ThreadsOf
  <2>2. ASSUME ~Faults, NEW t \in Steady, tgid[t] \in DOMAIN task_ids'
        PROVE  t \in task_ids'[tgid[t]]
    <3>1. t \in Ids
      BY DEF IInv, TypeOK, ProcTypeOK, LiveIds
    <3>2. CASE tgid[t] = dir
      BY <1>1, <1>3, <2>2, <3>1, <3>2 DEF ThreadsOf
    <3>3. CASE tgid[t] # dir
      BY <1>1, <1>2, <2>2, <3>3 DEF IInv, ListingOK, Collecting
    <3>4. QED
      BY <3>2, <3>3
  <2>3. QED
    BY <1>2, <2>1, <2>2 DEF ListingOK, Steady
<1>6. TableOK'
  BY <1>2 DEF IInv, TableOK, Collecting
<1>7. LeadersFirst' /\ NoneForgotten'
  BY <1>2 DEF IInv, LeadersFirst, NoneForgotten, Steady
<1>8. ClockOK'
  BY <1>2 DEF IInv, ClockOK, Collecting
<1>9. HeaderOK'
  BY <1>2 DEF IInv, HeaderOK
<1>10. QED
  BY <1>4, <1>5, <1>6, <1>7, <1>8, <1>9 DEF IInv

LEMMA EndScanIInv ==
  ASSUME IInv, EndScan
  PROVE  IInv'
<1> USE DEF EndScan, procVars, collectVars, tableVars
<1>1. TypeOK'
  BY DEF IInv, TypeOK, ProcTypeOK, LeadersAlive, LiveIds, Processes, Steady
<1>2. ListingOK'
  BY DEF IInv, ListingOK, Collecting, Steady
<1>3. TableOK'
  BY DEF IInv, TableOK, Collecting
<1>4. LeadersFirst'
  BY DEF IInv, LeadersFirst, Steady
<1>5. NoneForgotten'
  <2>1. ASSUME ~Faults, NEW t \in Steady
        PROVE  tgid[t] \in todo'
    <3>1. tgid[t] \in Processes
      BY DEF IInv, TypeOK, ProcTypeOK, LeadersAlive
    <3>2. QED
      BY <2>1, <3>1
  <2>2. DOMAIN task_io_stats_table = drawn
    BY DEF IInv, TableOK
  <2>3. QED
    BY <2>1, <2>2 DEF NoneForgotten, Steady
<1>6. ClockOK'
  BY DEF IInv, ClockOK, Collecting
<1>7. HeaderOK'
  <2>1. /\ DOMAIN task_io_stats_table = drawn
        /\ \A t \in drawn : ~task_io_stats_table[t].is_updated
        /\ tids = {}
    BY DEF IInv, TypeOK, TableOK, Collecting
  <2>2. CountedTotal(task_io_stats_table) = 0
    BY <2>1, CountedNone
  <2>3. QED
    BY <2>1, <2>2 DEF IInv, HeaderOK
<1>8. QED
  BY <1>1, <1>2, <1>3, <1>4, <1>5, <1>6, <1>7 DEF IInv

(* What putting task t's row into the table keeps, whoever it is put for.  *)
LEMMA PutRow ==
  ASSUME IInv, pc = "tasks", NEW t \in Ids, NEW b \in BOOLEAN,
         NEW info \in HandleTask(t, b),
         task_io_stats_table' = Emplace(task_io_stats_table, t, info),
         UNCHANGED <<procVars, pause, drawn>>,
         t \in Steady /\ t \notin DOMAIN task_io_stats_table => (b <=> tgid[t] = t)
  PROVE  /\ DOMAIN task_io_stats_table' = DOMAIN task_io_stats_table \cup {t}
         /\ task_io_stats_table' \in [DOMAIN task_io_stats_table' -> Row]
         /\ \A k \in DOMAIN task_io_stats_table :
              task_io_stats_table'[k] = task_io_stats_table[k]
         /\ \A k \in DOMAIN task_io_stats_table' :
              task_io_stats_table'[k].is_updated => GoodRow(k)'
         /\ ~Faults =>
              \A k \in (Steady \cap DOMAIN task_io_stats_table') \ drawn :
                task_io_stats_table'[k].is_updated
<1> DEFINE table == task_io_stats_table
<1> USE DEF procVars
<1>1. /\ info \in Row
      /\ info.is_pid = b
      /\ ~Faults /\ t \in LiveIds => info.is_updated
      /\ info.is_updated => t \in LiveIds /\ info.io_real_read_b = bytes[t]
      /\ info.io_real_read_period > 0 =>
           collect_tm_ns - origin_collect_timestamp_ns > MinPeriod
  BY HandledRow DEF IInv
<1>2. /\ DOMAIN table' = DOMAIN table \cup {t}
      /\ t \notin DOMAIN table => table'[t] = info
      /\ \A k \in DOMAIN table : table'[k] = table[k]
  BY DEF Emplace
<1>3. table' \in [DOMAIN table' -> Row]
  BY <1>1 DEF Emplace, IInv, TypeOK
<1>4. Steady \subseteq LiveIds /\ LiveIds \subseteq seen
  BY DEF IInv, TypeOK, ProcTypeOK
<1>5. ASSUME NEW k \in DOMAIN table', table'[k].is_updated
      PROVE  GoodRow(k)'
  <2>1. CASE k \in DOMAIN table
    <3>1. table'[k] = table[k] /\ GoodRow(k)
      BY <1>2, <1>5, <2>1 DEF IInv, TableOK
    <3>2. QED
      BY <3>1 DEF GoodRow, Steady
  <2>2. CASE k \notin DOMAIN table
    <3>1. k = t /\ table'[k] = info
      BY <1>2, <2>2
    <3>2. collect_tm_ns = pause /\ origin_collect_timestamp_ns = 0 /\ pause \in Nat
      BY DEF IInv, TypeOK, ClockOK, Collecting
    <3>3. t \in Steady => bytes[t] \in Nat /\ since[t] <= bytes[t]
      BY DEF IInv, TypeOK, ProcTypeOK
    <3>4. QED
      BY <1>1, <1>4, <1>5, <2>2, <3>1, <3>2, <3>3 DEF GoodRow, Steady
  <2>3. QED
    BY <2>1, <2>2
<1>6. ASSUME ~Faults, NEW k \in (Steady \cap DOMAIN table') \ drawn
      PROVE  table'[k].is_updated
  BY <1>1, <1>2, <1>4, <1>6 DEF IInv, NoneForgotten
<1>7. QED
  BY <1>2, <1>3, <1>5, <1>6

LEMMA HandleProcessIInv ==
  ASSUME IInv, NEW p \in Ids, HandleProcess(p)
  PROVE  IInv'
<1> DEFINE table == task_io_stats_table
<1>1. /\ pc = "tasks" /\ pc' = "tasks" /\ tids = {} /\ p \in todo
      /\ todo' = todo \ {p} /\ tids' = task_ids[p]
      /\ UNCHANGED <<procVars, clock, collectVars, task_ids, dir, drawn, pause>>
  BY DEF HandleProcess
<1>2. PICK info \in HandleTask(p, TRUE) :
        /\ table' = Emplace(table, p, info)
        /\ curr_disk_read_b_s' = AddToTotal(curr_disk_read_b_s, info)
  BY DEF HandleProcess
<1>3. p \in DOMAIN task_ids /\ task_ids[p] \subseteq Ids
  BY <1>1 DEF IInv, TypeOK
<1>4. p \in Steady => tgid[p] = p
  BY <1>1, <1>3 DEF IInv, ListingOK, Collecting
<1>5. /\ DOMAIN table' = DOMAIN table \cup {p}
      /\ table' \in [DOMAIN table' -> Row]
      /\ \A k \in DOMAIN table : table'[k] = table[k]
      /\ \A k \in DOMAIN table' : table'[k].is_updated => GoodRow(k)'
      /\ ~Faults =>
           \A k \in (Steady \cap DOMAIN table') \ drawn : table'[k].is_updated
  BY <1>1, <1>2, <1>4, PutRow
<1>6. info \in Row
  BY HandledRow DEF IInv
<1> HIDE DEF table
<1> USE DEF procVars, collectVars
<1>7. TypeOK'
  <2>1. ProcTypeOK'
    BY <1>1 DEF IInv, TypeOK, ProcTypeOK, LeadersAlive, LiveIds, Processes, Steady
  <2>2. curr_disk_read_b_s' \in Nat
    BY <1>2, <1>6 DEF IInv, TypeOK, AddToTotal, Row
  <2>3. DOMAIN table' \subseteq Ids
    BY <1>5 DEF IInv, TypeOK, table
  <2>4. QED
    BY <1>1, <1>3, <1>5, <2>1, <2>2, <2>3 DEF IInv, TypeOK, table
<1>8. ListingOK'
  BY <1>1 DEF IInv, ListingOK, Collecting, Steady
<1>9. TableOK'
  BY <1>1, <1>5 DEF IInv, TableOK, Collecting, table
<1>10. LeadersFirst'
  <2>1. \A t \in task_ids[p] \cap Steady : tgid[t] = p
    BY <1>1, <1>3 DEF IInv, ListingOK, Collecting
  <2>2. QED
    BY <1>1, <1>5, <2>1 DEF LeadersFirst, Steady, table
<1>11. NoneForgotten'
  <2>1. ASSUME ~Faults, NEW t \in Steady, tgid[t] = p
        PROVE  t \in tids'
    BY <1>1, <1>3, <2>1 DEF IInv, ListingOK, Collecting
  <2>2. QED
    BY <1>1, <1>5, <2>1 DEF IInv, NoneForgotten, Steady, table
<1>12. ClockOK'
  BY <1>1 DEF IInv, ClockOK, Collecting
<1>13. HeaderOK'
  <2>1. /\ table \in [DOMAIN table -> Row] /\ IsFiniteSet(DOMAIN table)
        /\ info.is_pid /\ info.io_real_read_period \in Nat
        /\ ~info.is_updated => info.io_real_read_period = 0
    <3>1. table \in [DOMAIN table -> Row] /\ IsFiniteSet(DOMAIN table)
      BY FS_Subset DEF IInv, TypeOK, table
    <3>2. info.is_pid /\ (~info.is_updated => info.io_real_read_period = 0)
      BY HandledRow DEF IInv
    <3>3. info.io_real_read_period \in Nat
      BY <1>6 DEF Row
    <3>4. QED
      BY <3>1, <3>2, <3>3
  <2>2. /\ CountedTotal(table) \in Nat /\ curr_disk_read_b_s \in Nat
        /\ CountedTotal(table) <= curr_disk_read_b_s
    BY <1>1, <2>1, CountedType DEF IInv, TypeOK, HeaderOK, table
  <2>3. /\ CountedTotal(table') =
             CountedTotal(table) + (IF p \in DOMAIN table THEN 0 ELSE info.io_real_read_period)
        /\ curr_disk_read_b_s' = curr_disk_read_b_s + info.io_real_read_period
    BY <1>2, <1>6, <2>1, <2>2, CountedPut DEF AddToTotal
  <2>4. CountedTotal(table') <= curr_disk_read_b_s'
    BY <2>1, <2>2, <2>3
  <2>5. ASSUME drawn = {}, ListedOnce
        PROVE  /\ todo' \cap (DOMAIN table' \cup tids') = {}
               /\ CountedTotal(table') = curr_disk_read_b_s'
    <3>1. /\ todo \cap DOMAIN table = {} /\ todo \subseteq DOMAIN task_ids
          /\ CountedTotal(table) = curr_disk_read_b_s
      BY <1>1, <2>5 DEF IInv, TypeOK, HeaderOK, table
    <3>2. todo' \cap tids' = {}
      BY <1>1, <1>3, <2>5, <3>1 DEF ListedOnce
    <3>3. todo' \cap DOMAIN table' = {} /\ p \notin DOMAIN table
      BY <1>1, <1>5, <3>1
    <3>4. QED
      BY <2>3, <3>1, <3>2, <3>3
  <2>6. QED
    BY <1>1, <2>4, <2>5 DEF HeaderOK, ListedOnce, table
<1>14. QED
  BY <1>7, <1>8, <1>9, <1>10, <1>11, <1>12, <1>13 DEF IInv

LEMMA HandleThreadIInv ==
  ASSUME IInv, NEW t \in Ids, HandleThread(t)
  PROVE  IInv'
<1> DEFINE table == task_io_stats_table
<1>1. /\ pc = "tasks" /\ pc' = "tasks" /\ t \in tids /\ tids' = tids \ {t}
      /\ UNCHANGED <<procVars, clock, collectVars, task_ids, dir, todo,
                     curr_disk_read_b_s, drawn, pause>>
  BY DEF HandleThread
<1>2. PICK info \in HandleTask(t, FALSE) : table' = Emplace(table, t, info)
  BY DEF HandleThread
<1>3. t \in Steady /\ t \notin DOMAIN table => tgid[t] # t
  BY <1>1 DEF IInv, LeadersFirst
<1>4. /\ DOMAIN table' = DOMAIN table \cup {t}
      /\ table' \in [DOMAIN table' -> Row]
      /\ \A k \in DOMAIN table : table'[k] = table[k]
      /\ \A k \in DOMAIN table' : table'[k].is_updated => GoodRow(k)'
      /\ ~Faults =>
           \A k \in (Steady \cap DOMAIN table') \ drawn : table'[k].is_updated
  BY <1>1, <1>2, <1>3, PutRow
<1> HIDE DEF table
<1> USE DEF procVars, collectVars
<1>5. TypeOK'
  <2>1. ProcTypeOK'
    BY <1>1 DEF IInv, TypeOK, ProcTypeOK, LeadersAlive, LiveIds, Processes, Steady
  <2>2. DOMAIN table' \subseteq Ids
    BY <1>4 DEF IInv, TypeOK, table
  <2>3. QED
    BY <1>1, <1>4, <2>1, <2>2 DEF IInv, TypeOK, table
<1>6. ListingOK'
  BY <1>1 DEF IInv, ListingOK, Collecting, Steady
<1>7. TableOK'
  BY <1>1, <1>4 DEF IInv, TableOK, Collecting, table
<1>8. LeadersFirst'
  BY <1>1, <1>4 DEF IInv, LeadersFirst, Steady, table
<1>9. NoneForgotten'
  BY <1>1, <1>4 DEF IInv, NoneForgotten, Steady, table
<1>10. ClockOK'
  BY <1>1 DEF IInv, ClockOK, Collecting
<1>11. HeaderOK'
  <2>1. /\ table \in [DOMAIN table -> Row] /\ IsFiniteSet(DOMAIN table)
        /\ info \in Row /\ ~info.is_pid
    BY HandledRow, FS_Subset DEF IInv, TypeOK, table
  <2>2. CountedTotal(table) \in Nat
    BY <2>1, CountedType
  <2>3. CountedTotal(table') = CountedTotal(table)
    BY <1>2, <2>1, <2>2, CountedPut
  <2>4. QED
    BY <1>1, <1>4, <2>3 DEF IInv, HeaderOK, ListedOnce, table
<1>12. QED
  BY <1>5, <1>6, <1>7, <1>8, <1>9, <1>10, <1>11 DEF IInv

LEMMA EndCollectIInv ==
  ASSUME IInv, EndCollect
  PROVE  IInv'
<1> DEFINE table == task_io_stats_table
<1>1. /\ pc = "tasks" /\ pc' = "draw" /\ todo = {} /\ tids = {}
      /\ origin_collect_timestamp_ns' = collect_tm_ns
      /\ UNCHANGED <<procVars, clock, collect_tm_ns, listVars,
                     curr_disk_read_b_s, drawn, pause>>
  BY DEF EndCollect
<1>2. /\ DOMAIN table' = {t \in DOMAIN table : table[t].is_updated}
      /\ \A t \in DOMAIN table' : table'[t] = table[t]
      /\ table' \in [DOMAIN table' -> Row]
  BY DEF EndCollect, RemoveOverdueTask, Restrict, IInv, TypeOK
<1> HIDE DEF table
<1> USE DEF procVars, listVars
<1>3. TypeOK'
  <2>1. ProcTypeOK'
    BY <1>1 DEF IInv, TypeOK, ProcTypeOK, LeadersAlive, LiveIds, Processes, Steady
  <2>2. DOMAIN table' \subseteq Ids
    BY <1>2 DEF IInv, TypeOK, table
  <2>3. QED
    BY <1>1, <1>2, <2>1, <2>2 DEF IInv, TypeOK, table
<1>4. ListingOK' /\ LeadersFirst'
  BY <1>1 DEF IInv, ListingOK, LeadersFirst, Collecting
<1>5. TableOK'
  <2>1. ASSUME NEW t \in DOMAIN table'
        PROVE  t \notin drawn /\ table'[t].is_updated /\ GoodRow(t)'
    <3>1. t \in DOMAIN table /\ table'[t] = table[t] /\ table[t].is_updated
      BY <1>2
    <3>2. t \notin drawn /\ GoodRow(t)
      BY <1>1, <3>1 DEF IInv, TableOK, Collecting, table
    <3>3. QED
      BY <1>1, <3>1, <3>2 DEF GoodRow, Steady, table
  <2>2. QED
    BY <1>1, <2>1 DEF TableOK, Collecting, table
<1>6. NoneForgotten'
  BY <1>1, <1>2 DEF IInv, NoneForgotten, Steady, table
<1>7. ClockOK'
  BY <1>1 DEF IInv, ClockOK, Collecting
<1>8. HeaderOK'
  <2>1. /\ table \in [DOMAIN table -> Row] /\ IsFiniteSet(DOMAIN table)
        /\ IsFiniteSet(DOMAIN table')
    BY <1>2, FS_Subset DEF IInv, TypeOK, table
  <2>2. Counted(table') = Counted(table) /\ \A k \in Counted(table) : table'[k] = table[k]
    BY <1>2 DEF Counted
  <2>3. CountedTotal(table') = CountedTotal(table)
    BY <1>2, <2>1, <2>2, CountedAgree
  <2>4. QED
    BY <1>1, <2>3 DEF IInv, HeaderOK, ListedOnce, table
<1>9. QED
  BY <1>3, <1>4, <1>5, <1>6, <1>7, <1>8 DEF IInv

LEMMA DrawIInv ==
  ASSUME IInv, Draw
  PROVE  IInv'
<1> USE DEF Draw, procVars, collectVars, listVars, tableVars
<1>1. TypeOK'
  BY DEF IInv, TypeOK, ProcTypeOK, LeadersAlive, LiveIds, Processes, Steady
<1>2. ListingOK' /\ TableOK'
  BY DEF IInv, ListingOK, TableOK, Collecting
<1>3. LeadersFirst' /\ NoneForgotten' /\ ClockOK'
  BY DEF IInv, TypeOK, LeadersFirst, NoneForgotten, ClockOK, Collecting
<1>4. HeaderOK'
  BY DEF HeaderOK
<1>5. QED
  BY <1>1, <1>2, <1>3, <1>4 DEF IInv

LEMMA SleepIInv ==
  ASSUME IInv, Sleep
  PROVE  IInv'
<1> USE DEF procVars, listVars, tableVars
<1>1. PICK d \in Pauses :
        /\ clock' = (clock - origin_collect_timestamp_ns) + d
        /\ pause' = d
  BY DEF Sleep
<1>2. /\ pc = "sleep" /\ pc' = "begin"
      /\ collect_tm_ns' = collect_tm_ns - origin_collect_timestamp_ns
      /\ origin_collect_timestamp_ns' = 0
      /\ UNCHANGED <<procVars, listVars, tableVars, drawn>>
  BY DEF Sleep
<1>3. clock' = d /\ collect_tm_ns' = 0
  BY <1>1, <1>2 DEF IInv, TypeOK, ClockOK
<1>4. TypeOK'
  BY <1>1, <1>2, <1>3
  DEF IInv, TypeOK, ProcTypeOK, LeadersAlive, LiveIds, Processes, Steady
<1>5. ListingOK' /\ TableOK'
  BY <1>2 DEF IInv, ListingOK, TableOK, Collecting
<1>6. LeadersFirst' /\ NoneForgotten'
  BY <1>2 DEF IInv, TypeOK, LeadersFirst, NoneForgotten
<1>7. ClockOK'
  BY <1>1, <1>2, <1>3 DEF ClockOK, Collecting
<1>8. HeaderOK'
  BY <1>2 DEF HeaderOK
<1>9. QED
  BY <1>4, <1>5, <1>6, <1>7, <1>8 DEF IInv

LEMMA NextIInv == IInv /\ [Next]_vars => IInv'
<1> SUFFICES ASSUME IInv, [Next]_vars PROVE IInv'
  OBVIOUS
<1>1. CASE UNCHANGED vars
  BY <1>1
  DEF vars, procVars, collectVars, listVars, tableVars, IInv, TypeOK, ProcTypeOK,
      LeadersAlive, LiveIds, Processes, Steady, ListingOK, TableOK, GoodRow,
      Collecting, LeadersFirst, NoneForgotten, ClockOK,
      HeaderOK, ListedOnce
<1>2. CASE ProcNext /\ UNCHANGED loopVars
  BY <1>2, MachineIInv
<1>3. CASE Run
  BY <1>3, BeginCollectIInv, ReadProcDirIInv, ReadTaskDirIInv, EndScanIInv,
     HandleProcessIInv, HandleThreadIInv, EndCollectIInv, DrawIInv, SleepIInv
  DEF Run
<1>4. QED
  BY <1>1, <1>2, <1>3 DEF Next

-----------------------------------------------------------------------------
(* The theorems *)

(* Whatever the machine does and however often queries fail, the table and *)
(* the lists of IoMonitor (io_monitor.cpp) mean what IInv says.            *)
THEOREM Inductive == Spec => []IInv
BY InitIInv, NextIInv, PTL DEF Spec

(* Types, and the work lists being used up whenever a collection ends      *)
(* (the loops of io_monitor.cpp:39-55).                                    *)
THEOREM TypeCorrect == Spec => []TypeOK
<1>1. IInv => TypeOK
  BY DEF IInv
<1>2. QED
  BY <1>1, Inductive, PTL

(* No frame shows a row of an earlier collection (io_monitor.cpp:25, 33).  *)
THEOREM RowsAreFresh == Spec => []FreshRows
<1>1. IInv => FreshRows
  BY DEF IInv, TableOK, GoodRow, FreshRows
<1>2. QED
  BY <1>1, Inductive, PTL

(* The process row wins over its leader's thread row (io_monitor.cpp:44,   *)
(* 53), for every interleaving with exits and reused ids.                  *)
THEOREM RowsKeepKind == Spec => []RowKind
<1>1. IInv => RowKind
  BY DEF IInv, TableOK, GoodRow, RowKind
<1>2. QED
  BY <1>1, Inductive, PTL

(* The filter of io_monitor.cpp:81 does what its comment wants.            *)
THEOREM RatesNeedTime == Spec => []RateNeedsTime
<1>1. IInv => RateNeedsTime
  BY DEF IInv, TableOK, GoodRow, RateNeedsTime
<1>2. QED
  BY <1>1, Inductive, PTL

(* In a frame every row was counted, so its process rows are the counted  *)
(* ones.                                                                   *)
LEMMA AllCounted ==
  ASSUME IInv, pc = "draw"
  PROVE  ProcessRowsTotal(task_io_stats_table) = CountedTotal(task_io_stats_table)
<1>1. {t \in DOMAIN task_io_stats_table : task_io_stats_table[t].is_pid} =
        Counted(task_io_stats_table)
  BY DEF IInv, TableOK, Counted
<1>2. QED
  BY <1>1 DEF ProcessRowsTotal, CountedTotal

(* The header total (io_monitor.cpp:45) covers the process rows, however   *)
(* many tasks there are and whichever ids are reused.                      *)
THEOREM HeaderCovers == Spec => []HeaderCoversRows
<1>1. IInv => HeaderCoversRows
  BY AllCounted DEF IInv, HeaderOK, HeaderCoversRows
<1>2. QED
  BY <1>1, Inductive, PTL

(* After an empty frame, and with no id listed twice, they are equal.      *)
THEOREM HeaderMatches == Spec => []HeaderMatchesRows
<1>1. IInv => HeaderMatchesRows
  BY AllCounted DEF IInv, HeaderOK, HeaderMatchesRows
<1>2. QED
  BY <1>1, Inductive, PTL

-----------------------------------------------------------------------------
(* The loop implements TaskReport *)

LEMMA InitReports == Init => Report!ReportInit
BY DEF Init, ProcInit, LiveIds, Processes, LeadersAlive, Report!ReportInit,
       Report!ProcInit, Report!LiveIds, Report!Processes, Report!LeadersAlive

(* A step of the machine is one for the abstract collector, too.           *)
LEMMA MachineReports ==
  ASSUME ProcNext, UNCHANGED loopVars
  PROVE  Report!ReportNext
<1>1. ASSUME NEW t \in Ids, NEW p \in Ids
      PROVE  /\ Fork(t) => Report!Fork(t)
             /\ Clone(p, t) => Report!Clone(p, t)
  BY DEF Fork, Clone, Born, MayBeBorn, Processes,
         Report!Fork, Report!Clone, Report!Born, Report!MayBeBorn, Report!Processes
<1>2. ASSUME NEW t \in Ids
      PROVE  /\ Exit(t) => Report!Exit(t)
             /\ ReadDisk(t) => Report!ReadDisk(t)
  BY DEF Exit, ReadDisk, LiveIds, ThreadsOf, Steady, Restrict, Report!Restrict,
         Report!Exit, Report!ReadDisk, Report!LiveIds, Report!ThreadsOf, Report!Steady
<1>3. Report!ProcNext
  BY <1>1, <1>2 DEF ProcNext, Report!ProcNext
<1>4. QED
  BY <1>3 DEF loopVars, Report!ReportNext

(* Beginning a collection is a look, drawing is its report, and what the   *)
(* collector does in between the abstract one does not see.                *)
LEMMA RunReports ==
  ASSUME IInv, Run
  PROVE  Report!ReportNext \/ UNCHANGED Report!reportVars
<1> USE DEF procVars, tableVars, listVars, collectVars
<1>1. CASE BeginCollect
  BY <1>1 DEF BeginCollect, Mark, LiveIds, Report!ReportNext, Report!Look,
              Report!Mark, Report!LiveIds
<1>2. CASE Draw
  <2> DEFINE found == DOMAIN task_io_stats_table \cup (drawn \cap Steady)
  <2>1. pc = "draw" /\ pc' = "sleep" /\ drawn' = DOMAIN task_io_stats_table
    BY <1>2 DEF Draw
  <2>2. found \subseteq seen
    BY <2>1 DEF IInv, TypeOK, ProcTypeOK, TableOK, GoodRow
  <2>3. Faults \/ Steady \subseteq found
    BY <2>1 DEF IInv, NoneForgotten
  <2>4. drawn' = found \ drawn
    BY <2>1 DEF IInv, TableOK
  <2>5. Report!Publish
    BY <1>2, <2>1, <2>2, <2>3, <2>4 DEF Draw, Steady, Report!Publish, Report!Steady,
       Report!procVars
  <2>6. QED
    BY <2>5 DEF Report!ReportNext
<1>3. CASE EndScan \/ ReadTaskDir \/ EndCollect \/ Sleep
  BY <1>3 DEF EndScan, ReadTaskDir, EndCollect, Sleep, Report!reportVars
<1>4. CASE \E t \in Ids : ReadProcDir(t) \/ HandleProcess(t) \/ HandleThread(t)
  BY <1>4 DEF ReadProcDir, HandleProcess, HandleThread, Report!reportVars
<1>5. QED
  BY <1>1, <1>2, <1>3, <1>4 DEF Run

(* IoMonitor implements TaskReport, with any number of tasks: no frame     *)
(* shows a task that was not there, none shows a task of the frame before, *)
(* and nothing that lives on is missing from two frames in a row.          *)
THEOREM Implementation == Spec => ImplementsReport
<1>1. IInv /\ [Next]_vars => [Report!ReportNext]_Report!reportVars
  <2> SUFFICES ASSUME IInv, Next \/ UNCHANGED vars
               PROVE  Report!ReportNext \/ UNCHANGED Report!reportVars
    OBVIOUS
  <2>1. CASE Run
    BY <2>1, RunReports
  <2>2. CASE ProcNext /\ UNCHANGED loopVars
    BY <2>2, MachineReports
  <2>3. CASE UNCHANGED vars
    BY <2>3 DEF vars, procVars, Report!reportVars
  <2>4. QED
    BY <2>1, <2>2, <2>3 DEF Next
<1>2. QED
  BY <1>1, InitReports, Inductive, PTL DEF Spec, ImplementsReport, Report!ReportSpec
=============================================================================
