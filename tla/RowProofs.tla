----------------------------- MODULE RowProofs -----------------------------
(***************************************************************************)
(* Proofs about TaskRow, for any images, users and bounds: a finished row  *)
(* has a name if its task has lasted, describes the task if it has stayed  *)
(* as it was, and the whole call is one step of TaskHandling.              *)
(***************************************************************************)
EXTENDS TaskRow, TLAPS

-----------------------------------------------------------------------------
(* The inductive invariant: what is so between the calls.                  *)

Lasting == moved \cap {"exit", "born"} = {}
Steady == moved \subseteq {"read"}

HasUserName ==
  pc \in {"short_cmdline", "short_status", "full_cmdline", "full_status"} \/ Finished
HasShort == pc \in {"full_cmdline", "full_status"} \/ Finished

PhaseOK ==
  /\ task.alive => task.nr # 0
  /\ pc = "query" => asked = 0 /\ row.user_name = ""
  /\ pc \in AfterQuery => asked # 0
  /\ asked = 0 => row.bytes = 0
  /\ HasUserName => row.user_name = UserName(row.user_id)

(* Who answered the query and has not exited since has had a name to read. *)
LastingOK ==
  Lasting =>
    /\ asked # 0 => task.alive
    /\ HasShort => row.short # Empty
    /\ Finished => row.full # Empty

(* The file that was found empty is so still.                              *)
SteadyOK ==
  Steady =>
    /\ asked # 0 => row.user_id = task.uid
    /\ pc \in {"short_status", "full_status"} => Argv0 = Empty
    /\ HasShort =>
         /\ Argv0 = Empty => row.short = task.image.comm
         /\ Argv0 # Empty =>
              /\ row.short.rest = Argv0.rest
              /\ row.short.lead = "" \/ row.short.rest = ""
    /\ Finished => row.full = IF Argv0 = Empty THEN task.image.comm ELSE Argv0

IInv == TypeOK /\ PhaseOK /\ LastingOK /\ SteadyOK

-----------------------------------------------------------------------------
(* Constants and texts                                                     *)

(* What the assumption says of the bounds and the users.                   *)
LEMMA Bounds ==
  MaxTasks \in Nat /\ MaxBytes \in Nat /\ "root" \in Uids /\ Known \subseteq Uids
BY RowAssumption

(* What is read from a task is text.                                       *)
LEMMA ReadsText ==
  ASSUME task \in Tasks
  PROVE  /\ Argv0 \in Texts
         /\ task.image.comm \in Texts /\ task.image.comm # Empty
         /\ Empty \in Texts
<1>1. Empty \in Texts
  BY RowAssumption DEF Empty, Texts
<1>2. /\ task.image \in Images
      /\ task.image \in [argv : Seq(Texts), comm : Texts]
      /\ task.image.comm # Empty
  BY RowAssumption DEF Tasks
<1>3. ASSUME task.image.argv # <<>> PROVE Head(task.image.argv) \in Texts
  BY <1>2, <1>3
<1> QED
  BY <1>1, <1>2, <1>3 DEF Argv0

(* Cutting the lead leaves a text that is not empty, with the same rest.   *)
LEMMA ShortenedText ==
  ASSUME NEW text \in Texts
  PROVE  /\ Shortened(text) \in Texts
         /\ text # Empty => Shortened(text) # Empty
         /\ Shortened(text).rest = text.rest
         /\ Shortened(text).lead = "" \/ Shortened(text).rest = ""
BY DEF Shortened, Texts, Empty

-----------------------------------------------------------------------------
(* The invariant holds                                                     *)

LEMMA InitIInv == Init => IInv
<1> SUFFICES ASSUME Init PROVE IInv
  OBVIOUS
<1>1. TypeOK
  <2>1. Empty \in Texts /\ task \in Tasks
    BY ReadsText DEF Init
  <2>2. row \in RowType
    <3>1. 0 \in 0 .. MaxBytes /\ "root" \in Uids
      BY Bounds
    <3>2. row = [bytes |-> 0, user_id |-> "root", user_name |-> "", short |-> Empty,
                 full |-> Empty, is_updated |-> FALSE]
      BY DEF Init
    <3> QED
      BY <2>1, <3>1, <3>2 DEF RowType
  <2> QED
    <3>1. 0 \in 0 .. MaxTasks
      BY Bounds
    <3>2. ~row.is_updated /\ row.user_name = ""
      BY DEF Init
    <3> QED
      BY <2>1, <2>2, <3>1, <3>2 DEF Init, TypeOK
<1>2. PhaseOK
  <2>1. task.alive => task.nr # 0
    <3>1. task.nr = IF task.alive THEN 1 ELSE 0
      BY DEF Init
    <3> QED
      BY <3>1
  <2> QED
    BY <2>1 DEF Init, PhaseOK, HasUserName, Finished, AfterQuery
<1>3. LastingOK
  BY DEF Init, LastingOK, HasShort, Finished
<1>4. SteadyOK
  BY DEF Init, SteadyOK, HasShort, Finished
<1> QED
  BY <1>1, <1>2, <1>3, <1>4 DEF IInv

(* The query finds a task or leaves everything as it was.                  *)
LEMMA QueryIInv == IInv /\ Query => IInv'
<1> SUFFICES ASSUME IInv, Query PROVE IInv'
  OBVIOUS
<1> USE DEF IInv
<1>1. row' = [row EXCEPT !.bytes = task.bytes, !.user_id = task.uid] /\ row \in RowType
  BY DEF Query, TypeOK
<1>2. TypeOK'
  <2>1. row' \in RowType
    BY <1>1 DEF Query, TypeOK, RowType, Tasks
  <2>2. row'.user_name = ""
    BY <1>1 DEF Query, TypeOK, RowType, Tasks, PhaseOK
  <2>3. ~row'.is_updated
    BY <1>1 DEF Query, TypeOK, RowType
  <2> QED
    BY <2>1, <2>2, <2>3 DEF Query, TypeOK, Tasks, AfterQuery
<1>3. PhaseOK'
  BY DEF Query, PhaseOK, HasUserName, Finished, AfterQuery, TypeOK
<1>4. LastingOK'
  BY DEF Query, LastingOK, HasShort, Finished, Lasting, TypeOK
<1>5. SteadyOK'
  BY <1>1 DEF Query, SteadyOK, HasShort, Finished, Steady, TypeOK, RowType
<1> QED
  BY <1>2, <1>3, <1>4, <1>5

LEMMA QueryFailsIInv == IInv /\ QueryFails => IInv'
<1> SUFFICES ASSUME IInv, QueryFails PROVE IInv'
  OBVIOUS
<1> USE DEF IInv
<1>1. asked' = 0 /\ row' = row /\ ~row.is_updated
  BY DEF QueryFails, PhaseOK, TypeOK
<1>2. TypeOK'
  BY <1>1 DEF QueryFails, TypeOK, UserName
<1>3. PhaseOK'
  BY <1>1 DEF QueryFails, PhaseOK, HasUserName, Finished, AfterQuery
<1>4. LastingOK'
  BY <1>1 DEF QueryFails, LastingOK, HasShort, Finished, Lasting
<1>5. SteadyOK'
  BY <1>1 DEF QueryFails, SteadyOK, HasShort, Finished, Steady
<1> QED
  BY <1>2, <1>3, <1>4, <1>5

LEMMA GetUserNameIInv == IInv /\ GetUserName => IInv'
<1> SUFFICES ASSUME IInv, GetUserName PROVE IInv'
  OBVIOUS
<1> USE DEF IInv
<1>1. /\ row \in RowType
      /\ row' = [row EXCEPT !.user_name = UserName(row.user_id)]
      /\ UserName(row.user_id) \in {"", "<unknown>"} \cup Known
  BY DEF GetUserName, TypeOK, UserName
<1>2. /\ row' \in RowType
      /\ row'.user_id = row.user_id /\ row'.bytes = row.bytes
      /\ row'.user_name = UserName(row'.user_id)
  BY <1>1 DEF RowType
<1>3. ~row'.is_updated
  BY <1>1 DEF RowType, GetUserName, TypeOK
<1>4. TypeOK'
  BY <1>2, <1>3 DEF GetUserName, TypeOK, AfterQuery
<1>5. PhaseOK'
  BY <1>2 DEF GetUserName, PhaseOK, HasUserName, Finished, AfterQuery
<1>6. LastingOK'
  BY <1>3 DEF GetUserName, LastingOK, HasShort, Finished, Lasting
<1>7. SteadyOK'
  BY <1>2, <1>3 DEF GetUserName, SteadyOK, HasShort, Finished, Steady
<1> QED
  BY <1>4, <1>5, <1>6, <1>7

(* A text goes into its field, from either source.                         *)
LEMMA CopiedIInv ==
  ASSUME IInv, NEW is_short \in BOOLEAN, NEW text \in Texts,
         Copied(is_short, text), UNCHANGED <<task, asked, moved>>,
         pc \in IF is_short THEN {"short_cmdline", "short_status"}
                           ELSE {"full_cmdline", "full_status"},
         task.alive => text # Empty,
         (Steady /\ task.alive /\ is_short) =>
           /\ Argv0 = Empty => text = task.image.comm
           /\ Argv0 # Empty =>
                text.rest = Argv0.rest /\ (text.lead = "" \/ text.rest = ""),
         (Steady /\ task.alive /\ ~is_short) =>
           text = IF Argv0 = Empty THEN task.image.comm ELSE Argv0
  PROVE  IInv'
<1> USE DEF IInv
<1>1. row \in RowType /\ asked # 0 /\ pc \in AfterQuery /\ HasUserName
  BY DEF TypeOK, PhaseOK, AfterQuery, HasUserName
<1>2. CASE is_short
  <2>1. row' = [row EXCEPT !.short = text] /\ pc' = "full_cmdline"
    BY <1>2 DEF Copied
  <2>2. /\ row' \in RowType
        /\ row'.user_id = row.user_id /\ row'.user_name = row.user_name
        /\ row'.bytes = row.bytes /\ row'.is_updated = row.is_updated
        /\ row'.short = text
    BY <1>1, <2>1 DEF RowType
  <2>3. ~row'.is_updated
    BY <1>2, <2>2 DEF TypeOK
  <2>4. TypeOK'
    BY <2>1, <2>2, <2>3 DEF TypeOK, AfterQuery, UserName
  <2>5. PhaseOK'
    BY <1>1, <2>1, <2>2 DEF PhaseOK, UserName
  <2>6. LastingOK'
    BY <1>1, <2>1, <2>2, <2>3 DEF LastingOK, Lasting, Finished
  <2>7. SteadyOK'
    BY <1>1, <1>2, <2>1, <2>2, <2>3 DEF SteadyOK, LastingOK, Lasting, Steady, Finished, Argv0
  <2> QED
    BY <2>4, <2>5, <2>6, <2>7
<1>3. CASE ~is_short
  <2>1. row' = [row EXCEPT !.full = text, !.is_updated = TRUE] /\ pc' = "done"
    BY <1>3 DEF Copied
  <2>2. /\ row' \in RowType
        /\ row'.user_id = row.user_id /\ row'.user_name = row.user_name
        /\ row'.bytes = row.bytes /\ row'.short = row.short
        /\ row'.full = text
    BY <1>1, <2>1 DEF RowType
  <2>3. row'.is_updated
    BY <1>1, <2>1 DEF RowType
  <2>4. HasShort
    BY <1>3 DEF HasShort
  <2>5. TypeOK'
    BY <1>1, <2>1, <2>2, <2>3 DEF TypeOK, AfterQuery, UserName
  <2>6. PhaseOK'
    BY <1>1, <2>1, <2>2 DEF PhaseOK, UserName, AfterQuery
  <2>7. LastingOK'
    BY <1>1, <2>2, <2>4 DEF LastingOK, Lasting
  <2>8. SteadyOK'
    BY <1>1, <1>3, <2>1, <2>2, <2>4 DEF SteadyOK, LastingOK, Lasting, Steady, Argv0
  <2> QED
    BY <2>5, <2>6, <2>7, <2>8
<1> QED
  BY <1>2, <1>3

LEMMA ReadCmdlineIInv == IInv /\ ReadCmdline => IInv'
<1> SUFFICES ASSUME IInv, ReadCmdline PROVE IInv'
  OBVIOUS
<1>1. /\ Argv0 \in Texts
      /\ UNCHANGED <<task, asked, moved>>
  BY ReadsText DEF IInv, TypeOK, ReadCmdline
<1>2. PICK is_short \in BOOLEAN :
        /\ pc = IF is_short THEN "short_cmdline" ELSE "full_cmdline"
        /\ IF FirstLine(Argv0) # Empty
           THEN Copied(is_short, IF is_short THEN Shortened(Argv0) ELSE Argv0)
           ELSE /\ pc' = IF is_short THEN "short_status" ELSE "full_status"
                /\ UNCHANGED row
  BY DEF ReadCmdline
<1>3. CASE FirstLine(Argv0) # Empty
  <2> DEFINE text == IF is_short THEN Shortened(Argv0) ELSE Argv0
  <2>1. Argv0 # Empty
    BY <1>3 DEF FirstLine
  <2>2. /\ text \in Texts /\ text # Empty
        /\ is_short => text.rest = Argv0.rest /\ (text.lead = "" \/ text.rest = "")
        /\ ~is_short => text = Argv0
    BY <1>1, <2>1, ShortenedText
  <2>3. Copied(is_short, text)
    BY <1>2, <1>3
  <2>4. pc \in IF is_short THEN {"short_cmdline", "short_status"}
                           ELSE {"full_cmdline", "full_status"}
    BY <1>2
  <2> HIDE DEF text
  <2> QED
    BY <1>1, <2>1, <2>2, <2>3, <2>4, CopiedIInv
<1>4. CASE FirstLine(Argv0) = Empty
  <2>1. /\ pc' = IF is_short THEN "short_status" ELSE "full_status"
        /\ row' = row /\ UNCHANGED <<task, asked, moved>>
    BY <1>1, <1>2, <1>4
  <2>2. task.alive => Argv0 = Empty
    BY <1>4 DEF FirstLine
  <2>3. /\ HasUserName /\ HasUserName' /\ (HasShort <=> HasShort') /\ ~Finished /\ ~Finished'
        /\ asked # 0 /\ ~row.is_updated
    BY <1>2, <2>1 DEF IInv, TypeOK, PhaseOK, HasUserName, HasShort, Finished, AfterQuery
  <2>4. TypeOK'
    BY <2>1, <2>3 DEF IInv, TypeOK, AfterQuery, UserName
  <2>5. PhaseOK'
    BY <2>1, <2>3 DEF IInv, PhaseOK, UserName
  <2>6. LastingOK'
    BY <2>1, <2>3 DEF IInv, LastingOK, Lasting
  <2>7. SteadyOK'
    BY <2>1, <2>2, <2>3 DEF IInv, SteadyOK, LastingOK, Lasting, Steady, Argv0
  <2> QED
    BY <2>4, <2>5, <2>6, <2>7 DEF IInv
<1> QED
  BY <1>3, <1>4

LEMMA ReadStatusIInv == IInv /\ ReadStatus => IInv'
<1> SUFFICES ASSUME IInv, ReadStatus PROVE IInv'
  OBVIOUS
<1>1. /\ task.image.comm \in Texts /\ task.image.comm # Empty /\ Empty \in Texts
      /\ UNCHANGED <<task, asked, moved>>
  BY ReadsText DEF IInv, TypeOK, ReadStatus
<1>2. PICK is_short \in BOOLEAN :
        /\ pc = IF is_short THEN "short_status" ELSE "full_status"
        /\ Copied(is_short, FirstLine(task.image.comm))
  BY DEF ReadStatus
<1> DEFINE text == FirstLine(task.image.comm)
<1>3. text \in Texts /\ (task.alive => text = task.image.comm)
  BY <1>1 DEF FirstLine
<1>4. Copied(is_short, text)
  BY <1>2
<1> HIDE DEF text
<1>5. Steady => Argv0 = Empty
  BY <1>2 DEF IInv, SteadyOK
<1> QED
  BY <1>1, <1>2, <1>3, <1>4, <1>5, CopiedIInv

(* A move of the machine.                                                  *)
LEMMA MovesIInv ==
  ASSUME IInv, NEW what \in {"exit", "zombie", "born", "exec", "setuid", "read"},
         NEW new \in Tasks, Moves(what, new),
         new.alive => new.nr # 0,
         what \notin {"exit", "born"} => (task.alive => new.alive),
         what = "read" => new.uid = task.uid /\ new.image = task.image
  PROVE  IInv'
<1> USE DEF IInv
<1>1. task' = new /\ moved' = moved \cup {what} /\ UNCHANGED <<pc, row, asked>>
  BY DEF Moves
<1>2. TypeOK'
  BY <1>1 DEF TypeOK, UserName
<1>3. PhaseOK'
  BY <1>1 DEF PhaseOK, HasUserName, Finished, UserName
<1>4. LastingOK'
  BY <1>1 DEF LastingOK, Lasting, HasShort, Finished
<1>5. SteadyOK'
  <2> SUFFICES ASSUME Steady' PROVE SteadyOK'
    BY DEF SteadyOK
  <2>1. Steady /\ what = "read"
    BY <1>1 DEF Steady
  <2>2. task'.uid = task.uid /\ task'.image = task.image /\ Argv0' = Argv0
    BY <1>1, <2>1 DEF Argv0
  <2> QED
    BY <1>1, <2>1, <2>2 DEF SteadyOK, HasShort, Finished
<1> QED
  BY <1>2, <1>3, <1>4, <1>5

Machine == Exit \/ BecomeZombie \/ Born \/ Exec \/ SetUid \/ ReadDisk

LEMMA MachineIInv == IInv /\ Machine => IInv'
<1> SUFFICES ASSUME IInv, Machine PROVE IInv'
  OBVIOUS
<1>1. task \in Tasks /\ (task.alive => task.nr # 0)
  BY DEF IInv, TypeOK, PhaseOK
<1>2. CASE Exit
  <2> DEFINE new == [task EXCEPT !.alive = FALSE]
  <2>1. new \in Tasks /\ ~new.alive
    BY <1>1 DEF Tasks
  <2>2. Moves("exit", new)
    BY <1>2 DEF Exit
  <2> HIDE DEF new
  <2> QED
    BY <2>1, <2>2, MovesIInv
<1>3. CASE BecomeZombie
  <2> DEFINE new == [task EXCEPT !.image.argv = <<>>]
  <2>1. /\ task.alive /\ [task.image EXCEPT !.argv = <<>>] \in Images
        /\ Moves("zombie", new)
    BY <1>3 DEF BecomeZombie
  <2>2. new = [task EXCEPT !.image = [task.image EXCEPT !.argv = <<>>]]
    BY <1>1 DEF Tasks
  <2>3. new \in Tasks /\ new.alive /\ new.nr # 0
    BY <1>1, <2>1, <2>2 DEF Tasks
  <2> HIDE DEF new
  <2> QED
    BY <2>1, <2>3, MovesIInv
<1>4. CASE Born
  <2>1. PICK image \in Images, uid \in Uids :
          Moves("born", [nr |-> task.nr + 1, alive |-> TRUE, uid |-> uid,
                         image |-> image, bytes |-> 0])
    BY <1>4 DEF Born
  <2> DEFINE new == [nr |-> task.nr + 1, alive |-> TRUE, uid |-> uid,
                     image |-> image, bytes |-> 0]
  <2>2. task.nr + 1 \in 0 .. MaxTasks /\ task.nr + 1 # 0 /\ 0 \in 0 .. MaxBytes
    BY <1>1, <1>4, Bounds DEF Born, Tasks
  <2>3. new \in Tasks /\ new.nr # 0
    BY <2>2 DEF Tasks
  <2>4. Moves("born", new)
    BY <2>1
  <2> HIDE DEF new
  <2> QED
    BY <2>3, <2>4, MovesIInv
<1>5. CASE Exec
  <2>1. PICK image \in Images : Moves("exec", [task EXCEPT !.image = image])
    BY <1>5 DEF Exec
  <2> DEFINE new == [task EXCEPT !.image = image]
  <2>2. new \in Tasks /\ new.alive = task.alive /\ new.nr = task.nr
    BY <1>1 DEF Tasks
  <2>3. Moves("exec", new)
    BY <2>1
  <2> HIDE DEF new
  <2> QED
    BY <1>1, <2>2, <2>3, MovesIInv
<1>6. CASE SetUid
  <2>1. PICK uid \in Uids : Moves("setuid", [task EXCEPT !.uid = uid])
    BY <1>6 DEF SetUid
  <2> DEFINE new == [task EXCEPT !.uid = uid]
  <2>2. new \in Tasks /\ new.alive = task.alive /\ new.nr = task.nr
    BY <1>1 DEF Tasks
  <2>3. Moves("setuid", new)
    BY <2>1
  <2> HIDE DEF new
  <2> QED
    BY <1>1, <2>2, <2>3, MovesIInv
<1>7. CASE ReadDisk
  <2> DEFINE new == [task EXCEPT !.bytes = @ + 1]
  <2>1. task.bytes + 1 \in 0 .. MaxBytes
    BY <1>1, <1>7, Bounds DEF ReadDisk, Tasks
  <2>2. /\ new \in Tasks /\ new.alive = task.alive /\ new.nr = task.nr
        /\ new.uid = task.uid /\ new.image = task.image
    BY <1>1, <2>1 DEF Tasks
  <2>3. Moves("read", new)
    BY <1>7 DEF ReadDisk
  <2> HIDE DEF new
  <2> QED
    BY <1>1, <2>2, <2>3, MovesIInv
<1> QED
  BY <1>2, <1>3, <1>4, <1>5, <1>6, <1>7 DEF Machine

(* The invariant holds in every reachable state.                           *)
THEOREM Inductive == Spec => []IInv
<1>1. IInv /\ [Next]_vars => IInv'
  <2>1. IInv /\ UNCHANGED vars => IInv'
    BY DEF vars, IInv, TypeOK, PhaseOK, LastingOK, SteadyOK, Lasting, Steady, HasUserName,
           HasShort, Finished, UserName, Argv0
  <2> QED
    BY <2>1, QueryIInv, QueryFailsIInv, GetUserNameIInv, ReadCmdlineIInv, ReadStatusIInv,
       MachineIInv DEF Next, Machine
<1> QED
  BY <1>1, InitIInv, PTL DEF Spec

-----------------------------------------------------------------------------
(* What follows                                                            *)

(* A row is well typed and marked as updated when it is complete, and only *)
(* if somebody answered for it.                                            *)
THEOREM TypeCorrect == Spec => []TypeOK
<1>1. IInv => TypeOK
  BY DEF IInv
<1> QED
  BY <1>1, Inductive, PTL

(* A task that does not exit meanwhile has a name in its line.             *)
THEOREM LivingTasksHaveNames == Spec => []LivingTaskHasName
<1>1. IInv => LivingTaskHasName
  BY DEF IInv, LivingTaskHasName, LastingOK, Lasting, HasShort
<1> QED
  BY <1>1, Inductive, PTL

(* The row of a task that does nothing but I/O meanwhile describes it.     *)
THEOREM SteadyRowsAreRight == Spec => []SteadyRow
<1>1. IInv => SteadyRow
  <2> SUFFICES ASSUME IInv, Finished, moved \subseteq {"read"}
               PROVE  /\ row.user_name = UserName(task.uid)
                      /\ row.full = IF Argv0 = Empty THEN task.image.comm ELSE Argv0
                      /\ Argv0 = Empty => row.short = row.full
                      /\ Argv0 # Empty =>
                           /\ row.short.rest = row.full.rest
                           /\ row.short.lead = "" \/ row.short.rest = ""
    BY DEF SteadyRow
  <2>1. Steady /\ HasShort /\ HasUserName /\ asked # 0
    BY DEF Steady, HasShort, HasUserName, Finished, IInv, TypeOK
  <2> QED
    BY <2>1 DEF IInv, PhaseOK, SteadyOK, UserName
<1> QED
  BY <1>1, Inductive, PTL

(* The whole call is one step of TaskHandling: the query.                  *)
THEOREM Implementation == Spec => ImplementsHandling
<1> DEFINE barRow == [of |-> asked, bytes |-> row.bytes,
                      is_updated |-> row.is_updated \/ pc \in AfterQuery]
<1>1. Init => Handling!HandlingInit
  <2> SUFFICES ASSUME Init PROVE Handling!HandlingInit
    OBVIOUS
  <2>1. task \in Tasks /\ asked = 0 /\ row.bytes = 0 /\ ~row.is_updated /\ pc = "query"
    BY DEF Init
  <2>2. Holder \in Nat /\ task.bytes \in Nat
    BY <2>1, Bounds DEF Holder, Tasks
  <2>3. (row.is_updated \/ pc \in AfterQuery) = FALSE
    BY <2>1 DEF AfterQuery
  <2> QED
    BY <2>1, <2>2, <2>3 DEF Handling!HandlingInit
<1>2. IInv /\ IInv' /\ [Next]_vars =>
        [Handling!Move \/ Handling!Handle]_(Handling!handlingVars)
  <2> SUFFICES ASSUME IInv, IInv', [Next]_vars
               PROVE  [Handling!Move \/ Handling!Handle]_(Handling!handlingVars)
    OBVIOUS
  <2>1. Holder' \in Nat /\ task'.bytes \in Nat
    <3>1. task' \in Tasks
      BY DEF IInv, TypeOK, Tasks
    <3> QED
      BY <3>1, Bounds DEF Holder, Tasks
  <2>2. CASE Query
    <3>1. /\ Holder # 0 /\ Holder = asked' /\ row'.bytes = task.bytes
          /\ pc = "query" /\ pc' \in AfterQuery /\ task' = task
      BY <2>2 DEF Query, Holder, IInv, PhaseOK, TypeOK, RowType, AfterQuery
    <3>2. barRow' = [of |-> Holder, bytes |-> task.bytes, is_updated |-> TRUE]
      BY <3>1
    <3>3. Handling!Handle
      BY <3>1, <3>2 DEF Handling!Handle, Holder, AfterQuery
    <3> QED
      BY <3>3
  <2>3. CASE QueryFails
    <3>1. /\ pc = "query" /\ pc' = "done" /\ UNCHANGED <<task, row, asked>>
          /\ ~row.is_updated
      BY <2>3 DEF QueryFails, IInv, TypeOK
    <3>2. barRow' = barRow
      BY <3>1 DEF AfterQuery
    <3>3. Handling!Handle
      BY <3>1, <3>2 DEF Handling!Handle, Holder
    <3> QED
      BY <3>3
  <2>4. CASE GetUserName \/ ReadCmdline \/ ReadStatus
    <3>1. /\ pc \in AfterQuery /\ UNCHANGED <<task, asked>>
          /\ pc' \in AfterQuery \/ (pc' = "done" /\ row'.is_updated)
          /\ row'.bytes = row.bytes
      BY <2>4 DEF GetUserName, ReadCmdline, ReadStatus, Copied, AfterQuery, IInv, TypeOK, RowType
    <3>2. barRow' = barRow
      BY <3>1
    <3> QED
      BY <3>1, <3>2 DEF Handling!handlingVars, Holder, AfterQuery
  <2>5. CASE Machine
    <3>1. UNCHANGED <<pc, row, asked>>
      BY <2>5 DEF Machine, Exit, BecomeZombie, Born, Exec, SetUid, ReadDisk, Moves
    <3>2. Handling!Move
      BY <2>1, <3>1 DEF Handling!Move
    <3> QED
      BY <3>2
  <2>6. CASE UNCHANGED vars
    BY <2>6 DEF vars, Handling!handlingVars, Holder
  <2> QED
    BY <2>2, <2>3, <2>4, <2>5, <2>6 DEF Next, Machine
<1> QED
  BY <1>1, <1>2, Inductive, PTL DEF Spec, ImplementsHandling, Handling!HandlingSpec
=============================================================================
