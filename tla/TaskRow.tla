------------------------------ MODULE TaskRow ------------------------------
(***************************************************************************)
(* How one row is made: handle_every_task_io_info asks for a priority,     *)
(* which is IoPriority's, then for the statistics, for a user's name and   *)
(* twice for a command line, and between any two of these the task may     *)
(* exec, change its user, exit, or leave its id to another one.            *)
(*                                                                         *)
(* The machine is external.  Tasks that have the id one after the other    *)
(* are numbered.  A text is its lead ("/", "./", "../" or nothing), the    *)
(* rest, and whether a newline ends it; it is as long as its field at most.*)
(***************************************************************************)
EXTENDS Naturals, Sequences

CONSTANTS
  Words,     \* what a text may say
  Images,    \* what a task may run: argv, a sequence of texts, and comm, a text
  Uids,
  Known,     \* the users passwd has a name for
  MaxTasks,  \* bound on the tasks that have the id one after the other
  MaxBytes   \* bound on a task's counter

Texts == [lead : {"", "/", "./", "../"}, rest : Words, newline : BOOLEAN]

Empty == [lead |-> "", rest |-> "", newline |-> FALSE]

ASSUME RowAssumption ==
  /\ "" \in Words
  /\ Images \subseteq [argv : Seq(Texts), comm : Texts]
  /\ \A image \in Images : image.comm # Empty
  /\ "root" \in Uids /\ Known \subseteq Uids
  /\ MaxTasks \in Nat /\ MaxBytes \in Nat

VARIABLES
  task,   \* the last task that had the id, and whether it still has
  pc,
  row,    \* the TaskIoInfo
  asked,  \* history: the task that the statistics are of, 0 if of none
  moved   \* history: what others did since the call began

vars == <<task, pc, row, asked, moved>>

Tasks ==
  [nr : 0 .. MaxTasks, alive : BOOLEAN, uid : Uids, image : Images,
   bytes : 0 .. MaxBytes]

Holder == IF task.alive THEN task.nr ELSE 0

-----------------------------------------------------------------------------
(* The machine *)

Moves(what, new) ==
  /\ task' = new
  /\ moved' = moved \cup {what}
  /\ UNCHANGED <<pc, row, asked>>

Exit == task.alive /\ Moves("exit", [task EXCEPT !.alive = FALSE])

(* A zombie has its id and its name, but no command line any more.         *)
BecomeZombie ==
  /\ task.alive
  /\ [task.image EXCEPT !.argv = <<>>] \in Images
  /\ Moves("zombie", [task EXCEPT !.image.argv = <<>>])

Born ==
  /\ ~task.alive
  /\ task.nr < MaxTasks
  /\ \E image \in Images, uid \in Uids :
       Moves("born", [nr |-> task.nr + 1, alive |-> TRUE, uid |-> uid,
                      image |-> image, bytes |-> 0])

Exec ==
  /\ task.alive
  /\ \E image \in Images : Moves("exec", [task EXCEPT !.image = image])

SetUid ==
  /\ task.alive
  /\ \E uid \in Uids : Moves("setuid", [task EXCEPT !.uid = uid])

ReadDisk ==
  /\ task.alive /\ task.bytes < MaxBytes
  /\ Moves("read", [task EXCEPT !.bytes = @ + 1])

-----------------------------------------------------------------------------
(* handle_every_task_io_info *)

UserName(uid) == IF uid \in Known THEN uid ELSE "<unknown>"

Init ==
  /\ task \in Tasks
  /\ task.nr = IF task.alive THEN 1 ELSE 0
  /\ pc = "query"
  /\ row = [bytes |-> 0, user_id |-> "root", user_name |-> "", short |-> Empty,
            full |-> Empty, is_updated |-> FALSE]
  /\ asked = 0
  /\ moved = {}

Query ==
  /\ pc = "query"
  /\ task.alive
  /\ pc' = "user_name"
  /\ row' = [row EXCEPT !.bytes = task.bytes, !.user_id = task.uid]
  /\ asked' = task.nr
  /\ UNCHANGED <<task, moved>>

(* Variant: the result of the query is not looked at.                      *)
QueryFails_GoesOn ==
  /\ pc = "query"
  /\ pc' = "user_name"
  /\ UNCHANGED <<task, row, asked, moved>>

(* A query may fail for a task that is there, too.                         *)
QueryFails ==
  /\ pc = "query"
  /\ pc' = "done"
  /\ UNCHANGED <<task, row, asked, moved>>

(* Variant: the user of whoever has the id now.                            *)
GetUserName_AsksAgain ==
  /\ pc = "user_name"
  /\ pc' = "short_cmdline"
  /\ row' = [row EXCEPT !.user_name = UserName(task.uid)]
  /\ UNCHANGED <<task, asked, moved>>

GetUserName ==
  /\ pc = "user_name"
  /\ pc' = "short_cmdline"
  /\ row' = [row EXCEPT !.user_name = UserName(row.user_id)]
  /\ UNCHANGED <<task, asked, moved>>

-----------------------------------------------------------------------------
(* get_task_cmdline: once for the short text, once for the full one *)

(* The field holds text, and the last one completes the row.               *)
Copied(is_short, text) ==
  /\ pc' = IF is_short THEN "full_cmdline" ELSE "done"
  /\ row' = IF is_short THEN [row EXCEPT !.short = text]
            ELSE [row EXCEPT !.full = text, !.is_updated = TRUE]

(* Variant: only absolute paths are cut.                                   *)
Shortened_OnlyAbsolute(text) ==
  IF text.lead = "/" /\ text.rest # "" THEN [text EXCEPT !.lead = ""] ELSE text

(* "/x", "./x" and "../x" become "x".                                      *)
Shortened(text) ==
  IF text.lead # "" /\ text.rest # "" THEN [text EXCEPT !.lead = ""] ELSE text

(* The first line of a file of the task, as a C string; nothing if it does *)
(* not open or is empty.                                                   *)
FirstLine(line) == IF task.alive THEN line ELSE Empty

(* What /proc/<id>/cmdline is as a C string.                               *)
Argv0 == IF task.image.argv = <<>> THEN Empty ELSE Head(task.image.argv)

ReadCmdline ==
  \E is_short \in BOOLEAN :
    /\ pc = IF is_short THEN "short_cmdline" ELSE "full_cmdline"
    /\ IF FirstLine(Argv0) # Empty
       THEN Copied(is_short, IF is_short THEN Shortened(Argv0) ELSE Argv0)
       ELSE /\ pc' = IF is_short THEN "short_status" ELSE "full_status"
            /\ UNCHANGED row
    /\ UNCHANGED <<task, asked, moved>>

(* Variant: no second source for the name.                                 *)
ReadStatus_NotTried ==
  \E is_short \in BOOLEAN :
    /\ pc = IF is_short THEN "short_status" ELSE "full_status"
    /\ Copied(is_short, Empty)
    /\ UNCHANGED <<task, asked, moved>>

(* "Name:", a tab, comm and a newline, which stays.                        *)
ReadStatus ==
  \E is_short \in BOOLEAN :
    /\ pc = IF is_short THEN "short_status" ELSE "full_status"
    /\ Copied(is_short, FirstLine(task.image.comm))
    /\ UNCHANGED <<task, asked, moved>>

Next ==
  \/ Query
  \/ QueryFails
  \/ GetUserName
  \/ ReadCmdline
  \/ ReadStatus
  \/ Exit
  \/ BecomeZombie
  \/ Born
  \/ Exec
  \/ SetUid
  \/ ReadDisk

Spec == Init /\ [][Next]_vars

-----------------------------------------------------------------------------
(* Properties *)

AfterQuery ==
  {"user_name", "short_cmdline", "short_status", "full_cmdline", "full_status"}

RowType ==
  [bytes : 0 .. MaxBytes, user_id : Uids, user_name : {"", "<unknown>"} \cup Known,
   short : Texts, full : Texts, is_updated : BOOLEAN]

(* Types; and only a row that is complete is marked as updated, and only   *)
(* if someone answered for it.                                             *)
TypeOK ==
  /\ task \in Tasks
  /\ pc \in AfterQuery \cup {"query", "done"}
  /\ row \in RowType
  /\ row.user_name \in {"", UserName(row.user_id)}
  /\ asked \in 0 .. MaxTasks
  /\ moved \subseteq {"exit", "zombie", "born", "exec", "setuid", "read"}
  /\ row.is_updated <=> pc = "done" /\ asked # 0

Handling == INSTANCE TaskHandling WITH
  holder <- Holder, bytes <- task.bytes, handled <- pc # "query",
  row <- [of |-> asked, bytes |-> row.bytes,
          is_updated |-> row.is_updated \/ pc \in AfterQuery]

(* IoMonitor takes all of this for one step: the row has the counters of   *)
(* one task, read in one moment, and is finished if and only if there was  *)
(* an answer, whatever happens between the calls (io_monitor.cpp:58-114).  *)
ImplementsHandling == Handling!HandlingSpec

Finished == pc = "done" /\ row.is_updated

(* A task that does not exit meanwhile has a name in its line, even if it  *)
(* has no command line, or execs or becomes a zombie between two reads     *)
(* (util.cpp:175-187).                                                     *)
LivingTaskHasName ==
  (Finished /\ moved \cap {"exit", "born"} = {}) =>
    row.short # Empty /\ row.full # Empty

(* The row of a task that does nothing but I/O meanwhile describes it: its *)
(* user, how it was called or else its name, and the same without the lead *)
(* (util.cpp:154-189, 296-303).                                            *)
SteadyRow ==
  (Finished /\ moved \subseteq {"read"}) =>
    /\ row.user_name = UserName(task.uid)
    /\ row.full = IF Argv0 = Empty THEN task.image.comm ELSE Argv0
    /\ Argv0 = Empty => row.short = row.full
    /\ Argv0 # Empty =>
         /\ row.short.rest = row.full.rest
         /\ row.short.lead = "" \/ row.short.rest = ""

(* common.h:31-32 calls this field the complete command line: it has every *)
(* word of it.                                                             *)
FullCmdlineIsComplete ==
  (Finished /\ moved = {} /\ task.image.argv # <<>>) =>
    task.image.argv = <<row.full>>
=============================================================================
