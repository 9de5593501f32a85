------------------------------ MODULE TaskList ------------------------------
(***************************************************************************)
(* get_all_task_id and, for every process, get_all_thread_id, as far as    *)
(* IoMonitor does not see it: which names of /proc they take for tasks,    *)
(* and the descriptors they open and close.  closedir closes the directory *)
(* and its descriptor, and then close is called for that descriptor again. *)
(*                                                                         *)
(* The directories stay as they are while they are read here; IoMonitor    *)
(* has the ones that change.                                               *)
(***************************************************************************)
EXTENDS Integers

CONSTANTS
  Entries,  \* what a directory may hold: [type, dot, name, id]
  MaxFd     \* the highest descriptor the process may have

ASSUME TaskListAssumption ==
  /\ MaxFd \in Nat /\ MaxFd >= 3
  /\ \A e \in Entries :
       /\ e.type \in {"DT_DIR", "DT_UNKNOWN", "DT_REG"}
       /\ e.dot \in BOOLEAN  \* RedHat's mark of a hidden thread
       /\ e.name \in {"number", "zero", "word", "digits and more"}

(* The entries that name tasks, as the kernel makes them.                  *)
NamesTask(e) == e.type \in {"DT_DIR", "DT_UNKNOWN"} /\ e.name = "number"

VARIABLES
  list_pc,   \* a step, of "proc" or of "task", as <<step, level>>
  fds,       \* what each descriptor is
  dir_fd,    \* of each level
  unread,    \* what readdir has not come to, of each level
  thread_ids,
  task_ids,
  held       \* history: what /proc holds while it is being read

listVars == <<list_pc, fds, dir_fd, unread, thread_ids, task_ids, held>>

Levels == {"proc", "task"}

(* The socket of NetlinkIoStats has the first descriptor after the standard*)
(* ones.                                                                   *)
Fds == 0 .. MaxFd
AtRest == [fd \in Fds |-> IF fd < 3 THEN "standard" ELSE IF fd = 3 THEN "socket" ELSE "free"]

Free == {fd \in Fds : fds[fd] = "free"}

(* close fails for a descriptor that is not open.                          *)
Closed(fd) == [fds EXCEPT ![fd] = "free"]

ListInit ==
  /\ list_pc = <<"idle", "proc">>
  /\ fds = AtRest
  /\ dir_fd = [level \in Levels |-> -1]
  /\ unread = [level \in Levels |-> {}]
  /\ thread_ids = {}
  /\ task_ids = {}
  /\ held = {}

(* The static list is emptied.                                             *)
BeginList ==
  /\ list_pc = <<"idle", "proc">>
  /\ list_pc' = <<"open", "proc">>
  /\ held' \in SUBSET Entries
  /\ task_ids' = {}
  /\ UNCHANGED <<fds, dir_fd, unread, thread_ids>>

(* The end of a level and of its locals: get_all_thread_id's list goes to  *)
(* its process.                                                            *)
Done(level) ==
  /\ IF level = "proc"
     THEN list_pc' = <<"idle", "proc">> /\ held' = {}
     ELSE list_pc' = <<"read", "proc">> /\ held' = held
  /\ thread_ids' = {}
  /\ dir_fd' = [dir_fd EXCEPT ![level] = -1]

(* The kernel gives out the lowest descriptor.                             *)
Open(level) ==
  /\ list_pc = <<"open", level>>
  /\ \E fd \in Free :
       /\ \A other \in Free : fd <= other
       /\ fds' = [fds EXCEPT ![fd] = level]
       /\ dir_fd' = [dir_fd EXCEPT ![level] = fd]
  /\ list_pc' = <<"fdopendir", level>>
  /\ UNCHANGED <<unread, thread_ids, task_ids, held>>

(* Without descriptors, or because the process is gone.                    *)
OpenFails(level) ==
  /\ list_pc = <<"open", level>>
  /\ Done(level)
  /\ UNCHANGED <<fds, unread, task_ids>>

Fdopendir(level) ==
  /\ list_pc = <<"fdopendir", level>>
  /\ list_pc' = <<"read", level>>
  /\ \E entries \in IF level = "proc" THEN {held} ELSE SUBSET Entries :
       unread' = [unread EXCEPT ![level] = entries]
  /\ UNCHANGED <<fds, dir_fd, thread_ids, task_ids, held>>

(* Variant: the descriptor is left open.                                   *)
FdopendirFails_LeavesOpen(level) ==
  /\ list_pc = <<"fdopendir", level>>
  /\ Done(level)
  /\ UNCHANGED <<fds, unread, task_ids>>

FdopendirFails(level) ==
  /\ list_pc = <<"fdopendir", level>>
  /\ Done(level)
  /\ fds' = Closed(dir_fd[level])
  /\ UNCHANGED <<unread, task_ids>>

(* Variant: a name that begins with digits will do.                        *)
Accepted_AnyDigits(e) == e.type # "DT_REG" /\ e.name \in {"number", "digits and more"}

(* A directory, or what may be one; after the dot, if any, a number that   *)
(* is not 0 and nothing behind it.                                         *)
Accepted(e) == e.type # "DT_REG" /\ e.name = "number"

(* Each process is listed after its threads; a list of threads begins      *)
(* empty.                                                                  *)
ReadEntry(level) ==
  /\ list_pc = <<"read", level>>
  /\ \E e \in unread[level] :
       /\ unread' = [unread EXCEPT ![level] = @ \ {e}]
       /\ IF ~Accepted(e) THEN UNCHANGED <<list_pc, thread_ids, task_ids>>
          ELSE IF level = "proc"
          THEN /\ list_pc' = <<"open", "task">>
               /\ thread_ids' = {}
               /\ task_ids' = task_ids \cup {e.id}
          ELSE /\ thread_ids' = thread_ids \cup {e.id}
               /\ UNCHANGED <<list_pc, task_ids>>
  /\ UNCHANGED <<fds, dir_fd, held>>

Closedir(level) ==
  /\ list_pc = <<"read", level>>
  /\ unread[level] = {}
  /\ list_pc' = <<"close", level>>
  /\ fds' = Closed(dir_fd[level])
  /\ UNCHANGED <<dir_fd, unread, thread_ids, task_ids, held>>

CloseAgain(level) ==
  /\ list_pc = <<"close", level>>
  /\ Done(level)
  /\ fds' = Closed(dir_fd[level])
  /\ UNCHANGED <<unread, task_ids>>

ListStep(level) ==
  \/ Open(level)
  \/ OpenFails(level)
  \/ Fdopendir(level)
  \/ FdopendirFails(level)
  \/ ReadEntry(level)
  \/ Closedir(level)
  \/ CloseAgain(level)

-----------------------------------------------------------------------------
(* Properties *)

(* A directory that is being read is open under its descriptor; the second *)
(* close of a descriptor finds it closed and closes nobody else's; the     *)
(* socket is never touched; and when the list is made all is as it was,    *)
(* whatever failed (util.cpp:205-247, 255-293).                            *)
DescriptorsKept ==
  /\ fds[3] = "socket"
  /\ \A level \in Levels :
       /\ list_pc \in {<<"fdopendir", level>>, <<"read", level>>} => fds[dir_fd[level]] = level
       /\ list_pc = <<"close", level>> => fds[dir_fd[level]] = "free"
  /\ list_pc[2] = "task" => fds[dir_fd["proc"]] = "proc"
  /\ list_pc = <<"idle", "proc">> => fds = AtRest

(* The list that has been read names exactly the tasks of /proc, hidden    *)
(* ones too, also if a directory of threads could not be read              *)
(* (util.cpp:218-243).                                                     *)
ListsTheTasks ==
  list_pc = <<"close", "proc">> =>
    task_ids = {e.id : e \in {e \in held : NamesTask(e)}}
=============================================================================
