------------------------------- MODULE IoTop -------------------------------
(***************************************************************************)
(* The whole program: IoRunner with the terminal, the taskstats client and *)
(* the lists of tasks, of which its init and its collections consist.      *)
(* There is one thread, so that the client moves only while IoRunner is in *)
(* io_monitor_; the kernel's side of the socket always may.                *)
(***************************************************************************)
EXTENDS NetlinkIoStats, TaskList, Terminal

VARIABLES
  main_pc,   \* IoRunner's
  to_ask,    \* ids of the lists that get_task_io_info has not come to
  handling,  \* the id whose row is being made
  rows       \* the rows made in this round: of which id, whose numbers, marked

R == INSTANCE IoRunner WITH pc <- main_pc

runnerVars == <<main_pc, terminalVars>>
monitorVars == <<to_ask, handling, rows>>
Asks == [id : Tasks, is_pid : BOOLEAN]

(* What is a task in /proc is one that the kernel may be asked about.      *)
ASSUME TopAssumption ==
  /\ NoTask \notin Asks
  /\ \A e \in Entries : NamesTask(e) => e.id \in Tasks

topVars == <<runnerVars, vars, listVars, monitorVars>>

TopInit ==
  /\ R!Init
  /\ Init
  /\ ListInit
  /\ to_ask = {} /\ handling = NoTask /\ rows = {}

(* The client's own steps, within init or within a query.                  *)
NetOwn ==
  /\ main_pc \in {"monitor_init", "collect"}
  /\ OwnStep
  /\ UNCHANGED <<runnerVars, listVars, monitorVars>>

NetSend ==
  /\ main_pc \in {"monitor_init", "collect"}
  /\ SendStep
  /\ UNCHANGED <<runnerVars, listVars, monitorVars>>

NetFills == KernelFills /\ UNCHANGED <<runnerVars, listVars, monitorVars>>
NetDrains == KernelDrains /\ UNCHANGED <<runnerVars, listVars, monitorVars>>

(* Variant: ids are asked for although init failed.                        *)
MonitorInit_GoesOn ==
  /\ R!InitMonitor
  /\ pc \in {"idle", "failed"} /\ main_pc' = "initscr"
  /\ UNCHANGED <<vars, listVars, monitorVars>>

(* IoMonitor::init returns what the client's init does.                    *)
MonitorInit ==
  /\ R!InitMonitor
  /\ \/ pc = "idle" /\ main_pc' = "initscr"
     \/ pc = "failed" /\ main_pc' = "ended"
  /\ UNCHANGED <<vars, listVars, monitorVars>>

(* get_all_task_id makes its list ...                                      *)
BeginCollect ==
  /\ R!CloseTerminal \/ R!Sleep
  /\ BeginList
  /\ rows' = {}
  /\ UNCHANGED <<vars, to_ask, handling>>

(* ... with a list of threads for each process.                            *)
List ==
  /\ main_pc = "collect"
  /\ \E level \in Levels : ListStep(level)
  /\ to_ask' = to_ask \cup [id : task_ids', is_pid : {TRUE}]
                      \cup [id : thread_ids', is_pid : {FALSE}]
  /\ UNCHANGED <<runnerVars, vars, handling, rows>>

(* In any order; IoMonitor has processes before their threads.             *)
Ask(task) ==
  /\ main_pc = "collect"
  /\ list_pc = <<"idle", "proc">>
  /\ handling = NoTask
  /\ task \in to_ask
  /\ BeginQuery(task.id)
  /\ handling' = task
  /\ to_ask' = to_ask \ {task}
  /\ UNCHANGED <<runnerVars, listVars, rows>>

NewRow(is_updated) ==
  [id |-> handling.id, is_pid |-> handling.is_pid,
   numbers_of |-> row, is_updated |-> is_updated]

(* Variant: a row is marked whatever the query returned.                   *)
Emplace_Marked ==
  /\ main_pc = "collect"
  /\ handling # NoTask
  /\ pc = "idle"
  /\ rows' = IF \E r \in rows : r.id = handling.id THEN rows ELSE rows \cup {NewRow(TRUE)}
  /\ handling' = NoTask
  /\ UNCHANGED <<runnerVars, vars, listVars, to_ask>>

(* The call has returned; TaskRow has the rest of the row.  A row that is  *)
(* there stays.                                                            *)
Emplace ==
  /\ main_pc = "collect"
  /\ handling # NoTask
  /\ pc = "idle"
  /\ rows' = IF \E r \in rows : r.id = handling.id THEN rows ELSE rows \cup {NewRow(code = 0)}
  /\ handling' = NoTask
  /\ UNCHANGED <<runnerVars, vars, listVars, to_ask>>

(* The loop is over; rows that are not marked are removed.                 *)
EndCollect ==
  /\ R!Collect
  /\ list_pc = <<"idle", "proc">> /\ to_ask = {} /\ handling = NoTask
  /\ rows' = {r \in rows : r.is_updated}
  /\ UNCHANGED <<vars, listVars, to_ask, handling>>

OnScreen ==
  /\ \/ R!OpenTerminal \/ R!SetVisibility \/ R!SetColors \/ R!SetPairs
     \/ R!PrintData \/ R!Draw \/ R!Clear
  /\ UNCHANGED <<vars, listVars, monitorVars>>

Killed == R!Interrupt /\ UNCHANGED <<vars, listVars, monitorVars>>

Program ==
  \/ NetOwn
  \/ MonitorInit
  \/ BeginCollect
  \/ List
  \/ \E task \in Asks : Ask(task)
  \/ Emplace
  \/ EndCollect
  \/ OnScreen

TopNext == Program \/ NetSend \/ NetFills \/ NetDrains \/ Killed

TopSpec == TopInit /\ [][TopNext]_topVars

(* The process runs, and the kernel, once full, has room again some time.  *)
(* It may fill up at once; but sendto is retried without a pause, so one   *)
(* retry meets the room some time.                                         *)
FairTopSpec ==
  TopSpec /\ WF_topVars(Program) /\ WF_topVars(NetDrains) /\ SF_topVars(NetSend)

-----------------------------------------------------------------------------
(* Properties *)

(* Types; and the client is at work only while IoRunner waits for it, and  *)
(* asks nothing before its init is over and the list is made.              *)
TopTypeOK ==
  /\ R!TypeOK
  /\ to_ask \subseteq Asks
  /\ handling \in Asks \cup {NoTask}
  /\ rows \subseteq [id : Tasks, is_pid : BOOLEAN,
                    numbers_of : Tasks \cup {NoTask}, is_updated : BOOLEAN]
  /\ asked # NoTask =>
       /\ main_pc \in {"collect", "ended"} /\ handling.id = asked
       /\ list_pc = <<"idle", "proc">>
  /\ main_pc \notin {"monitor_init", "ended"} =>
       pc \notin {"init_sock", "init_send", "init_recv", "failed"}

(* A frame has the numbers of a task in the row of its id, whatever failed *)
(* in this round or an earlier one, and nothing is left in the socket that *)
(* the next round might take for its own (netlink.cpp:21-36,               *)
(* io_monitor.cpp:74-78).                                                  *)
FrameHasItsNumbers ==
  main_pc \in {"print", "draw", "clear"} =>
    /\ rcvq = <<>> /\ to_ask = {}
    /\ \A r \in rows : r.id \in {e.id : e \in Entries} /\ r.numbers_of = r.id

(* What IoRunner says of the screen is so in the whole program: a frame    *)
(* that was just drawn is alone on it (view.cpp:33-34) ...                 *)
FrameIsClean == R!FrameIsClean

(* ... and curses has the colour pairs the registry says it has            *)
(* (color_pair.hpp:26-47).                                                 *)
RegistryInStep == R!RegistryInStep

(* Frames keep coming, although every one of them waits for as many        *)
(* answers as there are tasks (iotop.cpp:22-31).                           *)
FramesKeepComing == R!FramesKeepComing

(* The whole program does what IoRunner says, with a collection and the    *)
(* client's init in place of single steps, each of which ends.             *)
ImplementsIoRunner == R!FairSpec
=============================================================================
