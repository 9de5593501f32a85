------------------------------- MODULE ProcFs -------------------------------
(***************************************************************************)
(* The machine being watched, as far as iotop-cpp can tell: tasks that     *)
(* come, do disk I/O and go, grouped into processes.  The program never    *)
(* stops them, so every action here may fall between any two steps of the  *)
(* collector.  Nothing in this module is code of the repository: /proc and *)
(* taskstats are modelled from the way Util and NetlinkIoStats use them.   *)
(***************************************************************************)
EXTENDS Naturals, FiniteSets, Functions

CONSTANTS
  Ids,       \* the numbers the kernel gives to tasks (a pid or a tid)
  NoTask,    \* "no task has this number"
  MaxBytes,  \* bound on a task's byte counter
  Recycle    \* may a number freed during a collection be given out again
             \* before that collection ends?

ASSUME ProcFsAssumption ==
  /\ IsFiniteSet(Ids)
  /\ NoTask \notin Ids
  /\ MaxBytes \in Nat
  /\ Recycle \in BOOLEAN

VARIABLES
  tgid,   \* tgid[t]: the process task t belongs to; a process's leader is t itself
  bytes,  \* bytes[t]: what taskstats counts for t (read_bytes)
  seen,   \* history: the ids that were a task at some moment since the mark
  since   \* history: the ids that have been one task ever since the mark,
          \* each with its counter at the mark

procVars == <<tgid, bytes, seen, since>>

LiveIds == {t \in Ids : tgid[t] # NoTask}

Processes == {p \in Ids : tgid[p] = p}

ThreadsOf(p) == {t \in Ids : tgid[t] = p}

(* The tasks that have lived through everything since the mark. *)
Steady == DOMAIN since

MayBeBorn(t) ==
  /\ tgid[t] = NoTask
  /\ Recycle \/ t \notin seen

-----------------------------------------------------------------------------

Born(t, p) ==
  /\ MayBeBorn(t)
  /\ tgid' = [tgid EXCEPT ![t] = p]
  /\ bytes' = [bytes EXCEPT ![t] = 0]
  /\ seen' = seen \cup {t}
  /\ UNCHANGED since

Fork(p) == Born(p, p)

Clone(p, t) ==
  /\ p \in Processes
  /\ Born(t, p)

(* A leader that exits stays in /proc until its last thread is gone. *)
Exit(t) ==
  /\ t \in LiveIds
  /\ tgid[t] = t => ThreadsOf(t) = {t}
  /\ tgid' = [tgid EXCEPT ![t] = NoTask]
  /\ bytes' = [bytes EXCEPT ![t] = 0]
  /\ since' = Restrict(since, Steady \ {t})
  /\ UNCHANGED seen

ReadDisk(t) ==
  /\ t \in LiveIds
  /\ bytes[t] < MaxBytes
  /\ bytes' = [bytes EXCEPT ![t] = @ + 1]
  /\ UNCHANGED <<tgid, seen, since>>

ProcNext ==
  \E t \in Ids :
    \/ Fork(t)
    \/ \E p \in Ids : Clone(p, t)
    \/ Exit(t)
    \/ ReadDisk(t)

(* Restart the history; the machine itself does not move. *)
Mark ==
  /\ seen' = LiveIds
  /\ since' = [t \in LiveIds |-> bytes[t]]
  /\ UNCHANGED <<tgid, bytes>>

LeadersAlive == \A t \in LiveIds : tgid[t] \in Processes

ProcInit ==
  /\ tgid \in [Ids -> Ids \cup {NoTask}]
  /\ bytes \in [Ids -> 0 .. MaxBytes]
  /\ LeadersAlive
  /\ \A t \in Ids \ LiveIds : bytes[t] = 0
  /\ seen = LiveIds
  /\ since = [t \in LiveIds |-> bytes[t]]

ProcTypeOK ==
  /\ tgid \in [Ids -> Ids \cup {NoTask}]
  /\ bytes \in [Ids -> 0 .. MaxBytes]
  /\ LeadersAlive
  /\ LiveIds \subseteq seen /\ seen \subseteq Ids
  /\ Steady \subseteq LiveIds
  /\ since \in [Steady -> 0 .. MaxBytes]
  /\ \A t \in Steady : since[t] <= bytes[t]
=============================================================================
