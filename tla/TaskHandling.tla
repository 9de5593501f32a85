---------------------------- MODULE TaskHandling ----------------------------
(***************************************************************************)
(* What IoMonitor's loop takes the handling of one id for: a single step   *)
(* in which the row is filled in with what the kernel counts for whoever   *)
(* has the id in that moment, or stays as it was made.                     *)
(***************************************************************************)
EXTENDS Naturals

VARIABLES
  holder,   \* the task that has the id: its number, 0 if there is none
  bytes,    \* what is counted for it
  handled,
  row       \* who was asked about (0: nobody answered) and what was counted

handlingVars == <<holder, bytes, handled, row>>

HandlingInit ==
  /\ holder \in Nat
  /\ bytes \in Nat
  /\ handled = FALSE
  /\ row = [of |-> 0, bytes |-> 0, is_updated |-> FALSE]

(* The machine goes on; a number once given up never comes back.           *)
Move ==
  /\ holder' \in Nat /\ bytes' \in Nat
  /\ UNCHANGED <<handled, row>>

Handle ==
  /\ ~handled
  /\ handled' = TRUE
  /\ \/ /\ holder # 0
        /\ row' = [of |-> holder, bytes |-> bytes, is_updated |-> TRUE]
     \/ row' = row
  /\ UNCHANGED <<holder, bytes>>

HandlingSpec == HandlingInit /\ [][Move \/ Handle]_handlingVars
=============================================================================
