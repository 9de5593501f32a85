----------------------------- MODULE MCTaskRow -----------------------------
(***************************************************************************)
(* TaskRow for TLC: paths of every shape, an argv[0] that is empty, a      *)
(* kernel thread or zombie without a command line.                         *)
(***************************************************************************)
EXTENDS TaskRow

Text(lead, rest) == [lead |-> lead, rest |-> rest, newline |-> FALSE]

MCWords == {"", "bin/a", "-v", "a", "comm"}

MCImages ==
  [argv : {<<>>, <<Empty>>, <<Text("/", "bin/a"), Text("", "-v")>>,
           <<Text("../", "a")>>, <<Text("/", "")>>, <<Text("", "a")>>},
   comm : {[lead |-> "", rest |-> "comm", newline |-> TRUE]}]

MCUids == {"root", "u1"}
MCKnown == {"root"}
=============================================================================
