------------------------------ MODULE MCIoTop ------------------------------
(***************************************************************************)
(* IoTop for TLC: names of /proc, two to be taken and two to be skipped.  *)
(***************************************************************************)
EXTENDS IoTop

MCTasks == {1, 2}

Entry(type, dot, name, id) == [type |-> type, dot |-> dot, name |-> name, id |-> id]

MCEntries ==
  {Entry("DT_DIR", FALSE, "number", 1),
   Entry("DT_UNKNOWN", TRUE, "number", 2),
   Entry("DT_DIR", FALSE, "digits and more", 3),
   Entry("DT_REG", FALSE, "number", 4)}
=============================================================================
