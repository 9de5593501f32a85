--------------------------- MODULE MCFormatString ---------------------------
(***************************************************************************)
(* FormatString for TLC: texts with a letter, a closing brace and a byte   *)
(* from 128 on in them, fields with and without styles, and one that is    *)
(* not closed; windows of even and odd width, narrower and wider than the  *)
(* texts.                                                                  *)
(***************************************************************************)
EXTENDS FormatString

MCPieces ==
  {<<"r", "}">>, <<"high">>, <<"{">>, <<"{", "}">>,
   <<"{", "r", "B", "g", "U", "N", "}">>}

MCArguments == {<<>>, <<"{", "a", "}">>}

MCWindows == {[height |-> 1, width |-> 2], [height |-> 2, width |-> 5]}
=============================================================================
