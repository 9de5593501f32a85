----------------------------- MODULE ViewCurses -----------------------------
(***************************************************************************)
(* ViewCurses::draw_data: a frame is printed into the curses screen line   *)
(* by line, made visible and cleared again.  What matters of a text is     *)
(* whose it is and how many cells it takes; the screen is one run of       *)
(* cells, because text that reaches the end of a line goes on in the next. *)
(* Curses itself is external, and the cxxcurses wrapper adds nothing to it *)
(* here: format(y, x)(text) is wmove, then waddch for every character.     *)
(***************************************************************************)
EXTENDS Naturals, FiniteSets

CONSTANTS
  Tasks,    \* the tasks a table may hold
  Header,   \* the owner of the header lines' cells
  Blank,    \* the owner of an empty cell
  Height,   \* lines of the terminal
  Width,    \* cells of a line
  Lengths   \* the cells a line of text may take

ASSUME ViewAssumption ==
  /\ IsFiniteSet(Tasks)
  /\ Header \notin Tasks /\ Blank \notin Tasks /\ Header # Blank
  /\ Height \in Nat \ {0} /\ Width \in Nat \ {0}
  /\ Lengths \subseteq Nat \ {0}

VARIABLES
  pc,
  cells,    \* stdscr: who owns each cell
  cursor,   \* the next cell to be written
  y_line,   \* the next line of print_body
  todo,     \* tasks of the table that print_body has not come to
  screen,   \* what the terminal shows
  table     \* history: the tasks of the table being drawn

vars == <<pc, cells, cursor, y_line, todo, screen, table>>

Cells == 0 .. Height * Width - 1
LastCell == Height * Width - 1
Line(y) == y * Width .. y * Width + Width - 1

-----------------------------------------------------------------------------
(* Curses *)

(* wmove fails below the last line and leaves the cursor where it is.      *)
Moved(y) == IF y < Height THEN y * Width ELSE cursor

(* A text of len cells from the start of line y on.  Without scrolling,    *)
(* what does not fit goes into the last cell.                              *)
Printed(owner, y, len) ==
  LET first == Moved(y)
      last == IF first + len - 1 < LastCell THEN first + len - 1 ELSE LastCell
  IN /\ cells' = [c \in Cells |-> IF c \in first .. last THEN owner ELSE cells[c]]
     /\ cursor' = IF last < LastCell THEN last + 1 ELSE LastCell

(* The same with a newline at the end, which erases the rest of the line   *)
(* and goes to the next one, if there is one.                              *)
PrintedWithNewline(owner, y, len) ==
  LET first == Moved(y)
      end == first + len
      rest == {c \in Cells : c >= end /\ c \div Width = end \div Width}
      next == (end \div Width + 1) * Width
  IN IF end > LastCell
     THEN Printed(owner, y, len)
     ELSE /\ cells' = [c \in Cells |->
                         IF c \in rest THEN Blank
                         ELSE IF c \in first .. end - 1 THEN owner
                         ELSE cells[c]]
          /\ cursor' = IF next \in Cells THEN next ELSE end

-----------------------------------------------------------------------------
(* draw_data *)

Init ==
  /\ pc = "idle"
  /\ cells = [c \in Cells |-> Blank]
  /\ cursor = 0
  /\ y_line = 0
  /\ todo = {}
  /\ screen = cells
  /\ table = {}

(* print_header, for a table that has just been collected                  *)
PrintHeader ==
  /\ pc = "idle"
  /\ pc' = "header"
  /\ table' \in SUBSET Tasks
  /\ \E len \in Lengths : Printed(Header, 0, len)
  /\ UNCHANGED <<y_line, todo, screen>>

PrintBodyHeader ==
  /\ pc = "header"
  /\ pc' = "rows"
  /\ \E len \in Lengths : Printed(Header, 1, len)
  /\ y_line' = 2
  /\ todo' = table
  /\ UNCHANGED <<screen, table>>

(* Variant: y_line is not advanced.                                        *)
PrintRow_Stays(t) ==
  /\ pc = "rows"
  /\ t \in todo
  /\ y_line - 1 < Height
  /\ \E len \in Lengths : Printed(t, y_line, len)
  /\ todo' = todo \ {t}
  /\ UNCHANGED <<pc, y_line, screen, table>>

(* Variant: rows are printed below the last line, too.                     *)
PrintRow_Unbounded(t) ==
  /\ pc = "rows"
  /\ t \in todo
  /\ \E len \in Lengths : Printed(t, y_line, len)
  /\ y_line' = y_line + 1
  /\ todo' = todo \ {t}
  /\ UNCHANGED <<pc, screen, table>>

(* The table is unordered.  "y_line - 1" lets one row pass the last line.  *)
(* The name of a task without a command line comes with its newline, as a  *)
(* line of /proc/t/status does (util.cpp:176-185).                         *)
PrintRow(t) ==
  /\ pc = "rows"
  /\ t \in todo
  /\ y_line - 1 < Height
  /\ \E len \in Lengths :
       Printed(t, y_line, len) \/ PrintedWithNewline(t, y_line, len)
  /\ y_line' = y_line + 1
  /\ todo' = todo \ {t}
  /\ UNCHANGED <<pc, screen, table>>

EndRows ==
  /\ pc = "rows"
  /\ todo = {} \/ y_line - 1 >= Height
  /\ pc' = "draw"
  /\ todo' = {}
  /\ UNCHANGED <<cells, cursor, y_line, screen, table>>

Draw ==
  /\ pc = "draw"
  /\ pc' = "clear"
  /\ screen' = cells
  /\ UNCHANGED <<cells, cursor, y_line, todo, table>>

(* Variant: clear() is left out.                                           *)
Clear_Skipped ==
  /\ pc = "clear"
  /\ pc' = "idle"
  /\ cursor' = 0
  /\ UNCHANGED <<cells, y_line, todo, screen, table>>

Clear ==
  /\ pc = "clear"
  /\ pc' = "idle"
  /\ cells' = [c \in Cells |-> Blank]
  /\ cursor' = 0
  /\ UNCHANGED <<y_line, todo, screen, table>>

Next ==
  \/ PrintHeader
  \/ PrintBodyHeader
  \/ \E t \in Tasks : PrintRow(t)
  \/ EndRows
  \/ Draw
  \/ Clear

Spec == Init /\ [][Next]_vars

-----------------------------------------------------------------------------
(* Properties *)

Owners == Tasks \cup {Header, Blank}

(* Types, and the bound on y_line that makes print_body end.               *)
TypeOK ==
  /\ pc \in {"idle", "header", "rows", "draw", "clear"}
  /\ cells \in [Cells -> Owners]
  /\ cursor \in Cells
  /\ y_line \in 0 .. Height + 1
  /\ todo \subseteq table /\ table \subseteq Tasks
  /\ screen \in [Cells -> Owners]
  /\ pc # "rows" => todo = {}

(* A frame shows nothing of the frame before, although nothing is erased   *)
(* while it is printed and the lines of the two have different lengths.    *)
NothingStale ==
  pc = "clear" => \A c \in Cells : screen[c] \in table \cup {Header, Blank}

Shown(t) == {c \in Cells : screen[c] = t}

(* When the terminal has a line for every task, every task of the table    *)
(* has a line that starts with it, however long the texts; and what is     *)
(* left of it is in that line alone, unless it is more than a line.        *)
EveryTaskHasALine ==
  (pc = "clear" /\ Cardinality(table) + 2 <= Height) =>
    \A t \in table :
      \E y \in 2 .. Height - 1 :
        /\ screen[y * Width] = t
        /\ Cardinality(Shown(t)) <= Width => Shown(t) \subseteq Line(y)

(* view.cpp:48-51 shows the body as one task per line.  So no line of a    *)
(* frame holds text of two tasks, at least if no text is longer than it.   *)
OneTaskPerLine ==
  (pc = "clear" /\ Lengths \subseteq 1 .. Width) =>
    \A y \in 0 .. Height - 1 :
      Cardinality({screen[c] : c \in Line(y)} \cap Tasks) <= 1
=============================================================================
