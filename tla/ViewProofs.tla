----------------------------- MODULE ViewProofs -----------------------------
(***************************************************************************)
(* Frames do not leak into each other, on terminals of every size and with *)
(* texts of every length.                                                  *)
(***************************************************************************)
EXTENDS ViewCurses, FiniteSetTheorems, TLAPS

USE ViewAssumption

(* The screen under construction holds the current table only, and nothing *)
(* at all between two frames.                                              *)
CellsOK ==
  /\ pc = "idle" => \A c \in Cells : cells[c] = Blank
  /\ pc \in {"header", "rows", "draw"} =>
       \A c \in Cells : cells[c] \in table \cup {Header, Blank}

IInv == TypeOK /\ CellsOK /\ NothingStale

LEMMA ScreenSize ==
  /\ Height * Width \in Nat \ {0}
  /\ LastCell \in Cells
  /\ 0 \in Cells
<1>1. Height * Width \in Nat
  OBVIOUS
<1>2. Height * Width # 0
  BY Z3
<1>3. QED
  BY <1>1, <1>2 DEF Cells, LastCell

(* Moving to a line finds its first cell, or stays.                        *)
LEMMA MovedOnScreen ==
  ASSUME TypeOK, NEW y \in Nat
  PROVE  Moved(y) \in Cells
<1>1. CASE y < Height
  <2>1. y * Width \in Nat /\ y * Width + Width <= Height * Width
    BY <1>1, Z3
  <2>2. QED
    BY <1>1, <2>1, ScreenSize DEF Moved, Cells
<1>2. CASE ~(y < Height)
  BY <1>2 DEF Moved, TypeOK
<1>3. QED
  BY <1>1, <1>2

(* Text stays on the screen and touches nothing but its own cells.         *)
LEMMA PrintedCells ==
  ASSUME TypeOK, NEW owner \in Owners, NEW y \in Nat, NEW len \in Lengths,
         Printed(owner, y, len)
  PROVE  /\ cells' \in [Cells -> Owners]
         /\ cursor' \in Cells
         /\ \A c \in Cells : cells'[c] \in {owner, cells[c]}
<1>1. Moved(y) \in Cells
  BY MovedOnScreen
<1> DEFINE last == IF Moved(y) + len - 1 < LastCell THEN Moved(y) + len - 1 ELSE LastCell
<1>2. /\ cells' = [c \in Cells |-> IF c \in Moved(y) .. last THEN owner ELSE cells[c]]
      /\ cursor' = IF last < LastCell THEN last + 1 ELSE LastCell
  BY DEF Printed
<1>3. cursor' \in Cells
  <2>1. len \in Nat \ {0} /\ Height * Width \in Nat
    BY ScreenSize
  <2>2. last \in Cells
    BY <1>1, <2>1, ScreenSize DEF Cells, LastCell
  <2>3. QED
    BY <1>2, <2>1, <2>2, ScreenSize DEF Cells, LastCell
<1>4. QED
  BY <1>2, <1>3 DEF TypeOK

(* A newline erases what is left of the line and keeps the cursor on the   *)
(* screen.                                                                 *)
LEMMA NewlineCells ==
  ASSUME TypeOK, NEW owner \in Owners, NEW y \in Nat, NEW len \in Lengths,
         PrintedWithNewline(owner, y, len)
  PROVE  /\ cells' \in [Cells -> Owners]
         /\ cursor' \in Cells
         /\ \A c \in Cells : cells'[c] \in {owner, Blank, cells[c]}
<1> DEFINE end == Moved(y) + len
           rest == {c \in Cells : c >= end /\ c \div Width = end \div Width}
           next == (end \div Width + 1) * Width
<1>1. CASE end > LastCell
  <2>1. Printed(owner, y, len)
    BY <1>1 DEF PrintedWithNewline
  <2>2. QED
    BY <2>1, PrintedCells
<1>2. CASE ~(end > LastCell)
  <2>1. Moved(y) \in Cells
    BY MovedOnScreen
  <2>2. end \in Cells
    BY <1>2, <2>1, ScreenSize DEF Cells, LastCell
  <2>3. /\ cells' = [c \in Cells |->
                       IF c \in rest THEN Blank
                       ELSE IF c \in Moved(y) .. end - 1 THEN owner
                       ELSE cells[c]]
        /\ cursor' = IF next \in Cells THEN next ELSE end
    BY <1>2 DEF PrintedWithNewline
  <2>4. \A c \in Cells : cells'[c] \in {owner, Blank, cells[c]}
    BY <2>3
  <2>5. QED
    BY <2>2, <2>3, <2>4 DEF TypeOK, Owners
<1>3. QED
  BY <1>1, <1>2

LEMMA InitIInv == Init => IInv
BY ScreenSize DEF Init, IInv, TypeOK, CellsOK, NothingStale, Owners

LEMMA NextIInv == IInv /\ [Next]_vars => IInv'
<1> SUFFICES ASSUME IInv, Next \/ UNCHANGED vars PROVE IInv'
  OBVIOUS
<1> USE DEF IInv
<1>1. CASE PrintHeader
  <2>1. PICK len \in Lengths : Printed(Header, 0, len)
    BY <1>1 DEF PrintHeader
  <2>2. /\ cells' \in [Cells -> Owners]
        /\ cursor' \in Cells
        /\ \A c \in Cells : cells'[c] \in {Header, cells[c]}
    BY <2>1, PrintedCells DEF Owners
  <2>3. QED
    BY <1>1, <2>2 DEF PrintHeader, TypeOK, CellsOK, NothingStale
<1>2. CASE PrintBodyHeader
  <2>1. PICK len \in Lengths : Printed(Header, 1, len)
    BY <1>2 DEF PrintBodyHeader
  <2>2. /\ cells' \in [Cells -> Owners]
        /\ cursor' \in Cells
        /\ \A c \in Cells : cells'[c] \in {Header, cells[c]}
    BY <2>1, PrintedCells DEF Owners
  <2>3. QED
    BY <1>2, <2>2 DEF PrintBodyHeader, TypeOK, CellsOK, NothingStale
<1>3. ASSUME NEW t \in Tasks, PrintRow(t)
      PROVE  IInv'
  <2>1. PICK len \in Lengths :
          Printed(t, y_line, len) \/ PrintedWithNewline(t, y_line, len)
    BY <1>3 DEF PrintRow
  <2>2. t \in table /\ y_line \in Nat /\ y_line + 1 \in 0 .. Height + 1
    BY <1>3 DEF PrintRow, TypeOK
  <2>3. /\ cells' \in [Cells -> Owners]
        /\ cursor' \in Cells
        /\ \A c \in Cells : cells'[c] \in {t, Blank, cells[c]}
    BY <2>1, <2>2, PrintedCells, NewlineCells DEF Owners
  <2>4. QED
    BY <1>3, <2>2, <2>3 DEF PrintRow, TypeOK, CellsOK, NothingStale
<1>4. CASE EndRows
  BY <1>4 DEF EndRows, TypeOK, CellsOK, NothingStale
<1>5. CASE Draw
  BY <1>5 DEF Draw, TypeOK, CellsOK, NothingStale
<1>6. CASE Clear
  BY <1>6, ScreenSize DEF Clear, TypeOK, CellsOK, NothingStale, Owners
<1>7. CASE UNCHANGED vars
  BY <1>7 DEF vars, TypeOK, CellsOK, NothingStale
<1>8. QED
  BY <1>1, <1>2, <1>3, <1>4, <1>5, <1>6, <1>7 DEF Next

(* The cursor never leaves the screen and print_body's line counter passes *)
(* the last line by one at most (view.cpp:63-73).                          *)
THEOREM TypeCorrect == Spec => []TypeOK
<1>1. IInv => TypeOK
  BY DEF IInv
<1>2. QED
  BY <1>1, InitIInv, NextIInv, PTL DEF Spec

(* The terminal never shows a task that the table just drawn does not hold *)
(* (view.cpp:29-36), because the screen is cleared after every frame.      *)
THEOREM FramesAreSeparate == Spec => []NothingStale
<1>1. IInv => NothingStale
  BY DEF IInv
<1>2. QED
  BY <1>1, InitIInv, NextIInv, PTL DEF Spec

-----------------------------------------------------------------------------
(* A line for every task                                                   *)

Fits == Cardinality(table) + 2 <= Height

Owned(t) == {c \in Cells : cells[c] = t}

(* Line y begins with t, and t has none but cells of it, or all of it.     *)
HasLine(t, y) ==
  /\ cells[y * Width] = t
  /\ Owned(t) \subseteq Line(y) \/ Line(y) \subseteq Owned(t)

(* Rows are printed one below the other, and no row reaches back into the  *)
(* lines above it.                                                         *)
LinesOK ==
  /\ pc = "header" => \A c \in Cells : cells[c] \in {Header, Blank}
  /\ pc = "rows" /\ Fits =>
       /\ y_line = 2 + Cardinality(table \ todo)
       /\ \A t \in todo : Owned(t) = {}
       /\ \A t \in table \ todo : \E y \in 2 .. y_line - 1 : HasLine(t, y)
  /\ pc = "draw" /\ Fits =>
       \A t \in table : \E y \in 2 .. Height - 1 : HasLine(t, y)
  /\ EveryTaskHasALine

LEMMA LinesApart ==
  ASSUME NEW y \in Nat, NEW below \in Nat, y < below
  PROVE  y * Width \in Nat /\ below * Width \in Nat /\ y * Width + Width <= below * Width
BY Z3

(* A line of the screen is made of cells.                                  *)
LEMMA LineCells ==
  ASSUME NEW y \in Nat, y < Height
  PROVE  y * Width \in Nat /\ Line(y) \subseteq Cells /\ y * Width \in Cells
<1>1. y * Width \in Nat /\ y * Width + Width <= Height * Width
  BY LinesApart
<1> QED
  BY <1>1, ScreenSize DEF Line, Cells

LEMMA LineSize ==
  ASSUME NEW y \in Nat
  PROVE  IsFiniteSet(Line(y)) /\ Cardinality(Line(y)) = Width
<1>1. y * Width \in Nat
  BY Z3
<1> QED
  BY <1>1, FS_Interval DEF Line

LEMMA TableSize ==
  ASSUME TypeOK
  PROVE  /\ IsFiniteSet(table) /\ IsFiniteSet(todo) /\ IsFiniteSet(table \ todo)
         /\ Cardinality(table) \in Nat /\ Cardinality(table \ todo) \in Nat
         /\ todo # {} => Cardinality(table \ todo) < Cardinality(table)
<1>1. IsFiniteSet(table) /\ IsFiniteSet(todo) /\ IsFiniteSet(table \ todo)
  BY FS_Subset DEF TypeOK
<1>2. ASSUME NEW t \in todo PROVE Cardinality(table \ todo) < Cardinality(table)
  <2>1. table \ todo \subseteq table /\ table \ todo # table
    BY <1>2 DEF TypeOK
  <2>2. Cardinality(table) \in Nat /\ Cardinality(table \ todo) \in Nat
    BY <1>1, FS_CardinalityType
  <2>3. Cardinality(table \ todo) <= Cardinality(table)
        /\ Cardinality(table \ todo) # Cardinality(table)
    BY <1>1, <2>1, FS_Subset
  <2> QED
    BY <2>2, <2>3
<1> QED
  BY <1>1, <1>2, FS_CardinalityType

(* Of a text from the start of a line, the cells are either in that line   *)
(* or fill it; nothing above the line changes.                             *)
LEMMA TextTakesItsLine ==
  ASSUME TypeOK, NEW t \in Tasks, NEW y \in Nat, y < Height, NEW len \in Lengths,
         Printed(t, y, len) \/ PrintedWithNewline(t, y, len),
         Owned(t) = {}
  PROVE  /\ HasLine(t, y)'
         /\ \A c \in Cells : c < y * Width => cells'[c] = cells[c]
         /\ \A c \in Cells : cells'[c] \in {t, Blank, cells[c]}
<1> DEFINE first == y * Width
           end == first + len
<1>1. /\ first \in Nat /\ first \in Cells /\ len \in Nat \ {0} /\ Moved(y) = first
      /\ first + Width <= Height * Width /\ Height * Width \in Nat
  BY LinesApart, LineCells, ScreenSize DEF Moved
<1>2. \E last \in first .. LastCell :
        /\ \A c \in Cells : cells'[c] = t <=> c \in first .. last
        /\ \A c \in Cells : c < first => cells'[c] = cells[c]
        /\ \A c \in Cells : cells'[c] \in {t, Blank, cells[c]}
  <2>1. CASE Printed(t, y, len)
    <3> DEFINE last == IF first + len - 1 < LastCell THEN first + len - 1 ELSE LastCell
    <3>1. cells' = [c \in Cells |-> IF c \in first .. last THEN t ELSE cells[c]]
      BY <1>1, <2>1 DEF Printed
    <3>2. last \in first .. LastCell
      BY <1>1 DEF Cells, LastCell
    <3>3. \A c \in Cells : cells[c] # t
      BY DEF Owned
    <3> HIDE DEF last, first
    <3> QED
      BY <1>1, <3>1, <3>2, <3>3 DEF Cells
  <2>2. CASE PrintedWithNewline(t, y, len) /\ end <= LastCell
    <3> DEFINE rest == {c \in Cells : c >= end /\ c \div Width = end \div Width}
    <3>1. cells' = [c \in Cells |-> IF c \in rest THEN Blank
                                   ELSE IF c \in first .. end - 1 THEN t
                                   ELSE cells[c]]
      BY <1>1, <2>2 DEF PrintedWithNewline, LastCell
    <3>2. end - 1 \in first .. LastCell
      BY <1>1, <2>2 DEF LastCell
    <3>3. \A c \in Cells : cells[c] # t
      BY DEF Owned
    <3>4. \A c \in rest : c >= end
      OBVIOUS
    <3>5. end \in Nat
      BY <1>1
    <3>6. Blank # t
      OBVIOUS
    <3> HIDE DEF rest, first, end
    <3>7. \A c \in Cells : cells'[c] = t <=> c \in first .. end - 1
      BY <1>1, <3>1, <3>3, <3>4, <3>5, <3>6 DEF Cells
    <3>8. \A c \in Cells : c < first => cells'[c] = cells[c]
      BY <1>1, <3>1, <3>2, <3>4, <3>5 DEF Cells
    <3> QED
      BY <3>1, <3>2, <3>7, <3>8
  <2>3. CASE PrintedWithNewline(t, y, len) /\ end > LastCell
    <3>1. Printed(t, y, len)
      BY <1>1, <2>3 DEF PrintedWithNewline
    <3> QED
      BY <2>1, <3>1
  <2> QED
    BY <1>1, <2>1, <2>2, <2>3 DEF LastCell
<1>3. PICK last \in first .. LastCell :
        /\ \A c \in Cells : cells'[c] = t <=> c \in first .. last
        /\ \A c \in Cells : c < first => cells'[c] = cells[c]
        /\ \A c \in Cells : cells'[c] \in {t, Blank, cells[c]}
  BY <1>2
<1>4. Owned(t)' = {c \in Cells : c \in first .. last}
  BY <1>3 DEF Owned
<1>5. CASE last <= first + Width - 1
  <2>1. Owned(t)' \subseteq Line(y)
    BY <1>1, <1>4, <1>5 DEF Line, LastCell
  <2> QED
    BY <1>1, <1>3, <2>1 DEF HasLine, Line
<1>6. CASE last > first + Width - 1
  <2>1. Line(y) \subseteq Owned(t)'
    BY <1>1, <1>4, <1>6, LineCells DEF Line, LastCell
  <2> QED
    BY <1>1, <1>3, <2>1 DEF HasLine, Line
<1> QED
  BY <1>1, <1>3, <1>5, <1>6 DEF LastCell

(* A text further down leaves a row its line.                              *)
LEMMA LineStays ==
  ASSUME TypeOK, NEW t \in Tasks, NEW other \in Tasks, t # other,
         NEW y \in Nat, NEW below \in Nat, y < below, below < Height,
         HasLine(other, y),
         \A c \in Cells : c < below * Width => cells'[c] = cells[c],
         \A c \in Cells : cells'[c] \in {t, Blank, cells[c]}
  PROVE  HasLine(other, y)'
<1>1. /\ Line(y) \subseteq Cells /\ y * Width \in Cells /\ y * Width \in Nat
      /\ y * Width + Width <= below * Width
      /\ below * Width \in Nat
  BY LineCells, LinesApart
<1>2. \A c \in Line(y) : cells'[c] = cells[c]
  BY <1>1 DEF Line
<1>3. y * Width \in Line(y)
  BY <1>1 DEF Line
<1>4. Owned(other)' \subseteq Owned(other)
  BY DEF Owned
<1>5. Line(y) \subseteq Owned(other) => Line(y) \subseteq Owned(other)'
  BY <1>1, <1>2 DEF Owned
<1> QED
  BY <1>2, <1>3, <1>4, <1>5 DEF HasLine

(* A task that has more than its line has more than Width cells.           *)
LEMMA DrawnLine ==
  ASSUME NEW t \in Tasks, NEW y \in Nat, y < Height, HasLine(t, y),
         Cardinality(Owned(t)) <= Width
  PROVE  Owned(t) \subseteq Line(y)
<1> SUFFICES ASSUME Line(y) \subseteq Owned(t), ~(Owned(t) \subseteq Line(y)) PROVE FALSE
  BY DEF HasLine
<1>1. IsFiniteSet(Owned(t))
  <2>1. IsFiniteSet(Cells)
    BY ScreenSize, FS_Interval DEF Cells
  <2> QED
    BY <2>1, FS_Subset DEF Owned
<1>2. Cardinality(Line(y)) < Cardinality(Owned(t))
  <2>1. Cardinality(Line(y)) \in Nat /\ Cardinality(Owned(t)) \in Nat
    BY <1>1, LineSize, FS_CardinalityType
  <2>2. Cardinality(Line(y)) <= Cardinality(Owned(t)) /\ Cardinality(Line(y)) # Cardinality(Owned(t))
    BY <1>1, FS_Subset
  <2> QED
    BY <2>1, <2>2
<1> QED
  BY <1>1, <1>2, LineSize, FS_CardinalityType

LEMMA LinesStep == IInv /\ LinesOK /\ [Next]_vars => LinesOK'
<1> SUFFICES ASSUME IInv, LinesOK, Next \/ UNCHANGED vars PROVE LinesOK'
  OBVIOUS
<1>1. CASE PrintHeader
  <2>1. PICK len \in Lengths : Printed(Header, 0, len)
    BY <1>1 DEF PrintHeader
  <2>2. \A c \in Cells : cells'[c] \in {Header, Blank}
    BY <1>1, <2>1, PrintedCells DEF PrintHeader, IInv, CellsOK, Owners
  <2> QED
    BY <1>1, <2>2 DEF PrintHeader, LinesOK, EveryTaskHasALine
<1>2. CASE PrintBodyHeader
  <2>1. PICK len \in Lengths : Printed(Header, 1, len)
    BY <1>2 DEF PrintBodyHeader
  <2>2. \A c \in Cells : cells'[c] \in {Header, Blank}
    BY <1>2, <2>1, PrintedCells DEF PrintBodyHeader, IInv, LinesOK, Owners
  <2>3. \A t \in todo' : Owned(t)' = {}
    BY <1>2, <2>2 DEF PrintBodyHeader, Owned, IInv, TypeOK
  <2>4. (table \ todo)' = {} /\ y_line' = 2 /\ pc' = "rows"
    BY <1>2 DEF PrintBodyHeader
  <2>5. Cardinality((table \ todo)') = 0
    BY <2>4, FS_EmptySet
  <2> QED
    BY <2>3, <2>4, <2>5 DEF LinesOK, EveryTaskHasALine
<1>3. ASSUME NEW t \in Tasks, PrintRow(t) PROVE LinesOK'
  <2>1. /\ pc = "rows" /\ pc' = "rows" /\ t \in todo /\ todo' = todo \ {t}
        /\ y_line' = y_line + 1 /\ table' = table /\ y_line \in Nat
    BY <1>3 DEF PrintRow, IInv, TypeOK
  <2> SUFFICES ASSUME Fits
               PROVE  /\ y_line' = 2 + Cardinality(table \ todo)'
                      /\ \A o \in todo' : Owned(o)' = {}
                      /\ \A o \in table' \ todo' : \E y \in 2 .. y_line' - 1 : HasLine(o, y)'
    BY <2>1 DEF LinesOK, Fits, EveryTaskHasALine
  <2>2. /\ y_line = 2 + Cardinality(table \ todo)
        /\ \A o \in todo : Owned(o) = {}
        /\ \A o \in table \ todo : \E y \in 2 .. y_line - 1 : HasLine(o, y)
    BY <2>1 DEF LinesOK
  <2>3. y_line < Height
    BY <2>1, <2>2, TableSize DEF IInv, Fits
  <2>4. PICK len \in Lengths : Printed(t, y_line, len) \/ PrintedWithNewline(t, y_line, len)
    BY <1>3 DEF PrintRow
  <2> PICK line \in Nat : line = y_line
    BY <2>1
  <2>5. /\ HasLine(t, line)'
        /\ \A c \in Cells : c < line * Width => cells'[c] = cells[c]
        /\ \A c \in Cells : cells'[c] \in {t, Blank, cells[c]}
    BY <2>1, <2>2, <2>3, <2>4, TextTakesItsLine DEF IInv, TypeOK
  <2>6. y_line' = 2 + Cardinality(table \ todo)'
    <3>1. table' \ todo' = (table \ todo) \cup {t} /\ t \notin table \ todo
      BY <2>1 DEF IInv, TypeOK
    <3>2. Cardinality(table' \ todo') = Cardinality(table \ todo) + 1
      BY <3>1, TableSize, FS_AddElement DEF IInv
    <3> QED
      BY <2>1, <2>2, <3>2, TableSize DEF IInv
  <2>7. ASSUME NEW o \in todo' PROVE Owned(o)' = {}
    BY <2>1, <2>2, <2>5 DEF Owned, IInv, TypeOK
  <2>8. ASSUME NEW o \in table' \ todo' PROVE \E y \in 2 .. y_line' - 1 : HasLine(o, y)'
    <3>1. CASE o = t
      <4>1. line \in 2 .. y_line' - 1
        BY <2>1, <2>2, TableSize DEF IInv
      <4> QED
        BY <2>5, <3>1, <4>1
    <3>2. CASE o # t
      <4>1. o \in table \ todo /\ o \in Tasks
        BY <2>1, <2>8, <3>2 DEF IInv, TypeOK
      <4>2. PICK y \in 2 .. y_line - 1 : HasLine(o, y)
        BY <2>2, <4>1
      <4>3. y \in Nat /\ y < line /\ line < Height /\ y \in 2 .. y_line' - 1
        BY <2>1, <2>3, <4>2
      <4>4. HasLine(o, y)'
        BY <2>1, <2>5, <3>2, <4>1, <4>2, <4>3, LineStays DEF IInv, TypeOK
      <4> QED
        BY <4>3, <4>4
    <3> QED
      BY <3>1, <3>2
  <2> QED
    BY <2>6, <2>7, <2>8
<1>4. CASE EndRows
  <2>1. /\ pc = "rows" /\ pc' = "draw" /\ UNCHANGED <<cells, y_line, table>>
        /\ todo = {} \/ y_line - 1 >= Height
    BY <1>4 DEF EndRows
  <2> SUFFICES ASSUME Fits
               PROVE  \A t \in table : \E y \in 2 .. Height - 1 : HasLine(t, y)'
    BY <2>1 DEF LinesOK, Fits, EveryTaskHasALine
  <2>2. y_line = 2 + Cardinality(table \ todo) /\ y_line - 1 < Height
        /\ Cardinality(table \ todo) \in Nat
    <3>1. y_line = 2 + Cardinality(table \ todo)
      BY <2>1 DEF LinesOK
    <3>2. CASE todo = {}
      <4>1. table \ todo = table
        BY <3>2
      <4> QED
        BY <3>1, <4>1, TableSize DEF IInv, Fits
    <3>3. CASE todo # {}
      BY <3>1, <3>3, TableSize DEF IInv, Fits
    <3> QED
      BY <3>2, <3>3
  <2>3. todo = {}
    BY <2>1, <2>2
  <2>4. table \ todo = table /\ y_line <= Height
    BY <2>2, <2>3 DEF Fits
  <2>5. ASSUME NEW t \in table PROVE \E y \in 2 .. Height - 1 : HasLine(t, y)'
    <3>1. PICK y \in 2 .. y_line - 1 : HasLine(t, y)
      BY <2>1, <2>4 DEF LinesOK
    <3>2. y \in 2 .. Height - 1
      BY <2>2, <2>4
    <3>3. HasLine(t, y)'
      BY <2>1, <3>1 DEF HasLine, Owned
    <3> QED
      BY <3>2, <3>3
  <2> QED
    BY <2>5
<1>5. CASE Draw
  <2>1. pc = "draw" /\ pc' = "clear" /\ screen' = cells /\ table' = table
    BY <1>5 DEF Draw
  <2>2. ASSUME Fits, NEW t \in table
        PROVE  \E y \in 2 .. Height - 1 :
                 /\ screen'[y * Width] = t
                 /\ Cardinality(Shown(t)') <= Width => Shown(t)' \subseteq Line(y)
    <3>1. PICK y \in 2 .. Height - 1 : HasLine(t, y)
      BY <2>1, <2>2 DEF LinesOK
    <3>2. Shown(t)' = Owned(t) /\ t \in Tasks
      BY <2>1 DEF Shown, Owned, IInv, TypeOK
    <3>3. y \in Nat /\ y < Height
      OBVIOUS
    <3>4. Cardinality(Owned(t)) <= Width => Owned(t) \subseteq Line(y)
      BY <3>1, <3>2, <3>3, DrawnLine
    <3> QED
      BY <2>1, <3>1, <3>2, <3>4 DEF HasLine
  <2>3. EveryTaskHasALine'
    BY <2>1, <2>2 DEF EveryTaskHasALine, Fits
  <2> QED
    BY <2>1, <2>3 DEF LinesOK
<1>6. CASE Clear
  BY <1>6 DEF Clear, LinesOK, EveryTaskHasALine
<1>7. CASE UNCHANGED vars
  BY <1>7 DEF vars, LinesOK, Fits, HasLine, Owned, EveryTaskHasALine, Shown
<1> QED
  BY <1>1, <1>2, <1>3, <1>4, <1>5, <1>6, <1>7 DEF Next

(* On a terminal that has a line for every task, every task has one that   *)
(* starts with it and, unless it has more than a line, holds all of it     *)
(* (view.cpp:63-73), for texts of every length and tables of every size.   *)
THEOREM LinesForAll == Spec => []EveryTaskHasALine
<1>1. Init => LinesOK
  BY DEF Init, LinesOK, EveryTaskHasALine
<1>2. LinesOK => EveryTaskHasALine
  BY DEF LinesOK
<1>3. Init => IInv
  BY InitIInv
<1>4. IInv /\ LinesOK /\ [Next]_vars => (IInv /\ LinesOK)'
  BY NextIInv, LinesStep
<1> QED
  BY <1>1, <1>2, <1>3, <1>4, PTL DEF Spec
=============================================================================
