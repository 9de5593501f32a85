\* One row too many is printed, onto the last line.
SPECIFICATION Spec
CONSTANTS
  Tasks = {t1, t2}
  Header = Header
  Blank = Blank
  Height = 3
  Width = 2
  Lengths = {1}
SYMMETRY Symmetry
INVARIANTS
  OneTaskPerLine
