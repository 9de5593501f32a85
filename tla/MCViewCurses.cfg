\* Texts that go on in the next line or the next but one; the last line is
\* reached with tasks to spare.
SPECIFICATION Spec
CONSTANTS
  Tasks = {t1, t2, t3, t4}
  Header = Header
  Blank = Blank
  Height = 4
  Width = 2
  Lengths = {1, 3, 5}
SYMMETRY Symmetry
INVARIANTS
  TypeOK
  NothingStale
  EveryTaskHasALine
