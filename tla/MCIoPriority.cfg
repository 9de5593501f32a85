\* The nice values at the ends, around 0 and at -1, which is also an error.
\* After the call nothing more happens.
SPECIFICATION Spec
CONSTANTS
  Levels = {0, 4, 7}
  Nices <- MCNices
INVARIANTS
  TypeOK
  ShownIsLegal
  
CHECK_DEADLOCK FALSE
