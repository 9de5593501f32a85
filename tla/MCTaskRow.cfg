\* Two tasks that may have the id one after the other; once the row is made
\* nothing more happens.
SPECIFICATION Spec
CONSTANTS
  Words <- MCWords
  Images <- MCImages
  Uids <- MCUids
  Known <- MCKnown
  MaxTasks = 2
  MaxBytes = 1
CHECK_DEADLOCK FALSE
INVARIANTS
  TypeOK
  
  
 
