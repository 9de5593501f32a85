\* Command lines of no, one and two words.
SPECIFICATION Spec
CONSTANTS
  Words <- MCWords
  Images <- MCImages
  Uids <- MCUids
  Known <- MCKnown
  MaxTasks = 2
  MaxBytes = 1
CHECK_DEADLOCK FALSE
INVARIANT FullCmdlineIsComplete
