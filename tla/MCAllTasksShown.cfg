\* Every other frame lacks the tasks of the one before.
SPECIFICATION MCSpec
CONSTANTS
  Ids = {a, b}
  NoTask = NoTask
  MaxBytes = 0
  Recycle = FALSE
  Faults = FALSE
  MinPeriod = 1
  Pauses = {2}
INVARIANTS
  AllTasksShown
