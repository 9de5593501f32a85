\* Rates are over the lifetime of a task.
SPECIFICATION MCSpec
CONSTANTS
  Ids = {a}
  NoTask = NoTask
  MaxBytes = 2
  Recycle = FALSE
  Faults = FALSE
  MinPeriod = 1
  Pauses = {2}
INVARIANTS
  RateOfThePeriod
