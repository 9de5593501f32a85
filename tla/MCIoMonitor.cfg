\* Ids that are freed and reused at any moment, queries and directory reads
\* that fail, counters up to two, and pauses that may be too short for a rate.
SPECIFICATION Spec
CONSTANTS
  Ids = {a, b}
  NoTask = NoTask
  MaxBytes = 2
  Recycle = TRUE
  Faults = TRUE
  MinPeriod = 1
  Pauses = {0, 2}
SYMMETRY Symmetry
INVARIANTS
  TypeOK
  FreshRows
  
  RateNeedsTime
  HeaderCoversRows
  HeaderMatchesRows
PROPERTIES
  ImplementsReport
