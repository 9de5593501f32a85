\* Liveness, and the inductive invariant where nothing fails, so that no task
\* may be forgotten.  No symmetry, because of the liveness.
SPECIFICATION FairSpec
CONSTANTS
  Ids = {a, b}
  NoTask = NoTask
  MaxBytes = 1
  Recycle = TRUE
  Faults = FALSE
  MinPeriod = 1
  Pauses = {2}

  
PROPERTIES
  
  ImplementsFairReport
