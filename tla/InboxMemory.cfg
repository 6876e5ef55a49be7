\* One sweeper, its state file, crashes and shifted listings.
SPECIFICATION Spec
CONSTANTS
  Thread = {t1, t2}
  Sweeper = {p1}
  InScope = {t1, t2}
  Supported = {t1, t2}
  Batch = 2
  Limit = 1
  Reserve = 0
  Remember = TRUE
  Cost = 0
  Silent = FALSE
  MaxBudget = 1
  MaxActivity = 2
  MaxFaults = 1
SYMMETRY Symmetry
INVARIANTS TypeOK SkippedIsCleared MemorySound UnsubscribedFirst ExitHonest ClearedOnce
