\* Repeated fair runs clear every finished thread.
SPECIFICATION FairSpec
CONSTANTS
  Thread = {t1, t2}
  Sweeper = {p1}
  InScope = {t1, t2}
  Supported = {t1, t2}
  Batch = 2
  Limit = 1
  Reserve = 0
  Remember = TRUE
  Cost = 0
  Silent = FALSE
  MaxBudget = 1
  MaxActivity = 1
  MaxFaults = 1
PROPERTY FinishedLeaves
