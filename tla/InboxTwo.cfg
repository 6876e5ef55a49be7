\* Two sweepers share the account and the state file.
SPECIFICATION Spec
CONSTANTS
  Thread = {t1}
  Sweeper = {p1, p2}
  InScope = {t1}
  Supported = {t1}
  Batch = 1
  Limit = 1
  Reserve = 0
  Remember = TRUE
  Cost = 0
  Silent = FALSE
  MaxBudget = 1
  MaxActivity = 2
  MaxFaults = 1
PROPERTY KeepsPromise
