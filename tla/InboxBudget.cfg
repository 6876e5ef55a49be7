\* The REST budget runs down; one thread is out of scope, one of another kind.
SPECIFICATION Spec
CONSTANTS
  Thread = {t1, t2, t3, t4}
  Sweeper = {p1}
  InScope = {t1, t2, t3}
  Supported = {t1, t2, t4}
  Batch = 2
  Limit = 3
  Reserve = 3
  Remember = FALSE
  Cost = 1
  Silent = TRUE
  MaxBudget = 5
  MaxActivity = 1
  MaxFaults = 0
INVARIANT OverrunBounded
PROPERTY OnlyFinishedLeave
