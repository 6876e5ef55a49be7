\* A board of two owners, with a change of anything while it is read.
CONSTANTS
  Owned <- TwoOwners
  Number = {1, 2}
  Context <- Checks
  Attributes <- Some
  Gates <- Both
  FirstGates <- OneUngated
  FirstRepos <- AllOrLess
  FirstPrs <- Start
  Heavy = {1}
  ListPage = 1
  Attempts = 2
  Batch = 3
  PrPage = 1
  FirstCap = 2
  MaxBody = 3
  MaxChanges = 2
  MaxFaults = 1
SPECIFICATION FairSpec
INVARIANTS
  NothingDropped
  QuietBoardExact
  OnlyTheHeavyFail
  QueriesBounded
  PublishedAsSent
PROPERTIES
  RunEnds
