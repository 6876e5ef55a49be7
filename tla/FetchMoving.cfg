\* Two changes of the rollup or of the base branch, during runs or between.
CONSTANTS
  Context <- Contexts
  ReviewApp = {}
  Within <- Names
  PageSize = 100
  Attributes <- ThePr
  Reviewers <- Nobody
  Runs <- SomeRuns
  Rollups <- TwoRuns
  CommitLists <- Signed
  ThreadLists <- NoThreads
  Rulesets <- AnyRuleset
  Protections <- AnyProtection
  MaxRuns = 3
  MaxThreads = 0
  MaxChanges = 2
SPECIFICATION Spec
INVARIANTS
  QuietGateExact
  ProbeExplainsRed
  RedIsNeverGreen
  NoGateIsReal
