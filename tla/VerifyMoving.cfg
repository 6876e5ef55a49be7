\* Three connections of up to three pages and the two reads of the base branch,
\* with two changes of anything in between.
CONSTANTS
  Context <- Contexts
  ReviewApp <- Bots
  Within <- Names
  PageSize = 1
  Attributes <- Moving
  Reviewers <- Nobody
  Runs <- SomeRuns
  Rollups <- Two
  CommitLists <- SomeSigned
  ThreadLists <- SomeThreads
  Rulesets <- BothRules
  Protections <- AllClassic
  MaxRuns = 3
  MaxThreads = 4
  MaxChanges = 2
  MaxPages = 3
  ReviewPage = 2
SPECIFICATION Spec
INVARIANTS
  QuietVerdictExact
  NoThreadMissed
  NoRedMissed
  DoneIsNotLimbo
  NeverPartial
