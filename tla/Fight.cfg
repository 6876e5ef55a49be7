CONSTANTS
  Repo <- MCRepo
  File <- MCFile
  GithubOwned <- MCGithubOwned
  Slug <- MCSlug
  Context <- MCContext
  LicenceLike <- MCLicenceLike
  WellKnownLike <- MCWellKnownLike
  GateLike <- MCGateLike
  Situations <- MCSituations
  Edits <- MCEdits
SPECIFICATION Spec
INVARIANTS
  ReportIsTheTree
  OnlyARaceLosesAnEdit
  EveryEscalationIsClosed
  ChecksAreAnswered
