CONSTANTS
  Repo <- MCRepo
  File <- MCFile
  GithubOwned <- MCGithubOwned
  Slug <- MCSlug
  Context <- MCContext
  LicenceLike <- MCLicenceLike
  WellKnownLike <- MCWellKnownLike
  GateLike <- MCGateLike
  Situations <- MCLocalSituations
  Edits <- MCEdits
SPECIFICATION Spec
INVARIANT UpstreamIsARepository
