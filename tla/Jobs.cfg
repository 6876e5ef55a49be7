\* Jobs of up to six steps, with and without a directive, read at any moment.
CONSTANTS
  StepName = {"setup", "checkout", "token", "scan", "stub", "post"}
  SetupJob = "setup"
  PostJob = {"post"}
  Programs <- SomePrograms
  Directives <- SomeDirectives
  Manifests <- SomeManifests
SPECIFICATION Spec
INVARIANTS
  PhaseIsTrue
  GreenIsJudged
