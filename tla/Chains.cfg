\* Every graph on four checkouts, and consumers whose upstreams are followed
\* while GitHub changes and calls fail.
CONSTANTS
  Repo = {1, 2, 3, 4}
  File = {1, 2}
  Account = {"near", "far"}
  OwnerOf <- Owners
  NoOwner = "none"
  Batch = 1
  Trees <- Pushed
  Scenarios <- SmallScenarios
SPECIFICATION Spec
INVARIANTS
  AnalysisExact
  NothingHidden
  FindingsHaveGround
  BlamesWhatIsCalled
