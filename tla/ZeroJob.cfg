\* Two runs of one workflow at two revisions; two changes of anything and one
\* failed read.
CONSTANTS
  Repo = {1, 2, 3, 4}
  File = {1, 2}
  GithubOwned = {4}
  Rev = {1, 2}
  TreeOf <- Trees
  LockOf <- Locks
  Run = {1, 2}
  Verified = {1}
  Owned = {1, 2, 3}
  Policies <- SomePolicies
  Situations <- SmallStarts
SPECIFICATION Spec
INVARIANTS
  MovesHaveGround
  CandidatesStay
  LockBlamesItsSource
  CausesAreComplete
