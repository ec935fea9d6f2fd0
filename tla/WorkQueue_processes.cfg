\* Two items, one of which may defer on the other; the daemon, an operator and a
\* `tissue reconcile' process interleave.
SPECIFICATION Spec
CONSTANTS
  a = a  b = b  c = c  i = i  r1 = r1  r2 = r2
  WorkItems = {a, b}
  Issues = {}
  Repos = {r1}
  RepoOf <- OneRepo
  Rank <- MCRank
  GlobalLimit = 1
  RepoLimit <- MCRepoLimit
  ClaimWindow = 2
  AutoMerge = {}
  MayConclude <- OnlyCompleted
  MayDependOn <- OnlyBOnA
  Daemon = daemon
  Operators = {op}
  Reconcilers = {rec}
  None = None
  MaxFaults = 0
INVARIANTS CapacityRespected CompletedMeansMerged
PROPERTIES MovesFollowTheTable ReleasedOnlyByMerge RefinesSlots
CHECK_DEADLOCK FALSE
