\* Two deliveries of one pull request in any order, with one retry each, and
\* two crashes or failed requests at any point.  The model stops when its
\* deliveries are used up.  Scoring: four heads, two checks, a tool, and two
\* synchronizations around two pushes, reports or changes of policy.
CONSTANTS
  None = None
  pr1 = pr1
  d1 = d1  d2 = d2
  x1 = x1  x2 = x2
  w1 = w1  w2 = w2
  PullRequests = {pr1}
  Deliveries = {d1, d2}
  Dispatchers = {x1}
  Workers = {w1, w2}
  Oversized <- ThirdTooLarge
  MaxRetries = 1
  Faults = {"crash", "broker", "github"}
  MaxVersions = 3
  MaxMishaps = 2
  Snapshots <- FourHeads
  OverLimit <- OneOversized
  CheckRuns = {"lint", "codeql"}
  Recognized <- LintAndSecurity
  Tools = {"semgrep"}
  ToolCategory <- SecurityTool
  ScoringPolicies = {"balanced", "checks", "negative"}
  PolicyOf <- ThreeScorings
  DefaultScoring = "balanced"
  MaxMoves = 2
  MaxRuns = 2
  Diffs <- RenamesAndPages
  PageSize = 2
  FileLimit = 4
  MaxPushes = 3
SPECIFICATION DeliveriesSpec
SYMMETRY WorkerSymmetry
INVARIANTS TypeOK ScoringTypeOK NoDeliveryStranded FilesAsNewAsHead
INVARIANTS FilesTypeOK StoredAsListed RefusedOnlyIfMixed
INVARIANTS WithinEvidence MissingLowersConfidence ChecksMoveScore LatestOfHead
PROPERTIES SnapshotsNeverRegress
CHECK_DEADLOCK FALSE
