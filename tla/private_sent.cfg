\* A repository that becomes private while a review of it waits for an
\* executor.
CONSTANTS
  None = None
  n1 = n1  usual = usual  near = near  far = far  q1 = q1  q2 = q2  a1 = a1
  AIInputs = {n1}
  AIPolicies = {usual}
  AIRules <- UsualRules
  DefaultAIPolicy = usual
  AIProviders = {near, far}
  AIExternal = {far}
  AITries <- OneOrTwo
  AIRequests = {q1, q2}
  AIWorkers = {a1}
  AIDailyLimit = 1
  MaxAIReviews = 1
  MaxAIFaults = 1
  MaxAIDays = 1
  k1 = k1  k2 = k2  u1 = u1  e1 = e1  e2 = e2  b1 = b1  b2 = b2
  Events = {k1, k2}
  Recipients = {u1}
  Channels = {"email"}
  Disabled = {}
  Emitters = {e1, e2}
  Beats = {b1, b2}
  MaxAttempts = 2
  MaxLostBatches = 1
  pr1 = pr1  d1 = d1  d2 = d2  x1 = x1  x2 = x2  w1 = w1  w2 = w2
  PullRequests = {pr1}
  Deliveries = {d1, d2}
  Dispatchers = {x1, x2}
  Workers = {w1, w2}
  Oversized = {}
  MaxRetries = 1
  Faults = {"crash", "broker", "github"}
  MaxVersions = 1
  MaxMishaps = 2
SPECIFICATION FairJobs
PROPERTIES PrivateNeverSent
CHECK_DEADLOCK FALSE
