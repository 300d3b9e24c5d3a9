\* AI reviews: one review, one worker, two providers of which the external
\* one has two models, one slot a day and provider, a crash; asked for twice,
\* or once with a midnight and changes of the provider and the visibility.
\* Notifications: two events and two dispatchers, one lost batch, two attempts.
\* Deliveries: two, the second a resync of the first or a push of its own, with
\* two dispatchers and two workers, so that a message can be published twice
\* and processed by two workers, and two crashes or failed requests.  The
\* bounds end all of them.
CONSTANTS
  None = None
  n1 = n1  usual = usual  near = near  far = far  q1 = q1  q2 = q2  a1 = a1
  AIInputs = {n1}
  AIPolicies = {usual}
  AIRules <- UsualRules
  DefaultAIPolicy = usual
  AIProviders = {near, far}
  AIExternal = {far}
  AITries <- OneOrTwo
  AIRequests = {q1, q2}
  AIWorkers = {a1}
  AIDailyLimit = 1
  MaxAIReviews = 1
  MaxAIFaults = 1
  MaxAIDays = 1
  k1 = k1  k2 = k2  u1 = u1  e1 = e1  e2 = e2  b1 = b1  b2 = b2
  Events = {k1, k2}
  Recipients = {u1}
  Channels = {"email"}
  Disabled = {}
  Emitters = {e1, e2}
  Beats = {b1, b2}
  MaxAttempts = 2
  MaxLostBatches = 1
  pr1 = pr1  d1 = d1  d2 = d2  x1 = x1  x2 = x2  w1 = w1  w2 = w2
  PullRequests = {pr1}
  Deliveries = {d1, d2}
  Dispatchers = {x1, x2}
  Workers = {w1, w2}
  Oversized = {}
  MaxRetries = 1
  Faults = {"crash", "broker", "github"}
  MaxVersions = 1
  MaxMishaps = 2
SPECIFICATION FairJobs
INVARIANTS JobsTypeOK OneExecutionAtATime PrivacyKept DailyLimitKept MailAccountedFor
PROPERTIES OutcomesFinal ReviewsEnd NotificationsEnd DeliveriesTakeEffect
CHECK_DEADLOCK FALSE
