\* One delivery and no faults at all: a worker is quicker than the commit of
\* the dispatcher that published its message.
CONSTANTS
  None = None
  pr1 = pr1
  d1 = d1  d2 = d2
  x1 = x1  x2 = x2
  w1 = w1  w2 = w2
  PullRequests = {pr1}
  Deliveries = {d1}
  Dispatchers = {x1}
  Workers = {w1, w2}
  Oversized <- ThirdTooLarge
  MaxRetries = 0
  Faults = {}
  MaxVersions = 2
  MaxMishaps = 0
SPECIFICATION Spec
PROPERTIES CompletedStaysCompleted
CHECK_DEADLOCK FALSE
