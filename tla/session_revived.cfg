\* The sessions of one user: overlapping logouts and a login between them.
CONSTANTS
  None = None
  p1 = p1  i1 = i1  i2 = i2  h1 = h1  h2 = h2
  strict = strict  light = light
  author = author  ann = ann  bob = bob
  PullRequests = {p1}
  Inputs = {i1, i2}
  Policies = {strict, light}
  Users = {author, ann, bob}
  Sessions = {}
  HeadOf <- OneHeadEach
  Scorable = {i1}
  Limited = {i2}
  Rules <- StrictAndLight
  DefaultPolicy = strict
  Author <- OneAuthor
  MaxDecisions = 1
  r1 = r1  r2 = r2  b1 = b1  c1 = c1  c2 = c2  funded = funded
  Bounty = {}
  Clerks = {}
  BountyPolicies = {funded}
  BountyRules <- DefaultRules
  DefaultBountyPolicy = funded
  q1 = q1  q2 = q2  q3 = q3
  Calls = {}
  Hosts = {c1, c2}
  RequestLimit = 1
  MaxWindows = 1
  m1 = m1  m2 = m2
  Members = {m1, m2}
  Views <- AdminMemberStranger
  AskedRoles = {"admin", "reviewer"}
  Desks = {r1, r2}
  MaxVersion = 2
  MaxGitHubChanges = 0
SPECIFICATION RequestsSpec
PROPERTIES EndedSessionsStayEnded
CHECK_DEADLOCK FALSE
