CONSTANTS
  None = None
  p1 = p1  i1 = i1  i2 = i2  h1 = h1
  author = author  approver = approver
  only = only  r1 = r1  c1 = c1  c2 = c2  b1 = b1  funded = funded
  PullRequests = {p1}
  Inputs = {i1, i2}
  Policies = {only}
  Users = {author, approver}
  Sessions = {r1}
  HeadOf <- OneHead
  Scorable = {i1, i2}
  Limited = {}
  Rules <- OneRule
  DefaultPolicy = only
  Author <- OneAuthor
  MaxDecisions = 3
  Bounty = {b1}
  Clerks = {c1}
  BountyPolicies = {funded}
  BountyRules <- DefaultRules
  DefaultBountyPolicy = funded
SPECIFICATION ApprovedSpec
INVARIANT PriorPayoutExcludes
CHECK_DEADLOCK FALSE
