\* Decisions: one pull request, a scorable input and one over the file limit,
\* two policies, an author and two others, two sessions, two decisions.
\* Bounties: one bounty around a decision already made, two clerks.  Rate
\* limit: three requests, two processes, two windows.  Sessions of one user
\* through three versions; roles of two users through a change at GitHub.
CONSTANTS
  None = None
  p1 = p1  i1 = i1  i2 = i2  h1 = h1  h2 = h2
  strict = strict  light = light
  author = author  ann = ann  bob = bob
  PullRequests = {p1}
  Inputs = {i1, i2}
  Policies = {strict, light}
  Users = {author, ann, bob}
  Sessions = {r1, r2}
  HeadOf <- OneHeadEach
  Scorable = {i1}
  Limited = {i2}
  Rules <- StrictAndLight
  DefaultPolicy = strict
  Author <- OneAuthor
  MaxDecisions = 2
  r1 = r1  r2 = r2  b1 = b1  c1 = c1  c2 = c2  funded = funded
  Bounty = {b1}
  Clerks = {c1, c2}
  BountyPolicies = {funded}
  BountyRules <- DefaultRules
  DefaultBountyPolicy = funded
  q1 = q1  q2 = q2  q3 = q3
  Calls = {q1, q2, q3}
  Hosts = {c1, c2}
  RequestLimit = 1
  MaxWindows = 1
  m1 = m1  m2 = m2
  Members = {m1, m2}
  Views <- AdminMemberStranger
  AskedRoles = {"admin", "reviewer"}
  Desks = {r1, r2}
  MaxVersion = 2
  MaxGitHubChanges = 1
SPECIFICATION RequestsSpec
SYMMETRY RequestSymmetry
INVARIANTS RequestsTypeOK EligibleByQuorum EligibleStateEarned OneCurrentDecision
INVARIANTS ClaimsBacked AssignedClaimable RateRespected AccessEndsWithGitHub
PROPERTIES ClosedDecisionsFrozen ClaimsFixed RaisedByOwners
CHECK_DEADLOCK FALSE
