CONSTANTS
  None = None
  p1 = p1  p2 = p2
  c = c  u1 = u1  u2 = u2  u3 = u3
  k1 = k1  k2 = k2
  s1 = s1  s2 = s2  w = w
  Payouts = {p1}
  Users = {c, u1}
  Keys = {k1}
  Servers = {s1}
  Workers = {w}
  Amount <- EqualAmounts
  Claimant <- OneClaimant
  KeysFor <- OwnKey
  OpeningBalance = 2
  PayoutLimit = 3
  DailyLimit = 2
  HighValue = 3
  StandardQuorum = 1
  HighQuorum = 2
  MaxRecoveries = 2
  Faults = {"timeout"}
  MaxDays = 0
SPECIFICATION Spec
PROPERTY TerminalAttemptsImmutable
