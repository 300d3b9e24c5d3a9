\* Votes: two payouts, one of them above the manual threshold, three users of
\* whom one is the claimant, two servers, a midnight; the balance and the day
\* suffice for one of the payouts.  Transfers: one payout, a server and the
\* worker, two idempotency keys, crashes and lost answers.
CONSTANTS
  None = None
  p1 = p1  p2 = p2
  c = c  u1 = u1  u2 = u2  u3 = u3
  k1 = k1  k2 = k2
  s1 = s1  s2 = s2  w = w
  Payouts = {p1, p2}
  Users = {c, u1, u2}
  Keys = {k1, k2}
  Servers = {s1, s2}
  Workers = {s2}
  Amount <- MixedAmounts
  Claimant <- OneClaimant
  KeysFor <- AnyKey
  OpeningBalance = 4
  PayoutLimit = 3
  DailyLimit = 4
  HighValue = 3
  StandardQuorum = 1
  HighQuorum = 2
  MaxRecoveries = 2
  Faults = {"crash", "timeout"}
  MaxDays = 1
SPECIFICATION Spec
CONSTRAINT VotesOrTransfers
INVARIANTS TypeOK AvailableNeverNegative ReservedByQuorum
INVARIANTS PaidWasTransferred TransferredOnReservation
SYMMETRY KeySymmetry
