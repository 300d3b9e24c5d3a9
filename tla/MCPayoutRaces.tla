---------------------------- MODULE MCPayoutRaces ----------------------------
(* Payouts with overlapping requests, for TLC.  What runs at one time is     *)
(* either votes on the two payouts, or the submissions of the first payout   *)
(* after the second was rejected.                                            *)
EXTENDS MCPayouts

Voting(q) == proc[q] # Idle => proc[q].op \in {"approve", "reject"}
OnlyVotes == /\ \A q \in Processes : Voting(q)
             /\ \A k \in Keys : attempt[k] = NoAttempt

(* One server and one administrator bring the first payout to its           *)
(* submission, within one day and without a pause; another has rejected     *)
(* the second.  What was the second server is then the worker, which holds  *)
(* the row it works on.                                                     *)
OneSubmitter ==
  /\ day = 0 /\ active /\ (proc[s2] # Idle => lock[p1] = s2)
  /\ rejected = [p \in Payouts |-> IF p = p2 THEN {u2} ELSE {}]
  /\ approved[p1] \subseteq {u1} /\ approved[p2] = {}
  /\ \A q \in Processes : proc[q] # Idle => proc[q].payout = p1 /\ proc[q].user \notin {c, u2}

VotesOrTransfers == OnlyVotes \/ OneSubmitter
=============================================================================
