------------------------------ MODULE MCPayouts ------------------------------
(* Small instances of Payouts for TLC. *)
EXTENDS Payouts, TLC

CONSTANTS p1, p2, u1, u2, u3, c, k1, k2, s1, s2, w

EqualAmounts == [p \in Payouts |-> 2]
MixedAmounts == [p \in Payouts |-> IF p = p1 THEN 2 ELSE 3]
KeySymmetry == Permutations(Keys)
OneClaimant  == [p \in Payouts |-> c]
AnyKey       == [p \in Payouts |-> Keys]
OwnKey       == [p \in Payouts |-> IF p = p1 THEN {k1} ELSE {k2}]
=============================================================================
