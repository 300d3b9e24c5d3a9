--------------------------- MODULE TreasuryPromise ---------------------------
(***************************************************************************)
(* What a treasury promises, with no process, attempt or provider in       *)
(* sight: money is set aside for a payout before it is paid, a payout is   *)
(* paid at most once and from its own reservation, and money that went     *)
(* back to the treasury is not paid out any more.                          *)
(***************************************************************************)
EXTENDS Integers

CONSTANTS Payouts, Amount, OpeningBalance

VARIABLES phase,  \* [Payouts -> "open", "reserved", "paid" or "closed"]
          free    \* the part of the opening balance that is not set aside

Init == /\ phase = [p \in Payouts |-> "open"]
        /\ free = OpeningBalance

Reserve(p) == /\ phase[p] = "open"
              /\ free >= Amount[p]
              /\ phase' = [phase EXCEPT ![p] = "reserved"]
              /\ free' = free - Amount[p]

Pay(p) == /\ phase[p] = "reserved"
          /\ phase' = [phase EXCEPT ![p] = "paid"]
          /\ UNCHANGED free

Return(p) == /\ phase[p] = "reserved"
             /\ phase' = [phase EXCEPT ![p] = "closed"]
             /\ free' = free + Amount[p]

Refuse(p) == /\ phase[p] = "open"
             /\ phase' = [phase EXCEPT ![p] = "closed"]
             /\ UNCHANGED free

Next == \E p \in Payouts : Reserve(p) \/ Pay(p) \/ Return(p) \/ Refuse(p)

Spec == Init /\ [][Next]_<<phase, free>>
=============================================================================
