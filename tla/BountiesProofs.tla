--------------------------- MODULE BountiesProofs ---------------------------
(***************************************************************************)
(* Theorems about Bounties, composed with Eligibility, for any number of   *)
(* bounties, requests, users and decisions.  Every request acts on copies, *)
(* so the invariant says which of a copy's contents the tables still agree *)
(* with: what a copy once showed as won, verified, published, claimed or   *)
(* assigned.                                                               *)
(***************************************************************************)
EXTENDS Bounties, EligibilityProofs

TablesTyped ==
  /\ terms \in BountyPolicies \cup {None}
  /\ issue \in {"none", "open", "closed"}
  /\ bounty \in [Bounty -> BountyRow]
  /\ assigned \in [Bounty -> Assignment \cup {None}]
  /\ wallet \in [Users -> WalletState]
  /\ claim \in [Bounty -> ClaimRow \cup {None}]
  /\ payout \in [Bounty -> {"none", "created", "confirmed"}]
DesksTyped == desk \in [Clerks -> View \cup {Idle}]

(* What a request has loaded and later changes leave true.                 *)
StillTrue(v) ==
  /\ \A d \in v.eligible : d \in DOMAIN decision /\ Won(d)
  /\ \A u \in Users : v.wallet[u] = "verified" => wallet[u] = "verified"
  /\ \A b \in Bounty :
       /\ v.bounty[b].status # "none" =>
            /\ bounty[b].status # "none"
            /\ bounty[b].terms = v.bounty[b].terms
            /\ bounty[b].policy = v.bounty[b].policy
       /\ v.claim[b] # None => claim[b] # None
       /\ v.assigned[b] # None /\ claim[b] = None =>
            assigned[b] # None /\ assigned[b].user = v.assigned[b].user
DesksTrue == \A c \in Clerks : desk[c] # Idle => StillTrue(desk[c])

(* A claim and its support, which nothing takes away.                      *)
Supported(b) == /\ Backed(b) /\ Won(claim[b].decision)
                /\ bounty[b].status # "none"
ClaimsSupported == \A b \in Bounty : claim[b] # None => Supported(b)
PayoutsClaimed == \A b \in Bounty : payout[b] # "none" => claim[b] # None

(* Until a bounty is claimed its assignment stays and is its assignee's.   *)
Linked ==
  \A b \in Bounty : claim[b] = None =>
    /\ bounty[b].status = "assigned" => assigned[b] # None
    /\ assigned[b] # None /\ assigned[b].pr # None =>
         Author[assigned[b].pr] = assigned[b].user

DecisionsInv == EarnedInv /\ OneCurrentInv
TablesInv == TablesTyped /\ Linked /\ PayoutsClaimed
BountiesInv ==
  DecisionsInv /\ TablesInv /\ DesksTyped /\ DesksTrue /\ ClaimsSupported

-----------------------------------------------------------------------------
(* What a step may do to the tables that claims rest on. *)
Onward ==
  /\ \A u \in Users : wallet[u] = "verified" => wallet'[u] = "verified"
  /\ \A b \in Bounty :
       /\ bounty[b].status # "none" =>
            /\ bounty'[b].status # "none"
            /\ bounty'[b].terms = bounty[b].terms
            /\ bounty'[b].policy = bounty[b].policy
       /\ claim[b] # None => claim'[b] \in {claim[b], [claim[b] EXCEPT !.status = "paid"]}
       /\ assigned[b] # None /\ claim'[b] = None =>
            assigned'[b] # None /\ assigned'[b].user = assigned[b].user

(* A claim that is new was supported when it was made.                     *)
NewClaims ==
  \A b \in Bounty : claim[b] = None /\ claim'[b] # None =>
    /\ claim'[b].decision \in DOMAIN decision
    /\ Won(claim'[b].decision)
    /\ decision[claim'[b].decision].pr = claim'[b].pr
    /\ decision[claim'[b].decision].policy = bounty'[b].policy
    /\ decision[claim'[b].decision].approved # {}
    /\ Author[claim'[b].pr] = claim'[b].user
    /\ bounty'[b].status # "none"
    /\ BountyRules[bounty'[b].terms].require_verified_wallet =>
         wallet'[claim'[b].user] = "verified"

(* What a handler of the bounties leaves of the decisions.                 *)
DecisionsUntouched ==
  /\ UNCHANGED <<scored, decision, session>>
  /\ policy' \in Policies \cup {None}
  /\ pr' \in [PullRequests -> PullRequestRow]
  /\ \A p \in PullRequests : pr'[p].state = "eligible" => pr[p].state = "eligible"

TablesStep == TablesInv' /\ Onward /\ NewClaims

-----------------------------------------------------------------------------
(* Copies and rows *)

(* A request at work has loaded rows of their types.                       *)
LEMMA LoadedViews ==
  ASSUME DesksTyped, NEW c \in Clerks, desk[c] # Idle
  PROVE  /\ desk[c] \in View
         /\ TermsFor(c) \in BountyPolicies
         /\ (IF desk[c].policy = None THEN DefaultPolicy ELSE desk[c].policy) \in Policies
PROOF
<1>1. desk[c] \in View
  BY DEF DesksTyped
<1>2. /\ desk[c].terms \in BountyPolicies \cup {None}
      /\ desk[c].policy \in Policies \cup {None}
  BY <1>1 DEF View
<1> QED BY <1>1, <1>2, BountyAssumption, EligibilityAssumption DEF TermsFor

(* A request that answers goes back to having nothing loaded.              *)
LEMMA AnsweredDesk ==
  ASSUME DesksTyped, NEW c \in Clerks, Answers(c)
  PROVE  /\ desk[c] # Idle /\ DesksTyped'
         /\ \A o \in Clerks : desk'[o] # Idle => desk'[o] = desk[o]
PROOF
BY DEF Answers, DesksTyped

(* Whatever leaves the bounties alone keeps what is said about them.       *)
LEMMA TablesKept ==
  ASSUME TablesInv, UNCHANGED <<bounty, assigned, wallet, claim, payout>>,
         terms' \in BountyPolicies \cup {None}, issue' \in {"none", "open", "closed"}
  PROVE  TablesStep
PROOF
<1>1. TablesTyped' /\ Linked' /\ PayoutsClaimed'
  BY DEF TablesInv, TablesTyped, Linked, PayoutsClaimed
<1> QED BY <1>1 DEF TablesStep, TablesInv, Onward, NewClaims

(* Handlers that do not touch the decisions.                               *)
LEMMA DecisionsLeft ==
  ASSUME TypeInv, UNCHANGED eligibilityVars
  PROVE  DecisionsUntouched
PROOF
BY DEF TypeInv, EligibilityTypeOK, eligibilityVars, DecisionsUntouched

(* What the decisions' own invariant asks of a handler of the bounties.    *)
LEMMA UntouchedSteps ==
  ASSUME TypeInv, DecisionsUntouched
  PROVE  TypeInv' /\ DecisionStep /\ StateStep
PROOF
<1>1. EligibilityTypeOK'
  BY DEF TypeInv, EligibilityTypeOK, DecisionsUntouched
<1>2. SessionsKnow'
  BY DEF TypeInv, SessionsKnow, DecisionsUntouched
<1>3. StateStep
  BY DEF StateStep, DecisionsUntouched
<1>4. DecisionStep
  BY KeptDecisions DEF DecisionsUntouched
<1> QED BY <1>1, <1>2, <1>3, <1>4 DEF TypeInv

-----------------------------------------------------------------------------
(* The handlers *)

(* Policies and issues.                                                    *)
LEMMA PolicyAndIssueSteps ==
  ASSUME TypeInv, TablesInv, DesksTyped, NEW c \in Clerks, desk[c] # Idle,
         \/ \E t \in BountyPolicies : SetBountyPolicy(c, t)
         \/ GetBountyPolicy(c)
         \/ \E state \in {"open", "closed"} : CreateIssue(c, state)
  PROVE  TablesStep /\ DecisionsUntouched
PROOF
<1>1. TermsFor(c) \in BountyPolicies
  BY LoadedViews
<1>2. terms \in BountyPolicies \cup {None} /\ issue \in {"none", "open", "closed"}
  BY DEF TablesInv, TablesTyped
<1>3. CASE \E t \in BountyPolicies : SetBountyPolicy(c, t)
  <2>1. /\ UNCHANGED <<eligibilityVars, issue, bounty, assigned, wallet, claim, payout>>
        /\ terms' \in BountyPolicies \cup {None}
    BY <1>2, <1>3 DEF SetBountyPolicy, Written
  <2> QED BY <1>2, <2>1, TablesKept, DecisionsLeft
<1>4. CASE GetBountyPolicy(c)
  <2>1. /\ UNCHANGED <<eligibilityVars, issue, bounty, assigned, wallet, claim, payout>>
        /\ terms' \in BountyPolicies \cup {None}
    BY <1>1, <1>2, <1>4 DEF GetBountyPolicy, Written
  <2> QED BY <1>2, <2>1, TablesKept, DecisionsLeft
<1>5. CASE \E state \in {"open", "closed"} : CreateIssue(c, state)
  <2>1. /\ UNCHANGED <<eligibilityVars, terms, bounty, assigned, wallet, claim, payout>>
        /\ issue' \in {"none", "open", "closed"}
    BY <1>2, <1>5 DEF CreateIssue, Written
  <2> QED BY <1>2, <2>1, TablesKept, DecisionsLeft
<1> QED BY <1>3, <1>4, <1>5

(* Publishing a bounty records the policies it will be claimed under.      *)
LEMMA CreateBountyStep ==
  ASSUME TypeInv, TablesInv, DesksTyped, NEW c \in Clerks, desk[c] # Idle,
         NEW b \in Bounty, CreateBounty(c, b)
  PROVE  TablesStep /\ DecisionsUntouched
PROOF
<1> DEFINE pol == IF desk[c].policy = None THEN DefaultPolicy ELSE desk[c].policy
<1>1. TermsFor(c) \in BountyPolicies /\ pol \in Policies
  BY LoadedViews
<1>2. /\ bounty[b].status = "none"
      /\ bounty' = [bounty EXCEPT ![b].status = "draft", ![b].policy = pol,
                                  ![b].terms = TermsFor(c)]
      /\ terms' = Written(terms, desk[c].terms, TermsFor(c))
      /\ policy' = Written(policy, desk[c].policy, pol)
      /\ UNCHANGED <<pr, scored, decision, session>>
      /\ UNCHANGED <<issue, assigned, wallet, claim, payout>>
  BY DEF CreateBounty
<1> HIDE DEF pol
<1>3. bounty \in [Bounty -> BountyRow]
  BY DEF TablesInv, TablesTyped
<1>4. /\ bounty' \in [Bounty -> BountyRow]
      /\ bounty'[b].status = "draft"
      /\ \A o \in Bounty : o # b => bounty'[o] = bounty[o]
  <2>1. [bounty[b] EXCEPT !.status = "draft", !.policy = pol, !.terms = TermsFor(c)]
          \in BountyRow
    BY <1>1, <1>3 DEF BountyRow, BountyStatus
  <2>2. bounty' = [bounty EXCEPT ![b] =
          [bounty[b] EXCEPT !.status = "draft", !.policy = pol, !.terms = TermsFor(c)]]
    BY <1>2
  <2>3. bounty[b] \in BountyRow
    BY <1>3
  <2> QED BY <1>3, <2>1, <2>2, <2>3 DEF BountyRow
<1>5. terms' \in BountyPolicies \cup {None}
  BY <1>1, <1>2 DEF Written, TablesInv, TablesTyped
<1>6. TablesTyped' /\ Linked' /\ PayoutsClaimed'
  BY <1>2, <1>4, <1>5 DEF TablesInv, TablesTyped, Linked, PayoutsClaimed
<1>7. Onward /\ NewClaims
  BY <1>2, <1>4 DEF Onward, NewClaims
<1>8. DecisionsUntouched
  BY <1>1, <1>2 DEF DecisionsUntouched, Written, TypeInv, EligibilityTypeOK
<1> QED BY <1>6, <1>7, <1>8 DEF TablesStep, TablesInv

(* Funding a bounty, and its time running out.                             *)
LEMMA FundingSteps ==
  ASSUME TypeInv, TablesInv, NEW b \in Bounty,
         \/ \E c \in Clerks : MarkBountyFunded(c, b)
         \/ Expire(b)
  PROVE  TablesStep /\ DecisionsUntouched
PROOF
<1>1. bounty \in [Bounty -> BountyRow]
  BY DEF TablesInv, TablesTyped
<1>2. UNCHANGED <<eligibilityVars, terms, issue, assigned, wallet, claim, payout>>
  BY DEF MarkBountyFunded, Expire
<1>3. /\ bounty' \in [Bounty -> BountyRow]
      /\ \A o \in Bounty : /\ bounty'[o].terms = bounty[o].terms
                           /\ bounty'[o].policy = bounty[o].policy
                           /\ bounty[o].status # "none" => bounty'[o].status # "none"
                           /\ bounty'[o].status \in {bounty[o].status, "open"}
  <2>1. CASE \E c \in Clerks : MarkBountyFunded(c, b)
    <3>1. bounty' = [bounty EXCEPT ![b] =
            [bounty[b] EXCEPT !.status = "open", !.funding = "funded"]]
      BY <2>1 DEF MarkBountyFunded
    <3>2. [bounty[b] EXCEPT !.status = "open", !.funding = "funded"] \in BountyRow
      BY <1>1 DEF BountyRow, BountyStatus, FundingStatus
    <3> QED BY <1>1, <3>1, <3>2 DEF BountyRow
  <2>2. CASE Expire(b)
    BY <1>1, <2>2 DEF Expire, BountyRow
  <2> QED BY <2>1, <2>2
<1>4. TablesTyped' /\ Linked' /\ PayoutsClaimed'
  BY <1>2, <1>3 DEF TablesInv, TablesTyped, Linked, PayoutsClaimed
<1>5. Onward /\ NewClaims
  BY <1>2, <1>3 DEF Onward, NewClaims
<1> QED BY <1>2, <1>4, <1>5, DecisionsLeft DEF TablesStep, TablesInv

(* An assignment is only made where there is none.                         *)
LEMMA AssignStep ==
  ASSUME TypeInv, TablesInv, NEW c \in Clerks, desk[c] # Idle, StillTrue(desk[c]),
         NEW b \in Bounty, NEW u \in Users, NEW p \in PullRequests \cup {None},
         AssignBounty(c, b, u, p)
  PROVE  TablesStep /\ DecisionsUntouched
PROOF
<1> DEFINE row == [user |-> u, pr |-> p]
<1>1. /\ desk[c].bounty[b].status = "open" /\ assigned[b] = None
      /\ OwnWork(u, p)
      /\ assigned' = [assigned EXCEPT ![b] = row]
      /\ bounty' = [bounty EXCEPT ![b] = [bounty[b] EXCEPT !.status = "assigned"]]
      /\ UNCHANGED <<eligibilityVars, terms, issue, wallet, claim, payout>>
  BY DEF AssignBounty
<1>2. bounty[b].status # "none"
  BY <1>1 DEF StillTrue
<1>3. bounty \in [Bounty -> BountyRow] /\ assigned \in [Bounty -> Assignment \cup {None}]
  BY DEF TablesInv, TablesTyped
<1>4. row \in Assignment /\ row.user = u /\ row.pr = p
  BY DEF Assignment
<1> HIDE DEF row
<1>5. [bounty[b] EXCEPT !.status = "assigned"] \in BountyRow
  BY <1>3 DEF BountyRow, BountyStatus
<1>6. /\ bounty' \in [Bounty -> BountyRow]
      /\ assigned' \in [Bounty -> Assignment \cup {None}]
  BY <1>1, <1>3, <1>4, <1>5
<1>7. p # None => Author[p] = u
  BY <1>1 DEF OwnWork
<1>8. row # None
  BY <1>4, NullAssumption
<1>9. TablesTyped' /\ Linked' /\ PayoutsClaimed'
  <2>1. TablesTyped' /\ PayoutsClaimed'
    BY <1>1, <1>6 DEF TablesInv, TablesTyped, PayoutsClaimed
  <2>2. Linked'
    BY <1>1, <1>3, <1>4, <1>7, <1>8 DEF TablesInv, Linked, OwnWork
  <2> QED BY <2>1, <2>2
<1>10. Onward /\ NewClaims
  <2>1. \A o \in Bounty :
          /\ bounty[o].status # "none" => bounty'[o].status # "none"
          /\ bounty'[o].terms = bounty[o].terms /\ bounty'[o].policy = bounty[o].policy
    BY <1>1, <1>3 DEF BountyRow
  <2> QED BY <1>1, <1>3, <2>1 DEF Onward, NewClaims
<1> QED BY <1>1, <1>9, <1>10, DecisionsLeft DEF TablesStep, TablesInv

(* Linking a pull request: the assignee loaded is the assignee, as long as *)
(* nobody claimed the bounty.                                              *)
LEMMA LinkStep ==
  ASSUME TypeInv, TablesInv, DesksTyped, NEW c \in Clerks, desk[c] # Idle,
         StillTrue(desk[c]), NEW b \in Bounty, NEW p \in PullRequests,
         LinkAssignment(c, b, p)
  PROVE  TablesStep /\ DecisionsUntouched
PROOF
<1> DEFINE link == Written(assigned[b].pr, desk[c].assigned[b].pr, p)
<1>1. /\ desk[c].assigned[b] # None /\ assigned[b] # None
      /\ OwnWork(desk[c].assigned[b].user, p)
      /\ assigned' = [assigned EXCEPT ![b] = [assigned[b] EXCEPT !.pr = link]]
      /\ UNCHANGED <<eligibilityVars, terms, issue, bounty, wallet, claim, payout>>
  BY DEF LinkAssignment
<1>2. /\ link \in {assigned[b].pr, p}
      /\ claim[b] = None => assigned[b].user = desk[c].assigned[b].user
  BY <1>1 DEF Written, StillTrue
<1> HIDE DEF link
<1>3. p # None
  BY EligibilityAssumption
<1>4. assigned \in [Bounty -> Assignment \cup {None}]
  BY DEF TablesInv, TablesTyped
<1>5. assigned[b] \in Assignment
  BY <1>1, <1>4
<1>6. /\ [assigned[b] EXCEPT !.pr = link] \in Assignment
      /\ [assigned[b] EXCEPT !.pr = link].user = assigned[b].user
      /\ [assigned[b] EXCEPT !.pr = link].pr = link
  BY <1>2, <1>5 DEF Assignment
<1>7. [assigned[b] EXCEPT !.pr = link] # None
  BY <1>6, NullAssumption
<1>8. TablesTyped' /\ PayoutsClaimed'
  BY <1>1, <1>4, <1>6 DEF TablesInv, TablesTyped, PayoutsClaimed
<1>9. Linked'
  <2> SUFFICES ASSUME NEW o \in Bounty, claim'[o] = None
               PROVE  /\ bounty'[o].status = "assigned" => assigned'[o] # None
                      /\ assigned'[o] # None /\ assigned'[o].pr # None =>
                           Author[assigned'[o].pr] = assigned'[o].user
    BY DEF Linked
  <2>1. CASE o = b
    BY <1>1, <1>2, <1>3, <1>4, <1>6, <1>7, <2>1 DEF TablesInv, Linked, OwnWork
  <2>2. CASE o # b
    BY <1>1, <1>4, <2>2 DEF TablesInv, Linked
  <2> QED BY <2>1, <2>2
<1>10. Onward /\ NewClaims
  BY <1>1, <1>4, <1>6, <1>7 DEF Onward, NewClaims
<1> QED BY <1>1, <1>8, <1>9, <1>10, DecisionsLeft DEF TablesStep, TablesInv

(* A wallet never loses its verification.                                  *)
LEMMA WalletSteps ==
  ASSUME TypeInv, TablesInv, NEW c \in Clerks, NEW u \in Users,
         CreateWallet(c, u) \/ \E b \in Bounty : VerifyWalletForBounty(c, b, u)
  PROVE  TablesStep /\ DecisionsUntouched
PROOF
<1>1. /\ UNCHANGED <<eligibilityVars, terms, issue, bounty, assigned, claim, payout>>
      /\ \/ wallet[u] = "none" /\ wallet' = [wallet EXCEPT ![u] = "unverified"]
         \/ wallet' = [wallet EXCEPT ![u] = "verified"]
  BY DEF CreateWallet, VerifyWalletForBounty
<1>2. wallet \in [Users -> WalletState]
  BY DEF TablesInv, TablesTyped
<1>3. /\ wallet' \in [Users -> WalletState]
      /\ \A o \in Users : wallet[o] = "verified" => wallet'[o] = "verified"
  BY <1>1, <1>2 DEF WalletState
<1>4. TablesTyped' /\ Linked' /\ PayoutsClaimed'
  BY <1>1, <1>3 DEF TablesInv, TablesTyped, Linked, PayoutsClaimed
<1>5. Onward /\ NewClaims
  BY <1>1, <1>3 DEF Onward, NewClaims
<1> QED BY <1>1, <1>4, <1>5, DecisionsLeft DEF TablesStep, TablesInv

(* A claim is checked on copies; what it needs of them is still true.      *)
LEMMA ClaimStep ==
  ASSUME TypeInv, TablesInv, DesksTyped, NEW c \in Clerks, desk[c] # Idle,
         StillTrue(desk[c]), NEW b \in Bounty, NEW u \in Users,
         NEW p \in PullRequests, NEW d \in DOMAIN decision,
         ApproveClaim(c, b, u, p, d)
  PROVE  TablesStep /\ DecisionsUntouched
PROOF
<1> DEFINE row == [pr |-> p, decision |-> d, user |-> u, status |-> "approved"]
           v == desk[c]
<1>1. /\ Claimable(v, b, u, p, d) /\ claim[b] = None
      /\ claim' = [claim EXCEPT ![b] = row]
      /\ assigned' = [assigned EXCEPT ![b] = None]
      /\ bounty' = [bounty EXCEPT ![b] = [bounty[b] EXCEPT !.status = "closed"]]
      /\ UNCHANGED <<eligibilityVars, terms, issue, wallet, payout>>
  BY DEF ApproveClaim, Unclaimed
<1>2. /\ v.bounty[b].status = "assigned" /\ Author[p] = u /\ d \in v.eligible
      /\ decision[d].pr = p /\ decision[d].policy = v.bounty[b].policy
      /\ decision[d].approved # {}
      /\ BountyRules[v.bounty[b].terms].require_verified_wallet =>
           v.wallet[u] = "verified"
  BY <1>1 DEF Claimable
<1>3. /\ bounty[b].status # "none" /\ Won(d)
      /\ bounty[b].terms = v.bounty[b].terms /\ bounty[b].policy = v.bounty[b].policy
      /\ v.wallet[u] = "verified" => wallet[u] = "verified"
  BY <1>2 DEF StillTrue
<1>4. row \in ClaimRow /\ row # None
  <2>1. d \in Nat
    BY DecisionRows
  <2>2. row \in ClaimRow
    BY <2>1 DEF ClaimRow
  <2> QED BY <2>2, NullAssumption
<1>5. row.pr = p /\ row.decision = d /\ row.user = u
  OBVIOUS
<1> HIDE DEF row, v
<1>6. /\ bounty \in [Bounty -> BountyRow]
      /\ assigned \in [Bounty -> Assignment \cup {None}]
      /\ claim \in [Bounty -> ClaimRow \cup {None}]
  BY DEF TablesInv, TablesTyped
<1>7. /\ bounty' \in [Bounty -> BountyRow]
      /\ bounty'[b].status = "closed"
      /\ bounty'[b].terms = bounty[b].terms /\ bounty'[b].policy = bounty[b].policy
      /\ \A o \in Bounty : o # b => bounty'[o] = bounty[o]
  <2>1. bounty[b] \in BountyRow
    BY <1>6
  <2>2. [bounty[b] EXCEPT !.status = "closed"] \in BountyRow
    BY <2>1 DEF BountyRow, BountyStatus
  <2> QED BY <1>1, <1>6, <2>1, <2>2 DEF BountyRow
<1>8. /\ claim'[b] = row /\ assigned'[b] = None
      /\ \A o \in Bounty : o # b => claim'[o] = claim[o] /\ assigned'[o] = assigned[o]
  BY <1>1, <1>6
<1>9. TablesTyped' /\ PayoutsClaimed'
  BY <1>1, <1>4, <1>6, <1>7, <1>8 DEF TablesInv, TablesTyped, PayoutsClaimed
<1>10. Linked'
  BY <1>4, <1>7, <1>8 DEF TablesInv, Linked
<1>11. Onward
  BY <1>1, <1>3, <1>4, <1>7, <1>8 DEF Onward
<1>12. NewClaims
  <2> SUFFICES ASSUME NEW o \in Bounty, claim[o] = None, claim'[o] # None
               PROVE  /\ claim'[o].decision \in DOMAIN decision
                      /\ Won(claim'[o].decision)
                      /\ decision[claim'[o].decision].pr = claim'[o].pr
                      /\ decision[claim'[o].decision].policy = bounty'[o].policy
                      /\ decision[claim'[o].decision].approved # {}
                      /\ Author[claim'[o].pr] = claim'[o].user
                      /\ bounty'[o].status # "none"
                      /\ BountyRules[bounty'[o].terms].require_verified_wallet =>
                           wallet'[claim'[o].user] = "verified"
    BY DEF NewClaims
  <2>1. o = b
    BY <1>8
  <2> QED BY <1>1, <1>2, <1>3, <1>5, <1>7, <1>8, <2>1
<1> QED BY <1>1, <1>9, <1>10, <1>11, <1>12, DecisionsLeft DEF TablesStep, TablesInv

(* A payout is made for a claim, and its confirmation marks it as paid.    *)
LEMMA PayoutStep ==
  ASSUME TypeInv, TablesInv, NEW c \in Clerks, desk[c] # Idle,
         StillTrue(desk[c]), NEW b \in Bounty, CreatePayout(c, b)
  PROVE  TablesStep /\ DecisionsUntouched
PROOF
<1>1. /\ desk[c].claim[b] # None
      /\ payout' = [payout EXCEPT ![b] = "created"]
      /\ UNCHANGED <<eligibilityVars, terms, issue, bounty, assigned, wallet, claim>>
  BY DEF CreatePayout
<1>2. claim[b] # None
  BY <1>1 DEF StillTrue
<1>3. TablesTyped' /\ Linked'
  BY <1>1 DEF TablesInv, TablesTyped, Linked
<1>4. PayoutsClaimed'
  BY <1>1, <1>2 DEF TablesInv, TablesTyped, PayoutsClaimed
<1>5. Onward /\ NewClaims
  BY <1>1 DEF Onward, NewClaims
<1> QED BY <1>1, <1>3, <1>4, <1>5, DecisionsLeft DEF TablesStep, TablesInv

(* A confirmed payout, see PayoutStep.                                     *)
LEMMA ConfirmStep ==
  ASSUME TypeInv, TablesInv, ClaimsSupported, NEW b \in Bounty, ConfirmPayout(b)
  PROVE  TablesStep /\ DecisionsUntouched
PROOF
<1> DEFINE row == [claim[b] EXCEPT !.status = "paid"]
           paid == [bounty[b] EXCEPT !.status = "paid", !.funding = "exhausted"]
<1>1. /\ payout[b] = "created"
      /\ payout' = [payout EXCEPT ![b] = "confirmed"]
      /\ claim' = [claim EXCEPT ![b] = row]
      /\ bounty' = [bounty EXCEPT ![b] = paid]
      /\ pr' = [pr EXCEPT ![claim[b].pr].state = "paid"]
      /\ UNCHANGED <<policy, scored, decision, session>>
      /\ UNCHANGED <<terms, issue, assigned, wallet, desk>>
  BY DEF ConfirmPayout, Paid
<1>2. /\ bounty \in [Bounty -> BountyRow]
      /\ claim \in [Bounty -> ClaimRow \cup {None}]
      /\ payout \in [Bounty -> {"none", "created", "confirmed"}]
  BY DEF TablesInv, TablesTyped
<1>3. claim[b] # None /\ claim[b] \in ClaimRow /\ bounty[b].status # "none"
  BY <1>1, <1>2 DEF TablesInv, PayoutsClaimed, ClaimsSupported, Supported
<1>4. row \in ClaimRow /\ row # None /\ claim[b].pr \in PullRequests
  <2>1. row \in ClaimRow /\ claim[b].pr \in PullRequests
    BY <1>3 DEF ClaimRow
  <2> QED BY <2>1, NullAssumption
<1>5. /\ paid \in BountyRow /\ paid.status = "paid"
      /\ paid.terms = bounty[b].terms /\ paid.policy = bounty[b].policy
  BY <1>2 DEF BountyRow, BountyStatus, FundingStatus
<1> HIDE DEF paid, row
<1>6. /\ claim'[b] = row /\ bounty'[b] = paid /\ payout'[b] = "confirmed"
      /\ \A o \in Bounty : o # b => /\ claim'[o] = claim[o] /\ bounty'[o] = bounty[o]
                                    /\ payout'[o] = payout[o]
  BY <1>1, <1>2
<1>7. TablesTyped'
  BY <1>1, <1>2, <1>4, <1>5 DEF TablesInv, TablesTyped
<1>8. PayoutsClaimed' /\ Linked'
  BY <1>1, <1>4, <1>5, <1>6 DEF TablesInv, PayoutsClaimed, Linked
<1>9. Onward
  BY <1>1, <1>3, <1>4, <1>5, <1>6 DEF Onward, row
<1>10. NewClaims
  BY <1>3, <1>6 DEF NewClaims
<1>11. DecisionsUntouched
  <2>1. "paid" \in EligibilityState /\ "paid" # "eligible"
    BY DEF EligibilityState
  <2>2. /\ pr' \in [PullRequests -> PullRequestRow]
        /\ pr'[claim[b].pr].state = "paid"
        /\ \A o \in PullRequests \ {claim[b].pr} : pr'[o] = pr[o]
    BY <1>1, <1>4, <2>1, StateWritten
  <2>3. \A o \in PullRequests : pr'[o].state = "eligible" => pr[o].state = "eligible"
    BY <2>1, <2>2
  <2> QED BY <1>1, <2>2, <2>3 DEF DecisionsUntouched, TypeInv, EligibilityTypeOK
<1> QED BY <1>7, <1>8, <1>9, <1>10, <1>11 DEF TablesStep, TablesInv

-----------------------------------------------------------------------------
(* All steps *)

(* Any handler that answers.                                               *)
LEMMA AnswerStep ==
  ASSUME TypeInv, TablesInv, DesksTyped, DesksTrue, NEW c \in Clerks,
         ClerkStep(c), ~Receive(c), ~Refuse(c)
  PROVE  TablesStep /\ DecisionsUntouched /\ Answers(c)
PROOF
<1>1. ASSUME desk[c] # Idle PROVE StillTrue(desk[c])
  BY <1>1 DEF DesksTrue
<1>2. CASE GetBountyPolicy(c) \/ \E t \in BountyPolicies : PutBountyPolicy(c, t)
  <2>1. Answers(c) /\ desk[c] # Idle
    BY <1>2 DEF GetBountyPolicy, PutBountyPolicy, Answers
  <2>2. GetBountyPolicy(c) \/ \E t \in BountyPolicies : SetBountyPolicy(c, t)
    BY <1>2 DEF PutBountyPolicy
  <2> QED BY <2>1, <2>2, PolicyAndIssueSteps
<1>3. CASE \E state \in {"open", "closed"} : PostIssue(c, state)
  <2>1. Answers(c) /\ desk[c] # Idle
    BY <1>3 DEF PostIssue, Answers
  <2>2. \E state \in {"open", "closed"} : CreateIssue(c, state)
    BY <1>3 DEF PostIssue
  <2> QED BY <2>1, <2>2, PolicyAndIssueSteps
<1>4. CASE \E u \in Users : PostWallet(c, u) \/ \E b \in Bounty : VerifyWallet(c, b, u)
  <2>1. Answers(c)
    BY <1>4 DEF PostWallet, VerifyWallet
  <2>2. \E u \in Users : CreateWallet(c, u) \/ \E b \in Bounty : VerifyWalletForBounty(c, b, u)
    BY <1>4 DEF PostWallet, VerifyWallet
  <2> QED BY <2>1, <2>2, WalletSteps
<1>5. ASSUME NEW b \in Bounty, PostBounty(c, b) \/ FundBounty(c, b) \/ PostPayout(c, b)
      PROVE  TablesStep /\ DecisionsUntouched /\ Answers(c)
  <2>1. Answers(c) /\ desk[c] # Idle
    BY <1>5 DEF PostBounty, FundBounty, PostPayout, Answers
  <2>2. CreateBounty(c, b) \/ MarkBountyFunded(c, b) \/ CreatePayout(c, b)
    BY <1>5 DEF PostBounty, FundBounty, PostPayout
  <2> QED BY <1>1, <2>1, <2>2, CreateBountyStep, FundingSteps, PayoutStep
<1>6. ASSUME NEW b \in Bounty, NEW u \in Users, NEW p \in PullRequests \cup {None},
             PostAssignment(c, b, u, p)
      PROVE  TablesStep /\ DecisionsUntouched /\ Answers(c)
  BY <1>1, <1>6, AssignStep DEF PostAssignment, Answers
<1>7. ASSUME NEW b \in Bounty, NEW p \in PullRequests, PostAssignmentPullRequest(c, b, p)
      PROVE  TablesStep /\ DecisionsUntouched /\ Answers(c)
  BY <1>1, <1>7, LinkStep DEF PostAssignmentPullRequest, Answers
<1>8. ASSUME NEW b \in Bounty, NEW u \in Users, NEW p \in PullRequests,
             NEW d \in DOMAIN decision, PostClaim(c, b, u, p, d)
      PROVE  TablesStep /\ DecisionsUntouched /\ Answers(c)
  BY <1>1, <1>8, ClaimStep DEF PostClaim, Answers
<1> QED BY <1>2, <1>3, <1>4, <1>5, <1>6, <1>7, <1>8 DEF ClerkStep

(* What is still true stays true, whatever another step does.              *)
LEMMA TruthKept ==
  ASSUME TypeInv, TypeInv', DecisionStep, Onward, TablesTyped, TablesTyped',
         NEW v, StillTrue(v)
  PROVE  /\ \A d \in v.eligible : d \in DOMAIN decision' /\ Won(d)'
         /\ \A u \in Users : v.wallet[u] = "verified" => wallet'[u] = "verified"
         /\ \A b \in Bounty :
              /\ v.bounty[b].status # "none" =>
                   /\ bounty'[b].status # "none"
                   /\ bounty'[b].terms = v.bounty[b].terms
                   /\ bounty'[b].policy = v.bounty[b].policy
              /\ v.claim[b] # None => claim'[b] # None
              /\ v.assigned[b] # None /\ claim'[b] = None =>
                   assigned'[b] # None /\ assigned'[b].user = v.assigned[b].user
PROOF
<1>1. \A d \in v.eligible : d \in DOMAIN decision' /\ Won(d)'
  BY WonStays DEF StillTrue
<1>2. \A u \in Users : v.wallet[u] = "verified" => wallet'[u] = "verified"
  BY DEF StillTrue, Onward
<1>3. \A b \in Bounty : v.bounty[b].status # "none" =>
        /\ bounty'[b].status # "none"
        /\ bounty'[b].terms = v.bounty[b].terms
        /\ bounty'[b].policy = v.bounty[b].policy
  BY DEF StillTrue, Onward
<1>4. \A b \in Bounty : claim[b] # None => claim'[b] # None
  <2> SUFFICES ASSUME NEW b \in Bounty, claim[b] # None PROVE claim'[b] # None
    OBVIOUS
  <2>1. claim[b] \in ClaimRow
    BY DEF TablesTyped
  <2>2. [claim[b] EXCEPT !.status = "paid"] \in ClaimRow
    BY <2>1 DEF ClaimRow
  <2> QED BY <2>2, NullAssumption DEF Onward
<1>5. \A b \in Bounty : v.claim[b] # None => claim'[b] # None
  BY <1>4 DEF StillTrue
<1>6. \A b \in Bounty : v.assigned[b] # None /\ claim'[b] = None =>
        assigned'[b] # None /\ assigned'[b].user = v.assigned[b].user
  BY <1>4 DEF StillTrue, Onward
<1> QED BY <1>1, <1>2, <1>3, <1>5, <1>6

(* So are the desks where nothing new was loaded.                          *)
LEMMA DesksKept ==
  ASSUME TypeInv, TypeInv', DecisionStep, TablesInv, TablesStep, DesksTrue,
         \A c \in Clerks : desk'[c] # Idle => desk'[c] = desk[c]
  PROVE  DesksTrue'
PROOF
<1>1. TablesTyped /\ TablesTyped' /\ Onward
  BY DEF TablesInv, TablesStep
<1> SUFFICES ASSUME NEW c \in Clerks, desk'[c] # Idle PROVE StillTrue(desk[c])'
  BY DEF DesksTrue
<1> DEFINE v == desk[c]
<1>2. desk'[c] = v /\ StillTrue(v)
  BY DEF DesksTrue
<1> HIDE DEF v
<1> QED BY <1>1, <1>2, TruthKept DEF StillTrue

(* What a request has just loaded is true.                                 *)
LEMMA ReceivedTrue ==
  ASSUME BountiesInv, NEW c \in Clerks, Receive(c)
  PROVE  DesksTyped' /\ DesksTrue'
PROOF
<1> DEFINE v == [terms |-> terms, issue |-> issue, policy |-> policy, bounty |-> bounty,
        assigned |-> assigned, wallet |-> wallet, claim |-> claim,
        merged |-> {p \in PullRequests : pr[p].merged},
        eligible |-> {d \in DOMAIN decision : decision[d].status = "eligible"},
        current |-> {d \in DOMAIN decision : decision[d].current}]
<1>1. /\ desk' = [desk EXCEPT ![c] = v]
      /\ UNCHANGED <<eligibilityVars, bountyVars>>
  BY DEF Receive
<1>2. TypeInv /\ QuorumInv /\ TablesTyped /\ DesksTyped /\ DesksTrue
  BY DEF BountiesInv, DecisionsInv, TablesInv, EarnedInv, QuorumInv
<1>3. v \in View
  <2>1. DOMAIN decision \subseteq Nat
    BY <1>2, DecisionRows
  <2>2. policy \in Policies \cup {None}
    BY <1>2 DEF TypeInv, EligibilityTypeOK
  <2> QED BY <1>2, <2>1, <2>2 DEF View, TablesTyped
<1>4. v.eligible = {d \in DOMAIN decision : decision[d].status = "eligible"}
      /\ v.wallet = wallet /\ v.bounty = bounty /\ v.claim = claim /\ v.assigned = assigned
  OBVIOUS
<1> HIDE DEF v
<1>5. \A d \in v.eligible : d \in DOMAIN decision /\ Won(d)
  BY <1>2, <1>4 DEF QuorumInv, Won, ByQuorum, Sound, Respected
<1>6. StillTrue(v)
  BY <1>4, <1>5 DEF StillTrue
<1>7. DesksTyped'
  BY <1>1, <1>2, <1>3 DEF DesksTyped
<1>8. ASSUME NEW o \in Clerks, desk'[o] # Idle PROVE StillTrue(desk'[o])
  BY <1>1, <1>2, <1>6, <1>8 DEF DesksTyped, DesksTrue
<1>9. UNCHANGED <<policy, decision, bounty, assigned, wallet, claim>>
  BY <1>1 DEF eligibilityVars, bountyVars
<1>10. DesksTrue'
  <2> SUFFICES ASSUME NEW o \in Clerks, desk'[o] # Idle PROVE StillTrue(desk[o])'
    BY DEF DesksTrue
  <2>1. StillTrue(desk'[o])
    BY <1>8
  <2>2. \A d \in DOMAIN decision : Won(d) => Won(d)'
    BY <1>9 DEF Won, ByQuorum, Failing
  <2> QED BY <1>9, <2>1, <2>2 DEF StillTrue
<1> QED BY <1>7, <1>10

(* Whatever the bounties do not do.                                        *)
LEMMA StillTables ==
  ASSUME TablesInv, UNCHANGED bountyVars
  PROVE  TablesStep
PROOF
<1>1. UNCHANGED <<terms, issue, bounty, assigned, wallet, claim, payout>>
  BY DEF bountyVars
<1>2. terms' \in BountyPolicies \cup {None} /\ issue' \in {"none", "open", "closed"}
  BY <1>1 DEF TablesInv, TablesTyped
<1> QED BY <1>1, <1>2, TablesKept

(* Every step treats the tables and the decisions as above.                *)
LEMMA BountiesStep ==
  ASSUME BountiesInv, [BountiesNext]_allVars
  PROVE  /\ TypeInv' /\ DecisionStep /\ StateStep
         /\ TablesStep /\ DesksTyped' /\ DesksTrue'
PROOF
<1>1. TypeInv /\ TablesInv /\ DesksTyped /\ DesksTrue /\ ClaimsSupported
  BY DEF BountiesInv, DecisionsInv, EarnedInv, QuorumInv
<1>2. CASE [EligibilityNext]_eligibilityVars /\ UNCHANGED <<bountyVars, desk>>
  <2>1. TypeInv' /\ DecisionStep /\ StateStep
    BY <1>1, <1>2, TypeStep
  <2>2. TablesStep /\ UNCHANGED desk
    BY <1>1, <1>2, StillTables
  <2>3. DesksTyped'
    BY <1>1, <2>2 DEF DesksTyped
  <2> QED BY <1>1, <2>1, <2>2, <2>3, DesksKept
<1>3. ASSUME NEW c \in Clerks, Receive(c) \/ Refuse(c)
      PROVE  /\ TypeInv' /\ DecisionStep /\ StateStep
             /\ TablesStep /\ DesksTyped' /\ DesksTrue'
  <2>1. UNCHANGED <<eligibilityVars, bountyVars>>
    BY <1>3 DEF Receive, Refuse
  <2>2. TypeInv' /\ DecisionStep /\ StateStep
    BY <1>1, <2>1, DecisionsLeft, UntouchedSteps
  <2>3. TablesStep
    BY <1>1, <2>1, StillTables
  <2>4. CASE Receive(c)
    BY <2>2, <2>3, <2>4, ReceivedTrue
  <2>5. CASE Refuse(c)
    <3>1. DesksTyped' /\ \A o \in Clerks : desk'[o] # Idle => desk'[o] = desk[o]
      BY <1>1, <2>5 DEF Refuse, DesksTyped
    <3> QED BY <1>1, <2>2, <2>3, <3>1, DesksKept
  <2> QED BY <1>3, <2>4, <2>5
<1>4. ASSUME NEW c \in Clerks, ClerkStep(c), ~Receive(c), ~Refuse(c)
      PROVE  /\ TypeInv' /\ DecisionStep /\ StateStep
             /\ TablesStep /\ DesksTyped' /\ DesksTrue'
  <2>1. TablesStep /\ DecisionsUntouched /\ Answers(c)
    BY <1>1, <1>4, AnswerStep
  <2>2. TypeInv' /\ DecisionStep /\ StateStep
    BY <1>1, <2>1, UntouchedSteps
  <2>3. DesksTyped' /\ \A o \in Clerks : desk'[o] # Idle => desk'[o] = desk[o]
    BY <1>1, <2>1, AnsweredDesk
  <2> QED BY <1>1, <2>1, <2>2, <2>3, DesksKept
<1>5. ASSUME NEW b \in Bounty, Expire(b) \/ ConfirmPayout(b)
      PROVE  /\ TypeInv' /\ DecisionStep /\ StateStep
             /\ TablesStep /\ DesksTyped' /\ DesksTrue'
  <2>1. TablesStep /\ DecisionsUntouched
    BY <1>1, <1>5, FundingSteps, ConfirmStep
  <2>2. UNCHANGED desk
    BY <1>5 DEF Expire, ConfirmPayout
  <2>3. TypeInv' /\ DecisionStep /\ StateStep
    BY <1>1, <2>1, UntouchedSteps
  <2>4. DesksTyped'
    BY <1>1, <2>2 DEF DesksTyped
  <2> QED BY <1>1, <2>1, <2>2, <2>3, <2>4, DesksKept
<1>6. CASE UNCHANGED allVars
  BY <1>2, <1>6 DEF allVars
<1>7. CASE BountiesNext
  BY <1>2, <1>3, <1>4, <1>5, <1>7 DEF BountiesNext
<1> QED BY <1>6, <1>7

(* A claim keeps its support, and a new one has it.                        *)
LEMMA SupportStep ==
  ASSUME TypeInv, TypeInv', DecisionStep, TablesInv, TablesStep, ClaimsSupported
  PROVE  ClaimsSupported'
PROOF
<1> SUFFICES ASSUME NEW b \in Bounty, claim'[b] # None PROVE Supported(b)'
  BY DEF ClaimsSupported
<1>0. PICK row \in ClaimRow : claim'[b] = row
  BY DEF TablesStep, TablesInv, TablesTyped
<1>1. Onward /\ NewClaims /\ TablesTyped
  BY DEF TablesStep, TablesInv
<1>2. /\ row.decision \in DOMAIN decision /\ Won(row.decision)
      /\ decision[row.decision].pr = row.pr
      /\ decision[row.decision].policy = bounty'[b].policy
      /\ decision[row.decision].approved # {}
      /\ Author[row.pr] = row.user /\ bounty'[b].status # "none"
      /\ BountyRules[bounty'[b].terms].require_verified_wallet =>
           wallet'[row.user] = "verified"
  <2>1. CASE claim[b] = None
    BY <1>0, <1>1, <2>1 DEF NewClaims
  <2>2. CASE claim[b] # None
    <3>1. Supported(b) /\ claim[b] \in ClaimRow
      BY <1>1, <2>2 DEF ClaimsSupported, TablesTyped
    <3>2. /\ row.decision = claim[b].decision /\ row.pr = claim[b].pr
          /\ row.user = claim[b].user
      BY <1>0, <1>1, <2>2, <3>1 DEF Onward, ClaimRow
    <3>3. row.user \in Users
      BY <1>1 DEF ClaimRow
    <3>4. /\ bounty'[b].status # "none" /\ bounty'[b].terms = bounty[b].terms
          /\ bounty'[b].policy = bounty[b].policy
          /\ wallet[row.user] = "verified" => wallet'[row.user] = "verified"
      BY <1>1, <3>1, <3>3 DEF Onward, Supported
    <3> QED BY <3>1, <3>2, <3>4 DEF Supported, Backed
  <2> QED BY <2>1, <2>2
<1>3. /\ row.decision \in DOMAIN decision' /\ Won(row.decision)'
      /\ decision'[row.decision].pr = decision[row.decision].pr
      /\ decision'[row.decision].policy = decision[row.decision].policy
      /\ decision'[row.decision].approved = decision[row.decision].approved
  BY <1>2, WonStays
<1> QED BY <1>0, <1>2, <1>3 DEF Supported, Backed, Won

(* Whatever was decided, no bounty has a claim before there is one.        *)
LEMMA NoBountiesYet ==
  ASSUME DecisionsInv, NoBounties
  PROVE  BountiesInv
PROOF
<1>1. TablesTyped
  BY DEF NoBounties, TablesTyped, BountyRow, BountyStatus, FundingStatus, WalletState
<1>2. Linked /\ PayoutsClaimed /\ ClaimsSupported
  BY DEF NoBounties, Linked, PayoutsClaimed, ClaimsSupported
<1>3. DesksTyped /\ DesksTrue
  BY DEF NoBounties, DesksTyped, DesksTrue
<1> QED BY <1>1, <1>2, <1>3 DEF BountiesInv, TablesInv

(* The invariant of the composition.                                       *)
LEMMA BountiesInductive ==
  /\ BountiesInit => BountiesInv
  /\ BountiesInv /\ [BountiesNext]_allVars => BountiesInv'
PROOF
<1>1. ASSUME BountiesInit PROVE BountiesInv
  <2>1. TypeInv /\ decision = <<>> /\ \A p \in PullRequests : pr[p].state # "eligible"
    BY <1>1, TypeInit DEF BountiesInit, EligibilityInit
  <2>2. DecisionsInv
    BY <2>1 DEF DecisionsInv, EarnedInv, QuorumInv, OneCurrentInv
  <2>3. NoBounties
    BY <1>1 DEF BountiesInit
  <2> QED BY <2>2, <2>3, NoBountiesYet
<1>2. ASSUME BountiesInv, [BountiesNext]_allVars PROVE BountiesInv'
  <2>1. /\ TypeInv' /\ DecisionStep /\ StateStep
        /\ TablesStep /\ DesksTyped' /\ DesksTrue'
    BY <1>2, BountiesStep
  <2>2. EarnedInv' /\ OneCurrentInv'
    BY <1>2, <2>1, EarnedKept, OneCurrentKept DEF BountiesInv, DecisionsInv
  <2>3. ClaimsSupported'
    BY <1>2, <2>1, SupportStep DEF BountiesInv, DecisionsInv, OneCurrentInv
  <2> QED BY <2>1, <2>2, <2>3 DEF BountiesInv, DecisionsInv, TablesStep
<1> QED BY <1>1, <1>2

(* The type invariant of the composition.                                  *)
THEOREM BountiesTyped == BountiesSpec => []BountiesTypeOK
PROOF
<1>1. BountiesInv => BountiesTypeOK
  BY DEF BountiesInv, DecisionsInv, OneCurrentInv, TypeInv, TablesInv, TablesTyped,
         DesksTyped, BountiesTypeOK
<1> QED BY <1>1, BountiesInductive, PTL DEF BountiesSpec

(* What the invariant says of decisions, claims and assignments.           *)
LEMMA BountiesPromises ==
  BountiesInv => /\ EligibleByQuorum /\ EligibleStateEarned /\ OneCurrentDecision
                 /\ ClaimsBacked /\ AssignedClaimable
PROOF
<1>1. BountiesInv => EligibleByQuorum
  BY DEF BountiesInv, DecisionsInv, EarnedInv, QuorumInv, EligibleByQuorum, ByQuorum,
         Sound, Respected
<1>2. BountiesInv => EligibleStateEarned
  BY DEF BountiesInv, DecisionsInv, EarnedInv, EligibleStateEarned, Won
<1>3. BountiesInv => OneCurrentDecision
  BY OneCurrentCounted DEF BountiesInv, DecisionsInv
<1>4. BountiesInv => ClaimsBacked
  BY DEF BountiesInv, ClaimsSupported, Supported, ClaimsBacked
<1>5. BountiesInv => AssignedClaimable
  BY DEF BountiesInv, TablesInv, Linked, AssignedClaimable
<1> QED BY <1>1, <1>2, <1>3, <1>4, <1>5

(* Every payable claim is backed by a decision that reached its quorum     *)
(* under the bounty's policy, by its author and by a verified wallet,      *)
(* however stale the copies it was approved on.                            *)
THEOREM EveryClaimBacked == BountiesSpec => []ClaimsBacked
PROOF
BY BountiesPromises, BountiesInductive, PTL DEF BountiesSpec

(* A bounty that is assigned and not claimed has an assignment that its    *)
(* assignee can claim on.                                                  *)
THEOREM AssignedStaysClaimable == BountiesSpec => []AssignedClaimable
PROOF
BY BountiesPromises, BountiesInductive, PTL DEF BountiesSpec

(* A claim is never replaced or rewritten but to be marked as paid.        *)
THEOREM ClaimsStayFixed == BountiesSpec => ClaimsFixed
PROOF
<1>1. BountiesInv /\ [BountiesNext]_allVars =>
        [\A b \in Bounty : claim[b] # None =>
           claim'[b] \in {claim[b], [claim[b] EXCEPT !.status = "paid"]}]_allVars
  BY BountiesStep DEF TablesStep, Onward
<1> QED BY <1>1, BountiesInductive, PTL DEF BountiesSpec, ClaimsFixed

(* Composed with bounties, claims and payouts, which write the policy and  *)
(* the state of pull requests too, the decisions keep their guarantees.    *)
THEOREM DecisionsKeptWithBounties ==
  BountiesSpec => [](EligibleByQuorum /\ EligibleStateEarned /\ OneCurrentDecision)
PROOF
BY BountiesPromises, BountiesInductive, PTL DEF BountiesSpec

(* Neither the bounties nor claims and payouts reopen a decision.          *)
LEMMA FrozenWithBounties ==
  BountiesInv /\ [BountiesNext]_allVars =>
    [\A d \in DOMAIN decision :
       /\ ~decision[d].current => decision'[d] = decision[d]
       /\ decision[d].status \in {"eligible", "ineligible"} =>
            /\ Votes(decision'[d]) = Votes(decision[d])
            /\ decision'[d].status \in {decision[d].status, "superseded"}
    ]_eligibilityVars
PROOF
BY BountiesStep, ClosedRows
DEF BountiesInv, DecisionsInv, EarnedInv, QuorumInv

(* Composed with bounties, closed decisions stay closed.                   *)
THEOREM ClosedFrozenWithBounties == BountiesSpec => ClosedDecisionsFrozen
PROOF
BY FrozenWithBounties, BountiesInductive, PTL DEF BountiesSpec, ClosedDecisionsFrozen

(* A claimed or paid pull request becomes eligible only when a decision    *)
(* that was already pending gets its last approval, and one whose          *)
(* evaluation saw neither a claim nor a payout (evaluate_eligibility's     *)
(* prior payout).  The run prior_payout shows that this does happen.       *)
EligibleAgain(p) ==
  pr[p].state \in {"claimed", "paid"} /\ pr'[p].state = "eligible" =>
    \E d \in DOMAIN decision :
      /\ decision[d].pr = p /\ decision[d].status = "pending_approval"
      /\ ~decision[d].checks.prior
      /\ d \in DOMAIN decision' /\ decision'[d].status = "eligible"
PaidAgainByPendingOnly == [][\A p \in PullRequests : EligibleAgain(p)]_allVars

(* No decision whose evaluation saw the payout brings a pull request back. *)
THEOREM SeenPayoutExcludes == BountiesSpec => PaidAgainByPendingOnly
PROOF
<1>1. BountiesInv /\ [BountiesNext]_allVars =>
        [\A p \in PullRequests : EligibleAgain(p)]_allVars
  <2> SUFFICES ASSUME BountiesInv, [BountiesNext]_allVars, NEW p \in PullRequests,
                      pr[p].state \in {"claimed", "paid"}, pr'[p].state = "eligible"
               PROVE  \E d \in DOMAIN decision :
                        /\ decision[d].pr = p /\ decision[d].status = "pending_approval"
                        /\ ~decision[d].checks.prior
                        /\ d \in DOMAIN decision' /\ decision'[d].status = "eligible"
    BY DEF EligibleAgain
  <2>1. PICK d \in DOMAIN decision :
          /\ decision[d].pr = p /\ d \in DOMAIN decision'
          /\ decision[d].status = "pending_approval" /\ decision'[d].status = "eligible"
    BY BountiesStep DEF StateStep
  <2>2. Sound(decision[d])
    BY DEF BountiesInv, DecisionsInv, EarnedInv, QuorumInv
  <2>3. ~decision[d].checks.prior
    BY <2>1, <2>2 DEF Sound, Open, Respected, Failing
  <2> QED BY <2>1, <2>3
<1> QED BY <1>1, BountiesInductive, PTL DEF BountiesSpec, PaidAgainByPendingOnly
=============================================================================
