------------------------------ MODULE Bounties ------------------------------
(***************************************************************************)
(* Bounties, assignments, wallets and claims (services/bounty_service.py,  *)
(* api/bounty_routes.py) on top of the eligibility decisions that claims   *)
(* rest on.  No handler here locks a row: each loads what it needs         *)
(* (Receive), checks its copies, and commits later against rows that may   *)
(* have changed.  Only the partial unique indexes see the rows themselves. *)
(***************************************************************************)
EXTENDS Eligibility

CONSTANTS
  Bounty,              \* bounties, all of one repository
  Clerks,              \* requests of api/bounty_routes.py that run at the same time
  BountyPolicies,      \* bounty_policies rows
  BountyRules,         \* [BountyPolicies -> rules]
  DefaultBountyPolicy  \* the policy a repository gets when it has none

(* validate_bounty_policy, with the bounties whose currency and amount the *)
(* policy allows in place of the limits.  require_assignment is validated  *)
(* and never read: a claim always needs an assignment.                     *)
BountyRuleSet == [allows : SUBSET Bounty, require_funding : BOOLEAN,
                  require_verified_wallet : BOOLEAN,
                  require_current_eligibility : BOOLEAN]

ASSUME BountyAssumption ==
  /\ None \notin Bounty \cup Clerks \cup BountyPolicies
  /\ BountyRules \in [BountyPolicies -> BountyRuleSet]
  /\ DefaultBountyPolicy \in BountyPolicies

VARIABLES
  terms,      \* repository.bounty_policy_id
  issue,      \* state of the issue the bounties are for
  bounty,     \* the bounties table
  assigned,   \* [Bounty -> its active assignment]
  wallet,     \* [Users -> state of the user's wallet]
  claim,      \* [Bounty -> its payable claim]
  payout,     \* [Bounty -> whether the claim has a payout, and its end]
  desk        \* what each request has loaded

bountyVars == <<terms, issue, bounty, assigned, wallet, claim, payout>>
allVars == <<eligibilityVars, bountyVars, desk>>

-----------------------------------------------------------------------------
BountyStatus == {"none", "draft", "open", "assigned", "closed", "paid"}
FundingStatus == {"unfunded", "funded", "exhausted"}
BountyRow == [status : BountyStatus, funding : FundingStatus,
              terms : BountyPolicies \cup {None},
              policy : Policies \cup {None}, expired : BOOLEAN]
Assignment == [user : Users, pr : PullRequests \cup {None}]
WalletState == {"none", "unverified", "verified"}
ClaimRow == [pr : PullRequests, decision : Nat, user : Users,
             status : {"approved", "paid"}]

ASSUME NullAssumption == None \notin Assignment \cup ClaimRow

View == [terms : BountyPolicies \cup {None}, policy : Policies \cup {None},
         issue : {"none", "open", "closed"},
         bounty : [Bounty -> BountyRow],
         assigned : [Bounty -> Assignment \cup {None}],
         wallet : [Users -> WalletState], claim : [Bounty -> ClaimRow \cup {None}],
         merged : SUBSET PullRequests, eligible : SUBSET Nat, current : SUBSET Nat]

BountiesTypeOK ==
  /\ EligibilityTypeOK
  /\ terms \in BountyPolicies \cup {None}
  /\ issue \in {"none", "open", "closed"}
  /\ bounty \in [Bounty -> BountyRow]
  /\ assigned \in [Bounty -> Assignment \cup {None}]
  /\ wallet \in [Users -> WalletState]
  /\ claim \in [Bounty -> ClaimRow \cup {None}]
  /\ payout \in [Bounty -> {"none", "created", "confirmed"}]
  /\ desk \in [Clerks -> View \cup {Idle}]

NoBounties ==
  /\ terms = None
  /\ issue = "none"
  /\ bounty = [b \in Bounty |-> [status |-> "none", funding |-> "unfunded",
                                 terms |-> None, policy |-> None, expired |-> FALSE]]
  /\ assigned = [b \in Bounty |-> None]
  /\ wallet = [u \in Users |-> "none"]
  /\ claim = [b \in Bounty |-> None]
  /\ payout = [b \in Bounty |-> "none"]
  /\ desk = [c \in Clerks |-> Idle]

BountiesInit == EligibilityInit /\ NoBounties

Receive(c) ==
  /\ desk[c] = Idle
  /\ desk' = [desk EXCEPT ![c] =
       [terms |-> terms, issue |-> issue, policy |-> policy, bounty |-> bounty,
        assigned |-> assigned, wallet |-> wallet, claim |-> claim,
        merged |-> {p \in PullRequests : pr[p].merged},
        eligible |-> {d \in DOMAIN decision : decision[d].status = "eligible"},
        current |-> {d \in DOMAIN decision : decision[d].current}]]
  /\ UNCHANGED <<eligibilityVars, bountyVars>>

(* A conflict, a missing row, a violated index, a crash: nothing commits. *)
Refuse(c) ==
  /\ desk[c] # Idle
  /\ desk' = [desk EXCEPT ![c] = Idle]
  /\ UNCHANGED <<eligibilityVars, bountyVars>>

Answers(c) == desk[c] # Idle /\ desk' = [desk EXCEPT ![c] = Idle]

-----------------------------------------------------------------------------
(* Policies, issues and bounties *)

TermsFor(c) == IF desk[c].terms = None THEN DefaultBountyPolicy ELSE desk[c].terms

(* bounty_policy_for_repository, when the policy is first read. *)
GetBountyPolicy(c) ==
  /\ Answers(c)
  /\ terms' = Written(terms, desk[c].terms, TermsFor(c))
  /\ UNCHANGED <<eligibilityVars, issue, bounty, assigned, wallet, claim, payout>>

SetBountyPolicy(c, t) ==
  /\ terms' = Written(terms, desk[c].terms, t)
  /\ UNCHANGED <<eligibilityVars, issue, bounty, assigned, wallet, claim, payout>>

PutBountyPolicy(c, t) == Answers(c) /\ SetBountyPolicy(c, t)

(* create_issue; two first recordings of one issue collide on its index.   *)
CreateIssue(c, state) ==
  /\ desk[c].issue = "none" => issue = "none"
  /\ issue' = Written(issue, desk[c].issue, state)
  /\ UNCHANGED <<eligibilityVars, terms, bounty, assigned, wallet, claim, payout>>

PostIssue(c, state) == Answers(c) /\ CreateIssue(c, state)

(* create_bounty records both policies of the repository, creating the     *)
(* default ones when there are none.                                       *)
CreateBounty(c, b) ==
  LET pol == IF desk[c].policy = None THEN DefaultPolicy ELSE desk[c].policy
  IN /\ desk[c].issue = "open"
     /\ bounty[b].status = "none"
     /\ b \in BountyRules[TermsFor(c)].allows
     /\ bounty' = [bounty EXCEPT ![b].status = "draft", ![b].policy = pol,
                                 ![b].terms = TermsFor(c)]
     /\ terms' = Written(terms, desk[c].terms, TermsFor(c))
     /\ policy' = Written(policy, desk[c].policy, pol)
     /\ UNCHANGED <<pr, scored, decision, session>>
     /\ UNCHANGED <<issue, assigned, wallet, claim, payout>>

PostBounty(c, b) == Answers(c) /\ CreateBounty(c, b)

MarkBountyFunded(c, b) ==
  /\ desk[c].bounty[b].status = "draft"
  /\ bounty' = [bounty EXCEPT ![b].status = "open", ![b].funding = "funded"]
  /\ UNCHANGED <<eligibilityVars, terms, issue, assigned, wallet, claim, payout>>

FundBounty(c, b) == Answers(c) /\ MarkBountyFunded(c, b)

(* Time passes the bounty's expires_at. *)
Expire(b) ==
  /\ bounty[b].status # "none" /\ ~bounty[b].expired
  /\ bounty' = [bounty EXCEPT ![b].expired = TRUE]
  /\ UNCHANGED <<eligibilityVars, terms, issue, assigned, wallet, claim, payout, desk>>

-----------------------------------------------------------------------------
(* Assignments and wallets *)

(* The mutant links any pull request of the repository. *)
AnyWork(u, p) == p \in PullRequests \cup {None}
OwnWork(u, p) == p # None => Author[p] = u

(* The index on active assignments refuses a second one. *)
AssignBounty(c, b, u, p) ==
  /\ desk[c].bounty[b].status = "open" /\ desk[c].bounty[b].funding = "funded"
  /\ OwnWork(u, p)
  /\ assigned[b] = None
  /\ assigned' = [assigned EXCEPT ![b] = [user |-> u, pr |-> p]]
  /\ bounty' = [bounty EXCEPT ![b].status = "assigned"]
  /\ UNCHANGED <<eligibilityVars, terms, issue, wallet, claim, payout>>

PostAssignment(c, b, u, p) == Answers(c) /\ AssignBounty(c, b, u, p)

LinkAssignment(c, b, p) ==
  /\ desk[c].assigned[b] # None
  /\ OwnWork(desk[c].assigned[b].user, p)
  /\ desk[c].assigned[b].pr \in {None, p}
  /\ assigned[b] # None
  /\ assigned' = [assigned EXCEPT ![b].pr = Written(@, desk[c].assigned[b].pr, p)]
  /\ UNCHANGED <<eligibilityVars, terms, issue, bounty, wallet, claim, payout>>

PostAssignmentPullRequest(c, b, p) == Answers(c) /\ LinkAssignment(c, b, p)

CreateWallet(c, u) ==
  /\ wallet[u] = "none"
  /\ wallet' = [wallet EXCEPT ![u] = "unverified"]
  /\ UNCHANGED <<eligibilityVars, terms, issue, bounty, assigned, claim, payout>>

PostWallet(c, u) == Answers(c) /\ CreateWallet(c, u)

VerifyWalletForBounty(c, b, u) ==
  /\ desk[c].assigned[b] # None /\ desk[c].assigned[b].user = u
  /\ desk[c].wallet[u] # "none"
  /\ wallet' = [wallet EXCEPT ![u] = "verified"]
  /\ UNCHANGED <<eligibilityVars, terms, issue, bounty, assigned, claim, payout>>

VerifyWallet(c, b, u) == Answers(c) /\ VerifyWalletForBounty(c, b, u)

-----------------------------------------------------------------------------
(* Claims and payouts *)

(* What approve_claim asks of its copies, under the bounty's own terms.    *)
(* The mutant takes a decision made under another policy.                  *)
ClaimableUnderAny(v, b, u, p, d) ==
  LET rules == BountyRules[v.bounty[b].terms]
  IN /\ v.bounty[b].status = "assigned" /\ ~v.bounty[b].expired
     /\ rules.require_funding => v.bounty[b].funding = "funded"
     /\ v.assigned[b] # None /\ v.assigned[b].user = u
     /\ v.assigned[b].pr \in {None, p}
     /\ Author[p] = u /\ p \in v.merged
     /\ d \in v.eligible
     /\ rules.require_current_eligibility => d \in v.current
     /\ decision[d].pr = p /\ decision[d].approved # {}
     /\ v.wallet[u] # "none"
     /\ rules.require_verified_wallet => v.wallet[u] = "verified"
Claimable(v, b, u, p, d) ==
  LET rules == BountyRules[v.bounty[b].terms]
  IN /\ v.bounty[b].status = "assigned" /\ ~v.bounty[b].expired
     /\ rules.require_funding => v.bounty[b].funding = "funded"
     /\ v.assigned[b] # None /\ v.assigned[b].user = u
     /\ v.assigned[b].pr \in {None, p}
     /\ Author[p] = u /\ p \in v.merged
     /\ d \in v.eligible
     /\ rules.require_current_eligibility => d \in v.current
     /\ decision[d].pr = p /\ decision[d].policy = v.bounty[b].policy
     /\ decision[d].approved # {}
     /\ v.wallet[u] # "none"
     /\ rules.require_verified_wallet => v.wallet[u] = "verified"

(* The index on payable claims refuses a second one; the mutant has only   *)
(* the query before it, which both of two claims pass.                     *)
UnclaimedWhenAsked(b) == TRUE
Unclaimed(b) == claim[b] = None

ApproveClaim(c, b, u, p, d) ==
  /\ Claimable(desk[c], b, u, p, d)
  /\ Unclaimed(b)
  /\ claim' = [claim EXCEPT ![b] = [pr |-> p, decision |-> d, user |-> u,
                                    status |-> "approved"]]
  /\ assigned' = [assigned EXCEPT ![b] = None]
  /\ bounty' = [bounty EXCEPT ![b].status = "closed"]
  /\ UNCHANGED <<eligibilityVars, terms, issue, wallet, payout>>

PostClaim(c, b, u, p, d) == Answers(c) /\ ApproveClaim(c, b, u, p, d)

CreatePayout(c, b) ==
  /\ desk[c].claim[b] # None /\ desk[c].claim[b].status = "approved"
  /\ payout[b] = "none"
  /\ payout' = [payout EXCEPT ![b] = "created"]
  /\ UNCHANGED <<eligibilityVars, terms, issue, bounty, assigned, wallet, claim>>

PostPayout(c, b) == Answers(c) /\ CreatePayout(c, b)

(* The mutant gives the claim its payout's state. *)
PaidAsConfirmed(row) == [row EXCEPT !.status = "confirmed"]
Paid(row) == [row EXCEPT !.status = "paid"]

(* confirm_payout, after the payout made its way through the treasury and  *)
(* the provider (module Payouts).                                          *)
ConfirmPayout(b) ==
  /\ payout[b] = "created"
  /\ payout' = [payout EXCEPT ![b] = "confirmed"]
  /\ claim' = [claim EXCEPT ![b] = Paid(@)]
  /\ bounty' = [bounty EXCEPT ![b].status = "paid", ![b].funding = "exhausted"]
  /\ pr' = [pr EXCEPT ![claim[b].pr].state = "paid"]
  /\ UNCHANGED <<policy, scored, decision, session>>
  /\ UNCHANGED <<terms, issue, assigned, wallet, desk>>

-----------------------------------------------------------------------------
ClerkStep(c) ==
  \/ Receive(c) \/ Refuse(c)
  \/ GetBountyPolicy(c)
  \/ \E t \in BountyPolicies : PutBountyPolicy(c, t)
  \/ \E state \in {"open", "closed"} : PostIssue(c, state)
  \/ \E u \in Users : PostWallet(c, u)
  \/ \E b \in Bounty :
       \/ PostBounty(c, b) \/ FundBounty(c, b) \/ PostPayout(c, b)
       \/ \E u \in Users, p \in PullRequests \cup {None} : PostAssignment(c, b, u, p)
       \/ \E p \in PullRequests : PostAssignmentPullRequest(c, b, p)
       \/ \E u \in Users : VerifyWallet(c, b, u)
       \/ \E u \in Users, p \in PullRequests, d \in DOMAIN decision :
            PostClaim(c, b, u, p, d)

BountiesNext ==
  \/ EligibilityNext /\ UNCHANGED <<bountyVars, desk>>
  \/ \E c \in Clerks : ClerkStep(c)
  \/ \E b \in Bounty : Expire(b) \/ ConfirmPayout(b)

BountiesSpec == BountiesInit /\ [][BountiesNext]_allVars

-----------------------------------------------------------------------------
(* Properties *)

(* Every payable claim is backed: its decision reached its quorum on       *)
(* passing inputs under the policy the bounty was published with, and the  *)
(* claimant wrote the pull request the decision is about and owns a        *)
(* verified wallet - although approve_claim only ever looks at copies.     *)
Backed(b) ==
  LET row == claim[b]
  IN /\ row.decision \in DOMAIN decision
     /\ ByQuorum(row.decision)
     /\ decision[row.decision].pr = row.pr
     /\ decision[row.decision].policy = bounty[b].policy
     /\ decision[row.decision].approved # {}
     /\ Author[row.pr] = row.user
     /\ BountyRules[bounty[b].terms].require_verified_wallet =>
          wallet[row.user] = "verified"
ClaimsBacked == \A b \in Bounty : claim[b] # None => Backed(b)

(* A claim once approved is never replaced or rewritten: two overlapping   *)
(* claims of one bounty, or an assignment that reopens a claimed bounty,   *)
(* cannot redirect it (uq_claims_payable_bounty, the claim's trigger).     *)
ClaimsFixed ==
  [][\A b \in Bounty : claim[b] # None =>
       claim'[b] \in {claim[b], [claim[b] EXCEPT !.status = "paid"]}]_allVars

(* A bounty that shows as assigned and has no claim has an assignment that *)
(* its assignee can still claim on: linked to nothing or to the assignee's *)
(* own pull request - although funding, assigning, linking and claiming    *)
(* check copies that other requests may have overtaken.                    *)
AssignedClaimable ==
  \A b \in Bounty : bounty[b].status = "assigned" /\ claim[b] = None =>
    /\ assigned[b] # None
    /\ assigned[b].pr # None => Author[assigned[b].pr] = assigned[b].user

(* A prior payout is a hard failure of eligibility (README): a pull        *)
(* request that a claim was paid for does not become eligible again.       *)
PriorPayoutExcludes ==
  \A b \in Bounty : claim[b] # None /\ claim[b].status = "paid" =>
    pr[claim[b].pr].state # "eligible"
=============================================================================
