----------------------------- MODULE MCBounties -----------------------------
(* A small instance of Bounties for TLC: one policy, and a decision that     *)
(* was approved before the bounty was published.                            *)
EXTENDS Bounties, TLC

CONSTANTS p1, i1, i2, h1, author, approver, only, r1, c1, c2, b1, funded

(* One policy: no human review, one approval. *)
OneRule == only :> [require_merged |-> TRUE, human_review_required |-> FALSE,
                    required_approvals |-> 1, separation_of_duties |-> TRUE,
                    allow_author_review |-> FALSE, allow_author_approval |-> FALSE,
                    passing |-> Inputs, reviewers |-> {}, approvers |-> {approver}]
OneHead == [i \in Inputs |-> h1]
OneAuthor == p1 :> author
DefaultRules == funded :> [allows |-> Bounty, require_funding |-> TRUE,
                           require_verified_wallet |-> TRUE,
                           require_current_eligibility |-> TRUE]
(* The pull request is merged, and its first decision has its approval.    *)
Approved ==
  [pr |-> p1, score |-> i1, policy |-> only,
   checks |-> [head |-> h1, merged |-> TRUE, complete |-> TRUE, prior |-> FALSE],
   status |-> "eligible", current |-> TRUE, required |-> 1,
   endorsed |-> {}, approved |-> {approver}, rejected |-> {}]
ApprovedInit ==
  /\ policy = only
  /\ pr = [p \in PullRequests |-> [merged |-> TRUE, head |-> h1,
             complete |-> TRUE, latest |-> i1, state |-> "eligible"]]
  /\ scored = {<<p1, i1>>}
  /\ decision = <<Approved>>
  /\ session = [r \in Sessions |-> Idle]
  /\ NoBounties
ApprovedSpec == ApprovedInit /\ [][BountiesNext]_allVars

=============================================================================
