----------------------------- MODULE MCRequests -----------------------------
(* The requests of the HTTP API, for TLC: in every behaviour one component   *)
(* moves and the others stay in an initial state.                            *)
EXTENDS Bounties, RateLimit, Access, TLC

CONSTANTS p1, i1, i2, h1, h2, strict, light, author, ann, bob,
          b1, funded, c1, c2, r1, r2,
          q1, q2, q3, m1, m2

(* One policy asks for a review and for one approval, by someone else; the *)
(* other for no review and two approvals.                                  *)
PolicyRules(review, approvals, separation) ==
  [require_merged |-> FALSE, human_review_required |-> review,
   required_approvals |-> approvals, separation_of_duties |-> separation,
   allow_author_review |-> FALSE, allow_author_approval |-> FALSE,
   passing |-> {i1}, reviewers |-> {ann}, approvers |-> Users]
StrictAndLight == (strict :> PolicyRules(TRUE, 1, TRUE)) @@ (light :> PolicyRules(FALSE, 2, FALSE))
OneHeadEach == (i1 :> h1) @@ (i2 :> h2)
OneAuthor == p1 :> author

DefaultRules == funded :> [allows |-> Bounty, require_funding |-> TRUE,
                           require_verified_wallet |-> TRUE,
                           require_current_eligibility |-> TRUE]
(* The pull request is merged, and its first decision has its approvals or *)
(* waits for the last of them.                                             *)
Approved ==
  [pr |-> p1, score |-> i1, policy |-> light,
   checks |-> [head |-> h1, merged |-> TRUE, complete |-> TRUE, prior |-> FALSE],
   status |-> "eligible", current |-> TRUE, required |-> 2,
   endorsed |-> {}, approved |-> {ann, bob}, rejected |-> {}]
Awaited == [Approved EXCEPT !.status = "pending_approval", !.approved = {ann}]
DecidedInit ==
  /\ policy = light
  /\ scored = {<<p1, i1>>}
  /\ decision \in {<<Approved>>, <<Awaited>>}
  /\ pr = [p \in PullRequests |-> [merged |-> TRUE, head |-> h1, complete |-> TRUE,
             latest |-> i1,
             state |-> IF decision = <<Approved>> THEN "eligible" ELSE "not_evaluated"]]
  /\ session = [r \in Sessions |-> Idle]

(* The bounty was drafted while the other policy was in force.             *)
DraftedInit ==
  /\ terms = funded /\ issue = "open"
  /\ bounty = [b \in Bounty |-> [status |-> "draft", funding |-> "unfunded",
                                 terms |-> funded, policy |-> strict, expired |-> FALSE]]
  /\ assigned = [b \in Bounty |-> None]
  /\ wallet = [u \in Users |-> "none"]
  /\ claim = [b \in Bounty |-> None]
  /\ payout = [b \in Bounty |-> "none"]
  /\ desk = [c \in Clerks |-> Idle]

(* These starts are ones the program reaches: the pull request has its     *)
(* score, it passes, two users who did not write it may approve, and the   *)
(* bounty's terms allow it.                                                *)
ASSUME RequestsAssumption ==
  /\ PullRequests = {p1} /\ i1 \in Inputs /\ HeadOf[i1] = h1
  /\ {strict, light} \subseteq Policies /\ Rules[light] = PolicyRules(FALSE, 2, FALSE)
  /\ {ann, bob} \subseteq Users \ {Author[p1]} /\ ann # bob
  /\ funded \in BountyPolicies /\ BountyRules = DefaultRules

AdminMemberStranger == {[org |-> "admin", repo |-> "none"],
                        [org |-> "member", repo |-> "push"],
                        [org |-> "none", repo |-> "none"]}

VARIABLE part   \* the component that moves

requestsVars == <<allVars, rateVars, accessVars, part>>

RequestsInit ==
  /\ part \in {"decisions", "bounties", "rate", "sessions", "roles"}
  /\ IF part = "bounties" THEN DecidedInit /\ (NoBounties \/ DraftedInit)
     ELSE EligibilityInit /\ NoBounties
  /\ RateLimitInit /\ AccessInit
  /\ part # "rate" => production
  /\ part # "sessions" => github.view[m1].org = "admin"
  /\ part \notin {"sessions", "roles"} => github.view[m2].org = "admin"

(* A merge at GitHub is final. *)
MergesLast == pr[p1].merged => pr'[p1].merged

(* Around the bounties one session at a time decides on the one decision,  *)
(* which the change to the other policy may supersede while clerks still   *)
(* hold copies of it; no second decision is made.                          *)
OneDecision == /\ Len(decision) = 1
               /\ pr[p1].head = h1 /\ pr[p1].latest = i1
               /\ Cardinality({r \in Sessions : session[r] # Idle}) <= 1
               /\ wallet[bob] = "none" /\ issue # "closed"
PolicyChangesOnce == policy = light \/ policy' # light

(* The sessions of one user; or the roles of two, of whom the second may   *)
(* revoke the authorization she gave.                                      *)
Leaves(k) == office[k] # Idle /\ "leaving" \in DOMAIN office[k]
OneUser == /\ login[m2] = Idle
           /\ \A k \in Desks : office[k] = Idle \/ Leaves(k)
NoLogouts == \A k \in Desks : Leaves(k) => /\ office[k].leaving = m2
                                           /\ office[k].revoked
                                           /\ office[k].version = 0

RequestsNext ==
  /\ \/ /\ part = "decisions" /\ EligibilityNext /\ MergesLast
        /\ UNCHANGED <<bountyVars, desk, rateVars, accessVars>>
     \/ /\ part = "bounties" /\ BountiesNext /\ OneDecision'
        /\ MergesLast /\ PolicyChangesOnce
        /\ UNCHANGED <<rateVars, accessVars>>
     \/ /\ part = "rate" /\ RateLimitNext
        /\ UNCHANGED <<allVars, accessVars>>
     \/ /\ part = "sessions" /\ AccessNext /\ OneUser'
        /\ UNCHANGED <<allVars, rateVars>>
     \/ /\ part = "roles" /\ AccessNext /\ NoLogouts'
        /\ UNCHANGED <<allVars, rateVars>>
  /\ UNCHANGED part

RequestsSpec == RequestsInit /\ [][RequestsNext]_requestsVars

RequestsTypeOK == BountiesTypeOK /\ RateLimitTypeOK /\ AccessTypeOK

RequestSymmetry == Permutations(Clerks) \cup Permutations(Sessions)
=============================================================================
