----------------------------- MODULE Eligibility -----------------------------
(***************************************************************************)
(* Scores, eligibility decisions, human reviews and approvals              *)
(* (services/eligibility_service.py, the scoring runs of analysis/engine.py*)
(* and the synchronization that starts them, api/review_routes.py).        *)
(*                                                                         *)
(* A request is a database session.  It loads the repository, the pull     *)
(* requests and their current decisions (Begin), and some time later its   *)
(* handler commits.  Between the two other sessions commit, so a handler   *)
(* acts on its copies except where the code reads a row again for update.  *)
(* A handler that refuses, fails or dies commits nothing (Drop).           *)
(***************************************************************************)
EXTENDS Integers, Sequences, FiniteSets, Rows

CONSTANTS
  PullRequests,   \* pull requests of one repository
  Inputs,         \* what a scoring run reads: a head, its files and its checks
  Policies,       \* repository_policies rows
  Users,
  Sessions,       \* requests and workers that run at the same time
  HeadOf,         \* [Inputs -> commit]
  Scorable,       \* inputs with at least one scorable analyzer
  Limited,        \* inputs with more files than GitHub lists
  Rules,          \* [Policies -> rules]
  DefaultPolicy,  \* the policy a repository gets when it has none
  Author,         \* [PullRequests -> Users]
  MaxDecisions    \* bound: decisions inserted

(* An input has at most one score: the run key hashes the whole input, and *)
(* scores are immutable, so a score is named by its input.                 *)
Score == Inputs
Heads == {HeadOf[i] : i \in Inputs}

(* validate_repository_policy, with the users who hold a role in place of  *)
(* the roles and the scores that pass in place of the minimum.             *)
RuleSet == [require_merged : BOOLEAN, human_review_required : BOOLEAN,
            required_approvals : Nat \ {0}, separation_of_duties : BOOLEAN,
            allow_author_review : BOOLEAN, allow_author_approval : BOOLEAN,
            passing : SUBSET Score,
            reviewers : SUBSET Users, approvers : SUBSET Users]

ASSUME EligibilityAssumption ==
  /\ IsFiniteSet(Users)
  /\ HeadOf \in [Inputs -> Heads]
  /\ Scorable \subseteq Inputs /\ Limited \subseteq Inputs
  /\ Rules \in [Policies -> RuleSet] /\ DefaultPolicy \in Policies
  /\ Author \in [PullRequests -> Users]
  /\ MaxDecisions \in Nat
  /\ None \notin Inputs \cup Policies \cup Users \cup PullRequests \cup Heads
  /\ None \notin Nat

VARIABLES
  policy,    \* repository.eligibility_policy_id
  pr,        \* the pull_requests table
  scored,    \* scoring runs that produced a score
  decision,  \* the eligibility_decisions table, in order of insertion
  session    \* what each session has loaded

eligibilityVars == <<policy, pr, scored, decision, session>>

-----------------------------------------------------------------------------
(* Rows *)

EligibilityState == {"not_evaluated", "ineligible", "eligible", "claimed", "paid"}
DecisionStatus == {"pending_review", "changes_requested", "pending_approval",
                   "eligible", "ineligible", "superseded"}
Open == {"pending_review", "changes_requested", "pending_approval"}

PullRequestRow ==
  [merged : BOOLEAN, head : Heads \cup {None}, complete : BOOLEAN,
   latest : Score \cup {None}, state : EligibilityState]

(* What an evaluation saw of the pull request; with the score and the      *)
(* policy it is all that evaluation_hash covers.                           *)
Checks == [head : Heads \cup {None}, merged : BOOLEAN, complete : BOOLEAN, prior : BOOLEAN]

(* reviews and approvals are insert-only, so a decision carries the users  *)
(* who recommended its approval, who approved it and who rejected it.      *)
DecisionRow ==
  [pr : PullRequests, score : Score, policy : Policies, checks : Checks,
   status : DecisionStatus, current : BOOLEAN, required : Nat,
   endorsed : SUBSET Users, approved : SUBSET Users, rejected : SUBSET Users]

Known == [id : Nat \cup {None}, status : DecisionStatus \cup {None}]
Loaded == [policy : Policies \cup {None}, pr : [PullRequests -> PullRequestRow],
           current : [PullRequests -> Known]]

EligibilityTypeOK ==
  /\ policy \in Policies \cup {None}
  /\ pr \in [PullRequests -> PullRequestRow]
  /\ scored \subseteq PullRequests \X Score
  /\ decision \in Seq(DecisionRow)
  /\ session \in [Sessions -> Loaded \cup {Idle}]

EligibilityInit ==
  /\ policy = None
  /\ pr = [p \in PullRequests |-> [merged |-> FALSE, head |-> None,
             complete |-> FALSE, latest |-> None, state |-> "not_evaluated"]]
  /\ scored = {}
  /\ decision = <<>>
  /\ session = [r \in Sessions |-> Idle]

-----------------------------------------------------------------------------
(* Sessions *)

CurrentDecisions(p) ==
  {d \in DOMAIN decision : decision[d].pr = p /\ decision[d].current}

(* current_decision, as a session keeps it. *)
CurrentDecision(p) ==
  IF CurrentDecisions(p) = {} THEN [id |-> None, status |-> None]
  ELSE LET d == CHOOSE d \in CurrentDecisions(p) : TRUE
       IN [id |-> d, status |-> decision[d].status]

Begin(r) ==
  /\ session[r] = Idle
  /\ session' = [session EXCEPT ![r] =
       [policy |-> policy, pr |-> pr,
        current |-> [p \in PullRequests |-> CurrentDecision(p)]]]
  /\ UNCHANGED <<policy, pr, scored, decision>>

Drop(r) ==
  /\ session[r] # Idle
  /\ session' = [session EXCEPT ![r] = Idle]
  /\ UNCHANGED <<policy, pr, scored, decision>>

Commits(r) ==
  /\ session[r] # Idle
  /\ session' = [session EXCEPT ![r] = Idle]

(* The handler first resets the state and flushes, if it superseded a      *)
(* decision, and then sets it.                                             *)
Reset(state) == IF state \in {"claimed", "paid"} THEN state ELSE "not_evaluated"
StateSet(now, loaded, superseding, new) ==
  IF superseding
  THEN Written(Written(now, loaded, Reset(loaded)), Reset(loaded), new)
  ELSE Written(now, loaded, new)

-----------------------------------------------------------------------------
(* Superseding and evaluating *)

(* The current decision of p is locked, but a copy the session already has *)
(* is not refreshed: its status decides.                                   *)
Superseded(p, known) ==
  [d \in DOMAIN decision |->
     IF d \notin CurrentDecisions(p) THEN decision[d]
     ELSE LET seen == IF d = known.id THEN known.status ELSE decision[d].status
          IN [decision[d] EXCEPT !.current = FALSE,
                !.status = IF seen \in Open THEN "superseded" ELSE @]]

NothingKnown == [id |-> None, status |-> None]

Failing(score, pol, checks) ==
  \/ Rules[pol].require_merged /\ ~checks.merged
  \/ ~checks.complete
  \/ HeadOf[score] # checks.head
  \/ score \notin Rules[pol].passing
  \/ checks.prior

ChecksOf(row) ==
  [head |-> row.head, merged |-> row.merged, complete |-> row.complete,
   prior |-> row.state \in {"claimed", "paid"}]

EvaluatedStatus(score, pol, checks) ==
  IF Failing(score, pol, checks) THEN "ineligible"
  ELSE IF Rules[pol].human_review_required THEN "pending_review"
  ELSE "pending_approval"

Evaluation(p, row, pol) ==
  [pr |-> p, score |-> row.latest, policy |-> pol, checks |-> ChecksOf(row),
   status |-> EvaluatedStatus(row.latest, pol, ChecksOf(row)), current |-> TRUE,
   required |-> Rules[pol].required_approvals,
   endorsed |-> {}, approved |-> {}, rejected |-> {}]

SameEvaluation(d, e) == /\ d.pr = e.pr /\ d.score = e.score
                        /\ d.policy = e.policy /\ d.checks = e.checks

(* evaluation_hash is unique, and so is pr_id among current decisions.     *)
(* The mutant lacks the second index.                                      *)
InsertableTwice(rows, e) ==
  /\ Len(rows) < MaxDecisions
  /\ \A d \in DOMAIN rows : ~SameEvaluation(rows[d], e)
Insertable(rows, e) ==
  /\ Len(rows) < MaxDecisions
  /\ \A d \in DOMAIN rows : ~SameEvaluation(rows[d], e)
  /\ \A d \in DOMAIN rows : ~(rows[d].pr = e.pr /\ rows[d].current)

PolicyFor(r) == IF session[r].policy = None THEN DefaultPolicy ELSE session[r].policy

EvaluateEligibility(r, p) ==
  LET row   == session[r].pr[p]
      known == session[r].current[p]
      e     == Evaluation(p, row, PolicyFor(r))
      rows  == IF known.id = None THEN decision ELSE Superseded(p, known)
      outcome == IF e.status = "ineligible" THEN "ineligible" ELSE "not_evaluated"
  IN /\ row.latest # None
     /\ known.id # None => ~SameEvaluation(decision[known.id], e)
     /\ Insertable(rows, e)
     /\ decision' = Append(rows, e)
     /\ pr' = [pr EXCEPT ![p].state = StateSet(@, row.state,
                  known.id # None /\ CurrentDecisions(p) # {}, outcome)]
     /\ policy' = Written(policy, session[r].policy, PolicyFor(r))
     /\ UNCHANGED scored

PostEligibilityDecision(r, p) == Commits(r) /\ EvaluateEligibility(r, p)

(* policy_for_repository, when the policy is first read. *)
GetEligibilityPolicy(r) ==
  /\ Commits(r)
  /\ session[r].policy = None
  /\ policy' = DefaultPolicy
  /\ UNCHANGED <<pr, scored, decision>>

(* set_repository_policy: a new policy supersedes every current decision.  *)
SetRepositoryPolicy(r, pol) ==
  /\ session[r].policy # pol
  /\ policy' = pol
  /\ decision' = [d \in DOMAIN decision |->
                    Superseded(decision[d].pr, NothingKnown)[d]]
  /\ pr' = [p \in PullRequests |-> [pr[p] EXCEPT !.state =
              Written(@, session[r].pr[p].state, Reset(session[r].pr[p].state))]]
  /\ UNCHANGED scored

UpdateEligibilityPolicy(r, pol) == Commits(r) /\ SetRepositoryPolicy(r, pol)

-----------------------------------------------------------------------------
(* Synchronization and scoring runs *)

(* synchronize_webhook_delivery holds the advisory lock of the pull        *)
(* request, so what an earlier synchronization wrote is what it loaded.    *)
AloneOn(r, p) ==
  [session[r].pr[p] EXCEPT !.state = pr[p].state] = pr[p]

InputsChanged(row, i, merged) ==
  /\ row.head # None
  /\ \/ row.merged # merged
     \/ row.head # HeadOf[i]
     \/ row.complete = (i \in Limited)

(* execute_scoring_run reuses the run of the same input or makes a new     *)
(* one; record_incomplete_scoring_run leaves no latest score.              *)
NewScore(p, i) == i \notin Limited /\ i \in Scorable /\ <<p, i>> \notin scored
LatestScore(p, i, latest) ==
  IF i \in Limited THEN None
  ELSE IF i \in Scorable THEN i ELSE latest

Supersedes(p, i, row, merged) == InputsChanged(row, i, merged) \/ NewScore(p, i)

Synchronize(r, p, i, merged) ==
  LET row == session[r].pr[p]
      new == [merged |-> merged, head |-> HeadOf[i], complete |-> i \notin Limited,
              latest |-> LatestScore(p, i, row.latest),
              state |-> IF Supersedes(p, i, row, merged) THEN Reset(row.state)
                        ELSE row.state]
  IN /\ Commits(r)
     /\ AloneOn(r, p)
     /\ decision' = IF Supersedes(p, i, row, merged)
                    THEN Superseded(p, NothingKnown) ELSE decision
     /\ pr' = [pr EXCEPT ![p] = WrittenRow(@, row, new)]
     /\ scored' = IF NewScore(p, i) THEN scored \cup {<<p, i>>} ELSE scored
     /\ UNCHANGED policy

-----------------------------------------------------------------------------
(* Human review and approval *)

(* _require_current_inputs: the decision was read again under its lock,    *)
(* the pull request and the repository were not.                           *)
CurrentInputs(r, d) ==
  /\ decision[d].current
  /\ session[r].pr[decision[d].pr].latest = decision[d].score
  /\ session[r].policy = decision[d].policy

SetDecision(r, d, row, state) ==
  /\ decision' = [decision EXCEPT ![d] = row]
  /\ pr' = [pr EXCEPT ![row.pr].state =
             Written(@, session[r].pr[row.pr].state, state)]
  /\ UNCHANGED <<policy, scored>>

(* The mutant lets a review follow whatever was decided. *)
ReviewableAlways == DecisionStatus
Reviewable == {"pending_review", "changes_requested"}

MayReview(u, d) ==
  LET rules == Rules[decision[d].policy]
  IN /\ u \in rules.reviewers
     /\ rules.allow_author_review \/ u # Author[decision[d].pr]

SubmitReview(r, u, d, recommendation) ==
  LET row    == decision[d]
      loaded == session[r].pr[row.pr].state
  IN /\ CurrentInputs(r, d)
     /\ row.status \in Reviewable
     /\ MayReview(u, d)
     /\ \/ /\ recommendation = "approve"
           /\ SetDecision(r, d, [row EXCEPT !.status = "pending_approval",
                                  !.endorsed = @ \cup {u}], loaded)
        \/ /\ recommendation = "request_changes"
           /\ SetDecision(r, d, [row EXCEPT !.status = "changes_requested"], loaded)
        \/ /\ recommendation = "reject"
           /\ SetDecision(r, d, [row EXCEPT !.status = "ineligible"], "ineligible")

PostReview(r, p, u, recommendation) ==
  LET d == session[r].current[p].id
  IN Commits(r) /\ d # None /\ SubmitReview(r, u, d, recommendation)

(* The mutant lets a reviewer approve what she endorsed. *)
MayApproveEndorsed(u, d) ==
  LET rules == Rules[decision[d].policy]
  IN /\ u \in rules.approvers
     /\ rules.allow_author_approval \/ u # Author[decision[d].pr]
     /\ u \notin decision[d].approved \cup decision[d].rejected
MayApprove(u, d) ==
  LET rules == Rules[decision[d].policy]
  IN /\ u \in rules.approvers
     /\ rules.allow_author_approval \/ u # Author[decision[d].pr]
     /\ rules.separation_of_duties => u \notin decision[d].endorsed
     /\ u \notin decision[d].approved \cup decision[d].rejected

(* The mutant counts the approval being made twice. *)
QuorumOneShort(approved, row) == Cardinality(approved) + 1 >= row.required
Quorum(approved, row) == Cardinality(approved) >= row.required

SubmitApproval(r, u, d, outcome) ==
  LET row    == decision[d]
      loaded == session[r].pr[row.pr].state
      approved == row.approved \cup {u}
  IN /\ CurrentInputs(r, d)
     /\ row.status = "pending_approval"
     /\ MayApprove(u, d)
     /\ \/ /\ outcome = "rejected"
           /\ SetDecision(r, d, [row EXCEPT !.status = "ineligible",
                                  !.rejected = @ \cup {u}], "ineligible")
        \/ /\ outcome = "approved"
           /\ ~Quorum(approved, row)
           /\ SetDecision(r, d, [row EXCEPT !.approved = approved], loaded)
        \/ /\ outcome = "approved"
           /\ Quorum(approved, row)
           /\ SetDecision(r, d, [row EXCEPT !.approved = approved,
                                  !.status = "eligible"], "eligible")

PostApproval(r, p, u, outcome) ==
  LET d == session[r].current[p].id
  IN Commits(r) /\ d # None /\ SubmitApproval(r, u, d, outcome)

-----------------------------------------------------------------------------
Recommendation == {"approve", "request_changes", "reject"}

EligibilityNext == \E r \in Sessions :
  \/ Begin(r) \/ Drop(r) \/ GetEligibilityPolicy(r)
  \/ \E pol \in Policies : UpdateEligibilityPolicy(r, pol)
  \/ \E p \in PullRequests :
       \/ PostEligibilityDecision(r, p)
       \/ \E i \in Inputs, merged \in BOOLEAN : Synchronize(r, p, i, merged)
       \/ \E u \in Users, rec \in Recommendation : PostReview(r, p, u, rec)
       \/ \E u \in Users, out \in {"approved", "rejected"} : PostApproval(r, p, u, out)

EligibilitySpec == EligibilityInit /\ [][EligibilityNext]_eligibilityVars

-----------------------------------------------------------------------------
(* Properties *)

(* An eligible decision rests on inputs that passed every check, on the    *)
(* number of approvals its policy asks for, all from users who may         *)
(* approve and who neither wrote the pull request nor endorsed it in       *)
(* review, and on nobody's rejection - also when reviews, approvals and    *)
(* evaluations overlap (submit_approval under its lock).                   *)
ByQuorum(d) ==
  LET row == decision[d]  rules == Rules[row.policy]
  IN /\ ~Failing(row.score, row.policy, row.checks)
     /\ Cardinality(row.approved) >= rules.required_approvals
     /\ row.approved \subseteq rules.approvers
     /\ row.rejected = {}
     /\ ~rules.allow_author_approval => Author[row.pr] \notin row.approved
     /\ rules.separation_of_duties => row.approved \cap row.endorsed = {}
     /\ rules.human_review_required => row.endorsed # {}
EligibleByQuorum ==
  \A d \in DOMAIN decision : decision[d].status = "eligible" => ByQuorum(d)

(* A pull request shows as eligible only if one of its decisions really    *)
(* reached its quorum, whatever stale copies were flushed meanwhile.       *)
EligibleStateEarned ==
  \A p \in PullRequests : pr[p].state = "eligible" =>
    \E d \in DOMAIN decision : decision[d].pr = p /\ ByQuorum(d)

(* A superseded decision is closed for good: no review or approval whose   *)
(* request began before changes it, and it never becomes current again;    *)
(* an outcome is never reopened (_decision_for_update).                    *)
Votes(row) == <<row.endorsed, row.approved, row.rejected>>
ClosedDecisionsFrozen ==
  [][\A d \in DOMAIN decision :
       /\ ~decision[d].current => decision'[d] = decision[d]
       /\ decision[d].status \in {"eligible", "ineligible"} =>
            /\ Votes(decision'[d]) = Votes(decision[d])
            /\ decision'[d].status \in {decision[d].status, "superseded"}]_eligibilityVars

(* At most one decision of a pull request is current, however many         *)
(* evaluations ran at once.                                                *)
OneCurrentDecision == \A p \in PullRequests : Cardinality(CurrentDecisions(p)) <= 1
=============================================================================
