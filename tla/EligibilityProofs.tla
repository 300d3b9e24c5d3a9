-------------------------- MODULE EligibilityProofs --------------------------
(***************************************************************************)
(* Theorems about Eligibility for any number of pull requests, users,      *)
(* policies, inputs and requests that overlap.                             *)
(***************************************************************************)
EXTENDS Eligibility, FiniteSetTheorems, SequenceTheorems, TLAPS

(* What a session loaded about a pull request's decision is still that     *)
(* pull request's decision.                                                *)
SessionsKnow ==
  \A r \in Sessions, p \in PullRequests :
    session[r] # Idle /\ session[r].current[p].id # None =>
      /\ session[r].current[p].id \in DOMAIN decision
      /\ decision[session[r].current[p].id].pr = p

TypeInv == EligibilityTypeOK /\ SessionsKnow

(* ByQuorum without the number of approvals, for a row.                    *)
Respected(row) ==
  LET rules == Rules[row.policy]
  IN /\ ~Failing(row.score, row.policy, row.checks)
     /\ row.approved \subseteq rules.approvers
     /\ row.rejected = {}
     /\ ~rules.allow_author_approval => Author[row.pr] \notin row.approved
     /\ rules.separation_of_duties => row.approved \cap row.endorsed = {}

(* While a decision is open, everything said about it respects its policy. *)
(* Nobody approves before the reviews are over, so no review comes after   *)
(* an approval and endorses what its author approved.                      *)
Sound(row) ==
  /\ row.required = Rules[row.policy].required_approvals
  /\ row.status \in Open \cup {"eligible"} => Respected(row)
  /\ row.status \in Reviewable => row.approved = {}
  /\ row.status \in {"pending_approval", "eligible"} =>
       (Rules[row.policy].human_review_required => row.endorsed # {})
  /\ row.status = "eligible" => Cardinality(row.approved) >= row.required

QuorumInv == TypeInv /\ \A d \in DOMAIN decision : Sound(decision[d])

(* A decision that became eligible, and may have been superseded since.    *)
Won(d) == ByQuorum(d) /\ decision[d].status \in {"eligible", "superseded"}

EarnedInv ==
  /\ QuorumInv
  /\ \A p \in PullRequests : pr[p].state = "eligible" =>
       \E d \in DOMAIN decision : decision[d].pr = p /\ Won(d)

OneCurrentInv ==
  /\ TypeInv
  /\ \A c, d \in DOMAIN decision :
       decision[c].current /\ decision[d].current /\ decision[c].pr = decision[d].pr
         => c = d

-----------------------------------------------------------------------------
(* What can happen to one decision in a step. *)

ClosedRow(d, row) ==
  /\ decision[d].current
  /\ \E s \in {decision[d].status, "superseded"} :
       row = [decision[d] EXCEPT !.current = FALSE, !.status = s]

ReviewedRow(d, row) ==
  /\ decision[d].current /\ decision[d].status \in Reviewable
  /\ \/ \E u \in Users : row = [decision[d] EXCEPT !.status = "pending_approval",
                                                   !.endorsed = @ \cup {u}]
     \/ \E s \in {"changes_requested", "ineligible"} :
          row = [decision[d] EXCEPT !.status = s]

ApprovedRow(d, row) ==
  /\ decision[d].current /\ decision[d].status = "pending_approval"
  /\ \E u \in Users :
       /\ MayApprove(u, d)
       /\ LET approved == decision[d].approved \cup {u}
          IN \/ row = [decision[d] EXCEPT !.status = "ineligible",
                                          !.rejected = @ \cup {u}]
             \/ row = [decision[d] EXCEPT !.approved = approved]
             \/ /\ Quorum(approved, decision[d])
                /\ row = [decision[d] EXCEPT !.approved = approved,
                                             !.status = "eligible"]

RowStep(d, row) ==
  \/ row = decision[d]
  \/ ClosedRow(d, row) \/ ReviewedRow(d, row) \/ ApprovedRow(d, row)

(* A row that is inserted: an evaluation, when no other is current.        *)
InsertedRow(row) ==
  /\ \E p \in PullRequests, loaded \in PullRequestRow, pol \in Policies :
       loaded.latest # None /\ row = Evaluation(p, loaded, pol)
  /\ \A c \in DOMAIN decision : ~(decision'[c].pr = row.pr /\ decision'[c].current)

DecisionStep ==
  /\ decision' \in Seq(DecisionRow)
  /\ \A d \in DOMAIN decision : d \in DOMAIN decision' /\ RowStep(d, decision'[d])
  /\ \A d \in DOMAIN decision' \ DOMAIN decision :
       d = Len(decision) + 1 /\ InsertedRow(decision'[d])

(* Only the approval that completes a quorum makes a pull request eligible.*)
StateStep ==
  \A p \in PullRequests : pr'[p].state = "eligible" =>
    \/ pr[p].state = "eligible"
    \/ \E d \in DOMAIN decision : /\ decision[d].pr = p /\ d \in DOMAIN decision'
                                  /\ decision[d].status = "pending_approval"
                                  /\ decision'[d].status = "eligible"

-----------------------------------------------------------------------------
(* Rows and their types *)

(* A session that is at work has loaded rows of their types.               *)
LEMMA LoadedRows ==
  ASSUME TypeInv, NEW r \in Sessions, session[r] # Idle
  PROVE  /\ session[r] \in Loaded
         /\ PolicyFor(r) \in Policies
         /\ \A p \in PullRequests :
              /\ session[r].pr[p] \in PullRequestRow
              /\ session[r].current[p] \in Known
              /\ session[r].current[p].id # None =>
                   /\ session[r].current[p].id \in DOMAIN decision
                   /\ decision[session[r].current[p].id].pr = p
PROOF
<1>1. session[r] \in Loaded
  BY DEF TypeInv, EligibilityTypeOK
<1>2. PolicyFor(r) \in Policies
  BY <1>1, EligibilityAssumption DEF PolicyFor, Loaded
<1> QED BY <1>1, <1>2 DEF TypeInv, SessionsKnow, Loaded

(* The table of decisions is indexed from one.                             *)
LEMMA DecisionRows ==
  ASSUME TypeInv
  PROVE  /\ Len(decision) \in Nat
         /\ DOMAIN decision = 1 .. Len(decision)
         /\ \A d \in DOMAIN decision : decision[d] \in DecisionRow
PROOF
BY DEF TypeInv, EligibilityTypeOK

(* Whatever happens to a row leaves it a row of its pull request.          *)
LEMMA RowStepType ==
  ASSUME TypeInv, NEW d \in DOMAIN decision, NEW row, RowStep(d, row)
  PROVE  /\ row \in DecisionRow
         /\ row.pr = decision[d].pr
         /\ row.current => decision[d].current
PROOF
<1>1. decision[d] \in DecisionRow
  BY DecisionRows
<1>2. CASE row = decision[d]
  BY <1>1, <1>2
<1>3. CASE ClosedRow(d, row)
  BY <1>1, <1>3 DEF ClosedRow, DecisionRow, DecisionStatus
<1>4. \A u \in Users : /\ decision[d].endorsed \cup {u} \in SUBSET Users
                       /\ decision[d].approved \cup {u} \in SUBSET Users
                       /\ decision[d].rejected \cup {u} \in SUBSET Users
  BY <1>1 DEF DecisionRow
<1>5. CASE ReviewedRow(d, row)
  <2>1. ASSUME NEW u \in Users,
               row = [decision[d] EXCEPT !.status = "pending_approval",
                                         !.endorsed = @ \cup {u}]
        PROVE  row \in DecisionRow /\ row.pr = decision[d].pr
                 /\ row.current = decision[d].current
    <3> DEFINE e == decision[d].endorsed \cup {u}
    <3>1. e \in SUBSET Users
      BY <1>4
    <3>2. row = [decision[d] EXCEPT !.status = "pending_approval", !.endorsed = e]
      BY <2>1
    <3> HIDE DEF e
    <3> QED BY <1>1, <3>1, <3>2 DEF DecisionRow, DecisionStatus
  <2>2. ASSUME NEW s \in {"changes_requested", "ineligible"},
               row = [decision[d] EXCEPT !.status = s]
        PROVE  row \in DecisionRow /\ row.pr = decision[d].pr
                 /\ row.current = decision[d].current
    BY <1>1, <2>2 DEF DecisionRow, DecisionStatus
  <2> QED BY <1>5, <2>1, <2>2 DEF ReviewedRow
<1>6. CASE ApprovedRow(d, row)
  <2>1. PICK u \in Users :
          LET approved == decision[d].approved \cup {u}
              rejected == decision[d].rejected \cup {u}
          IN \/ row = [decision[d] EXCEPT !.status = "ineligible",
                                          !.rejected = rejected]
             \/ row = [decision[d] EXCEPT !.approved = approved]
             \/ row = [decision[d] EXCEPT !.approved = approved,
                                          !.status = "eligible"]
    BY <1>6 DEF ApprovedRow
  <2> DEFINE approved == decision[d].approved \cup {u}
             rejected == decision[d].rejected \cup {u}
  <2>2. approved \in SUBSET Users /\ rejected \in SUBSET Users
    BY <1>4
  <2>3. \/ row = [decision[d] EXCEPT !.status = "ineligible", !.rejected = rejected]
        \/ row = [decision[d] EXCEPT !.approved = approved]
        \/ row = [decision[d] EXCEPT !.approved = approved, !.status = "eligible"]
    BY <2>1
  <2> HIDE DEF approved, rejected
  <2> QED BY <1>1, <2>2, <2>3 DEF DecisionRow, DecisionStatus
<1> QED BY <1>2, <1>3, <1>5, <1>6 DEF RowStep

(* A table with a row's next state in each place is a table.               *)
LEMMA RowStepTable ==
  ASSUME TypeInv, NEW rows, DOMAIN rows = DOMAIN decision,
         rows = [d \in DOMAIN decision |-> rows[d]],
         \A d \in DOMAIN decision : RowStep(d, rows[d])
  PROVE  rows \in Seq(DecisionRow) /\ Len(rows) = Len(decision)
PROOF
<1>1. \A d \in DOMAIN decision : rows[d] \in DecisionRow
  BY RowStepType
<1>2. rows \in [1 .. Len(decision) -> DecisionRow]
  BY <1>1, DecisionRows
<1>3. rows \in Seq(DecisionRow)
  BY <1>2, DecisionRows, SeqDef
<1> QED BY <1>2, <1>3, DecisionRows, LenProperties

(* Superseding closes current decisions of the pull request and leaves the *)
(* others alone.                                                           *)
LEMMA SupersededRows ==
  ASSUME NEW p, NEW known
  PROVE  LET rows == Superseded(p, known)
         IN /\ DOMAIN rows = DOMAIN decision
            /\ rows = [d \in DOMAIN decision |-> rows[d]]
            /\ \A d \in DOMAIN decision :
                 IF d \in CurrentDecisions(p) THEN ClosedRow(d, rows[d])
                 ELSE rows[d] = decision[d]
PROOF
<1> DEFINE rows == Superseded(p, known)
<1>1. DOMAIN rows = DOMAIN decision /\ rows = [d \in DOMAIN decision |-> rows[d]]
  BY DEF Superseded
<1>2. ASSUME NEW d \in CurrentDecisions(p) PROVE ClosedRow(d, rows[d])
  <2>1. d \in DOMAIN decision /\ decision[d].current
    BY DEF CurrentDecisions
  <2>2. \E s \in {decision[d].status, "superseded"} :
          rows[d] = [decision[d] EXCEPT !.current = FALSE, !.status = s]
    BY <2>1 DEF Superseded
  <2> QED BY <2>1, <2>2 DEF ClosedRow
<1>3. ASSUME NEW d \in DOMAIN decision, d \notin CurrentDecisions(p)
      PROVE  rows[d] = decision[d]
  BY <1>3 DEF Superseded
<1> QED BY <1>1, <1>2, <1>3

(* What an evaluation inserts is a row.                                    *)
LEMMA EvaluationType ==
  ASSUME NEW p \in PullRequests, NEW loaded \in PullRequestRow, loaded.latest # None,
         NEW pol \in Policies
  PROVE  Evaluation(p, loaded, pol) \in DecisionRow
PROOF
<1>1. ChecksOf(loaded) \in Checks
  BY DEF ChecksOf, Checks, PullRequestRow
<1>2. EvaluatedStatus(loaded.latest, pol, ChecksOf(loaded)) \in DecisionStatus
  BY DEF EvaluatedStatus, DecisionStatus
<1>3. Rules[pol].required_approvals \in Nat /\ loaded.latest \in Score
  BY EligibilityAssumption DEF RuleSet, PullRequestRow
<1> QED BY <1>1, <1>2, <1>3 DEF Evaluation, DecisionRow

-----------------------------------------------------------------------------
(* What a step does to the tables *)

(* A step that leaves the decisions alone.                                 *)
LEMMA KeptDecisions ==
  ASSUME TypeInv, UNCHANGED decision
  PROVE  DecisionStep
PROOF
BY DEF DecisionStep, RowStep, TypeInv, EligibilityTypeOK

(* A step that changes rows and inserts none.                              *)
LEMMA ChangedDecisions ==
  ASSUME TypeInv, DOMAIN decision' = DOMAIN decision,
         decision' = [d \in DOMAIN decision |-> decision'[d]],
         \A d \in DOMAIN decision : RowStep(d, decision'[d])
  PROVE  DecisionStep
PROOF
<1>1. decision' \in Seq(DecisionRow)
  BY RowStepTable
<1> QED BY <1>1 DEF DecisionStep

(* A handler that commits leaves its session.                              *)
LEMMA CommittedSession ==
  ASSUME TypeInv, NEW r \in Sessions, Commits(r), DecisionStep
  PROVE  /\ session' \in [Sessions -> Loaded \cup {Idle}]
         /\ SessionsKnow'
PROOF
<1>1. session' = [session EXCEPT ![r] = Idle]
  BY DEF Commits
<1>2. session' \in [Sessions -> Loaded \cup {Idle}]
  BY <1>1 DEF TypeInv, EligibilityTypeOK
<1>3. ASSUME NEW x \in Sessions, NEW p \in PullRequests, session'[x] # Idle,
             session'[x].current[p].id # None
      PROVE  /\ session'[x].current[p].id \in DOMAIN decision'
             /\ decision'[session'[x].current[p].id].pr = p
  <2>1. session'[x] = session[x]
    BY <1>1, <1>3 DEF TypeInv, EligibilityTypeOK
  <2>2. /\ session[x].current[p].id \in DOMAIN decision
        /\ decision[session[x].current[p].id].pr = p
    BY <1>3, <2>1 DEF TypeInv, SessionsKnow
  <2> QED BY <2>1, <2>2, RowStepType DEF DecisionStep
<1> QED BY <1>2, <1>3 DEF SessionsKnow

(* A reset is a state, and not eligible.                                   *)
LEMMA ResetValue ==
  ASSUME NEW loaded \in EligibilityState
  PROVE  Reset(loaded) \in EligibilityState \ {"eligible"}
PROOF
BY DEF Reset, EligibilityState

(* A step that sets the state column of one pull request.                  *)
LEMMA StateWritten ==
  ASSUME TypeInv, NEW p \in PullRequests, NEW s \in EligibilityState,
         pr' = [pr EXCEPT ![p].state = s]
  PROVE  /\ pr' \in [PullRequests -> PullRequestRow]
         /\ pr'[p].state = s
         /\ \A o \in PullRequests \ {p} : pr'[o] = pr[o]
PROOF
<1>1. pr \in [PullRequests -> PullRequestRow]
  BY DEF TypeInv, EligibilityTypeOK
<1>2. [pr[p] EXCEPT !.state = s] \in PullRequestRow /\ [pr[p] EXCEPT !.state = s].state = s
  BY <1>1 DEF PullRequestRow
<1>3. pr' = [pr EXCEPT ![p] = [pr[p] EXCEPT !.state = s]]
  BY <1>1
<1> QED BY <1>1, <1>2, <1>3

-----------------------------------------------------------------------------
(* The types, and what each step does *)

(* Loading, giving up and reading the policy leave the decisions alone.    *)
LEMMA QuietStep ==
  ASSUME TypeInv, NEW r \in Sessions,
         Begin(r) \/ Drop(r) \/ GetEligibilityPolicy(r)
  PROVE  TypeInv' /\ DecisionStep /\ StateStep
PROOF
<1>1. UNCHANGED <<pr, scored, decision>>
  BY DEF Begin, Drop, GetEligibilityPolicy
<1>2. DecisionStep /\ StateStep
  BY <1>1, KeptDecisions DEF StateStep
<1>3. policy' \in Policies \cup {None}
  BY EligibilityAssumption DEF Begin, Drop, GetEligibilityPolicy, TypeInv, EligibilityTypeOK
<1>4. session' \in [Sessions -> Loaded \cup {Idle}] /\ SessionsKnow'
  <2>1. CASE Begin(r)
    <3> DEFINE copy == [policy |-> policy, pr |-> pr,
                        current |-> [p \in PullRequests |-> CurrentDecision(p)]]
    <3>1. ASSUME NEW p \in PullRequests
          PROVE  /\ CurrentDecision(p) \in Known
                 /\ CurrentDecision(p).id # None =>
                      /\ CurrentDecision(p).id \in DOMAIN decision
                      /\ decision[CurrentDecision(p).id].pr = p
      <4>1. CASE CurrentDecisions(p) = {}
        BY <4>1 DEF CurrentDecision, Known
      <4>2. CASE CurrentDecisions(p) # {}
        <5>1. PICK d \in CurrentDecisions(p) :
                CurrentDecision(p) = [id |-> d, status |-> decision[d].status]
          BY <4>2 DEF CurrentDecision
        <5>2. d \in DOMAIN decision /\ decision[d].pr = p
          BY DEF CurrentDecisions
        <5>3. d \in Nat /\ decision[d] \in DecisionRow
          BY <5>2, DecisionRows
        <5> QED BY <5>1, <5>2, <5>3 DEF Known, DecisionRow
      <4> QED BY <4>1, <4>2
    <3>2. copy \in Loaded
      BY <3>1 DEF Loaded, TypeInv, EligibilityTypeOK
    <3>3. session' = [session EXCEPT ![r] = copy]
      BY <2>1 DEF Begin
    <3>4. session' \in [Sessions -> Loaded \cup {Idle}]
      BY <3>2, <3>3 DEF TypeInv, EligibilityTypeOK
    <3>5. ASSUME NEW x \in Sessions, NEW p \in PullRequests, session'[x] # Idle,
                 session'[x].current[p].id # None
          PROVE  /\ session'[x].current[p].id \in DOMAIN decision
                 /\ decision[session'[x].current[p].id].pr = p
      <4>1. CASE x = r
        <5>1. session'[x].current[p] = CurrentDecision(p)
          BY <3>3, <4>1 DEF TypeInv, EligibilityTypeOK
        <5> QED BY <3>1, <3>5, <5>1
      <4>2. CASE x # r
        <5>1. session'[x] = session[x]
          BY <3>3, <4>2 DEF TypeInv, EligibilityTypeOK
        <5> QED BY <3>5, <5>1 DEF TypeInv, SessionsKnow
      <4> QED BY <4>1, <4>2
    <3> QED BY <1>1, <3>4, <3>5 DEF SessionsKnow
  <2>2. CASE Drop(r) \/ GetEligibilityPolicy(r)
    <3>1. Commits(r)
      BY <2>2 DEF Drop, GetEligibilityPolicy, Commits
    <3> QED BY <1>2, <3>1, CommittedSession
  <2> QED BY <2>1, <2>2
<1> QED BY <1>1, <1>2, <1>3, <1>4 DEF TypeInv, EligibilityTypeOK

(* A new policy closes the current decisions of every pull request.        *)
LEMMA PolicyStep ==
  ASSUME TypeInv, NEW r \in Sessions, NEW pol \in Policies,
         UpdateEligibilityPolicy(r, pol)
  PROVE  TypeInv' /\ DecisionStep /\ StateStep
PROOF
<1>1. Commits(r) /\ SetRepositoryPolicy(r, pol)
  BY DEF UpdateEligibilityPolicy
<1>2. session[r] # Idle
  BY <1>1 DEF Commits
<1>3. DecisionStep
  <2>1. decision' = [d \in DOMAIN decision |->
                       Superseded(decision[d].pr, NothingKnown)[d]]
    BY <1>1 DEF SetRepositoryPolicy
  <2>2. \A d \in DOMAIN decision : RowStep(d, decision'[d])
    BY <2>1, SupersededRows DEF RowStep
  <2> QED BY <2>1, <2>2, ChangedDecisions
<1>4. ASSUME NEW p \in PullRequests
      PROVE  /\ pr'[p] \in PullRequestRow
             /\ pr'[p].state = "eligible" => pr[p].state = "eligible"
  <2> DEFINE loaded == session[r].pr[p].state
             new == Written(pr[p].state, loaded, Reset(loaded))
  <2>1. pr[p] \in PullRequestRow /\ session[r].pr[p] \in PullRequestRow
    BY <1>2, LoadedRows DEF TypeInv, EligibilityTypeOK
  <2>2. pr[p].state \in EligibilityState /\ loaded \in EligibilityState
    BY <2>1 DEF PullRequestRow
  <2>3. new \in EligibilityState /\ (new = "eligible" => pr[p].state = "eligible")
    BY <2>2 DEF Reset, Written, EligibilityState
  <2>4. pr'[p] = [pr[p] EXCEPT !.state = new]
    BY <1>1 DEF SetRepositoryPolicy
  <2> HIDE DEF new
  <2> QED BY <2>1, <2>3, <2>4 DEF PullRequestRow
<1>5. pr' \in [PullRequests -> PullRequestRow] /\ StateStep
  BY <1>1, <1>4 DEF SetRepositoryPolicy, StateStep
<1>6. policy' \in Policies \cup {None} /\ UNCHANGED scored
  BY <1>1 DEF SetRepositoryPolicy
<1>7. session' \in [Sessions -> Loaded \cup {Idle}] /\ SessionsKnow'
  BY <1>1, <1>3, CommittedSession
<1> QED BY <1>3, <1>5, <1>6, <1>7 DEF TypeInv, EligibilityTypeOK, DecisionStep

(* An evaluation closes the current decision and inserts another one.      *)
LEMMA EvaluationStep ==
  ASSUME TypeInv, NEW r \in Sessions, NEW p \in PullRequests,
         PostEligibilityDecision(r, p)
  PROVE  TypeInv' /\ DecisionStep /\ StateStep
PROOF
<1> DEFINE row   == session[r].pr[p]
           known == session[r].current[p]
           e     == Evaluation(p, row, PolicyFor(r))
           rows  == IF known.id = None THEN decision ELSE Superseded(p, known)
           outcome == IF e.status = "ineligible" THEN "ineligible" ELSE "not_evaluated"
           superseding == known.id # None /\ CurrentDecisions(p) # {}
<1>1. Commits(r) /\ EvaluateEligibility(r, p)
  BY DEF PostEligibilityDecision
<1>2. /\ PolicyFor(r) \in Policies /\ session[r] \in Loaded
      /\ row \in PullRequestRow /\ pr[p] \in PullRequestRow
  BY <1>1, LoadedRows DEF Commits, TypeInv, EligibilityTypeOK
<1>3. /\ row.latest # None /\ Insertable(rows, e) /\ decision' = Append(rows, e)
      /\ pr' = [pr EXCEPT ![p].state = StateSet(@, row.state, superseding, outcome)]
      /\ policy' = Written(policy, session[r].policy, PolicyFor(r))
      /\ UNCHANGED scored
  BY <1>1 DEF EvaluateEligibility
<1>4. e \in DecisionRow /\ e.pr = p
  BY <1>2, <1>3, EvaluationType DEF Evaluation
<1> HIDE DEF e
<1>5. /\ DOMAIN rows = DOMAIN decision
      /\ rows = [d \in DOMAIN decision |-> rows[d]]
      /\ \A d \in DOMAIN decision : RowStep(d, rows[d])
  <2>1. CASE known.id = None
    BY <2>1 DEF RowStep, TypeInv, EligibilityTypeOK
  <2>2. CASE known.id # None
    BY <2>2, SupersededRows DEF RowStep
  <2> QED BY <2>1, <2>2
<1>6. rows \in Seq(DecisionRow) /\ Len(rows) = Len(decision)
  BY <1>5, RowStepTable
<1>7. InsertedRow(e)
  <2>1. \A c \in DOMAIN rows : ~(rows[c].pr = e.pr /\ rows[c].current)
    BY <1>3 DEF Insertable
  <2>2. \A c \in DOMAIN decision : decision'[c] = rows[c]
    BY <1>3, <1>4, <1>5, <1>6
  <2> QED BY <1>2, <1>3, <1>5, <2>1, <2>2, Zenon DEF InsertedRow, e
<1>8. DecisionStep
  <2> HIDE DEF rows
  <2>1. /\ decision' \in Seq(DecisionRow) /\ Len(decision') = Len(decision) + 1
        /\ decision'[Len(decision) + 1] = e
        /\ \A c \in DOMAIN decision : c \in DOMAIN decision' /\ decision'[c] = rows[c]
    BY <1>3, <1>4, <1>5, <1>6
  <2>2. \A c \in DOMAIN decision' \ DOMAIN decision : c = Len(decision) + 1
    BY <2>1, DecisionRows
  <2> QED BY <1>5, <1>7, <2>1, <2>2 DEF DecisionStep
<1>9. pr' \in [PullRequests -> PullRequestRow] /\ StateStep
  <2> DEFINE set == StateSet(pr[p].state, row.state, superseding, outcome)
  <2>1. /\ pr[p].state \in EligibilityState /\ row.state \in EligibilityState
        /\ outcome \in EligibilityState \ {"eligible"} /\ superseding \in BOOLEAN
    BY <1>2 DEF PullRequestRow, EligibilityState
  <2>2. set \in EligibilityState /\ (set = "eligible" => pr[p].state = "eligible")
    <3> HIDE DEF outcome, superseding, row
    <3> QED BY <2>1 DEF StateSet, Written, Reset, EligibilityState
  <2>3. pr' = [pr EXCEPT ![p].state = set]
    BY <1>3
  <2> HIDE DEF set
  <2> QED BY <2>2, <2>3, StateWritten DEF StateStep
<1>10. policy' \in Policies \cup {None}
  BY <1>2, <1>3 DEF Written, TypeInv, EligibilityTypeOK
<1>11. session' \in [Sessions -> Loaded \cup {Idle}] /\ SessionsKnow'
  BY <1>1, <1>8, CommittedSession
<1> QED BY <1>3, <1>8, <1>9, <1>10, <1>11 DEF TypeInv, EligibilityTypeOK, DecisionStep

(* Writing the columns of a row leaves a row.                              *)
LEMMA WrittenRowType ==
  ASSUME NEW now \in PullRequestRow, NEW loaded \in PullRequestRow,
         NEW new \in PullRequestRow
  PROVE  /\ WrittenRow(now, loaded, new) \in PullRequestRow
         /\ WrittenRow(now, loaded, new).state = Written(now.state, loaded.state, new.state)
PROOF
<1>1. DOMAIN now = {"merged", "head", "complete", "latest", "state"}
  BY DEF PullRequestRow
<1>2. WrittenRow(now, loaded, new) =
        [merged |-> Written(now.merged, loaded.merged, new.merged),
         head |-> Written(now.head, loaded.head, new.head),
         complete |-> Written(now.complete, loaded.complete, new.complete),
         latest |-> Written(now.latest, loaded.latest, new.latest),
         state |-> Written(now.state, loaded.state, new.state)]
  BY <1>1 DEF WrittenRow
<1> QED BY <1>2 DEF PullRequestRow, Written

(* A synchronization closes the pull request's decision at most.           *)
LEMMA SynchronizeStep ==
  ASSUME TypeInv, NEW r \in Sessions, NEW p \in PullRequests, NEW i \in Inputs,
         NEW merged \in BOOLEAN, Synchronize(r, p, i, merged)
  PROVE  TypeInv' /\ DecisionStep /\ StateStep
PROOF
<1> DEFINE row == session[r].pr[p]
           new == [merged |-> merged, head |-> HeadOf[i], complete |-> i \notin Limited,
                   latest |-> LatestScore(p, i, row.latest),
                   state |-> IF Supersedes(p, i, row, merged) THEN Reset(row.state)
                             ELSE row.state]
<1>1. /\ Commits(r)
      /\ decision' = IF Supersedes(p, i, row, merged)
                     THEN Superseded(p, NothingKnown) ELSE decision
      /\ pr' = [pr EXCEPT ![p] = WrittenRow(@, row, new)]
      /\ scored' = IF NewScore(p, i) THEN scored \cup {<<p, i>>} ELSE scored
      /\ UNCHANGED policy
  BY DEF Synchronize
<1>2. row \in PullRequestRow /\ pr[p] \in PullRequestRow
  BY <1>1, LoadedRows DEF Commits, TypeInv, EligibilityTypeOK
<1>3. DecisionStep
  <2>1. CASE Supersedes(p, i, row, merged)
    <3>1. decision' = Superseded(p, NothingKnown)
      BY <1>1, <2>1
    <3> QED BY <3>1, SupersededRows, ChangedDecisions DEF RowStep
  <2>2. CASE ~Supersedes(p, i, row, merged)
    BY <1>1, <2>2, KeptDecisions
  <2> QED BY <2>1, <2>2
<1>4. /\ new \in PullRequestRow
      /\ new.state = row.state \/ new.state # "eligible"
  <2>1. HeadOf[i] \in Heads
    BY EligibilityAssumption
  <2>2. LatestScore(p, i, row.latest) \in Score \cup {None}
    BY <1>2 DEF LatestScore, Score, PullRequestRow
  <2>3. row.state \in EligibilityState /\ Reset(row.state) \in EligibilityState \ {"eligible"}
    BY <1>2, ResetValue DEF PullRequestRow
  <2> QED BY <2>1, <2>2, <2>3 DEF PullRequestRow
<1> HIDE DEF new, row
<1>5. pr' \in [PullRequests -> PullRequestRow] /\ StateStep
  <2>1. /\ pr'[p] = WrittenRow(pr[p], row, new)
        /\ \A o \in PullRequests \ {p} : pr'[o] = pr[o]
    BY <1>1 DEF TypeInv, EligibilityTypeOK
  <2>2. /\ pr'[p] \in PullRequestRow
        /\ pr'[p].state = Written(pr[p].state, row.state, new.state)
    BY <1>2, <1>4, <2>1, WrittenRowType
  <2>3. pr'[p].state = "eligible" => pr[p].state = "eligible"
    BY <1>4, <2>2 DEF Written
  <2> QED BY <1>1, <2>1, <2>2, <2>3 DEF TypeInv, EligibilityTypeOK, StateStep
<1>6. scored' \subseteq PullRequests \X Score
  BY <1>1 DEF TypeInv, EligibilityTypeOK, Score
<1>7. session' \in [Sessions -> Loaded \cup {Idle}] /\ SessionsKnow'
  BY <1>1, <1>3, CommittedSession
<1> QED BY <1>1, <1>3, <1>5, <1>6, <1>7 DEF TypeInv, EligibilityTypeOK, DecisionStep

(* Reviews and approvals write one current decision and the state of its   *)
(* pull request.                                                           *)
LEMMA DecidedStep ==
  ASSUME TypeInv, NEW r \in Sessions, NEW d \in DOMAIN decision, NEW row,
         NEW state \in EligibilityState, Commits(r),
         SetDecision(r, d, row, state), RowStep(d, row),
         \/ state = session[r].pr[row.pr].state
         \/ state # "eligible"
         \/ decision[d].status = "pending_approval" /\ row.status = "eligible"
  PROVE  TypeInv' /\ DecisionStep /\ StateStep
PROOF
<1> DEFINE p == row.pr
           loaded == session[r].pr[p].state
           written == Written(pr[p].state, loaded, state)
<1>1. /\ decision' = [decision EXCEPT ![d] = row]
      /\ pr' = [pr EXCEPT ![p].state = written]
      /\ UNCHANGED <<policy, scored>>
  BY DEF SetDecision
<1>2. row \in DecisionRow /\ p \in PullRequests /\ p = decision[d].pr
  BY RowStepType DEF DecisionRow
<1>3. DecisionStep
  <2>1. /\ DOMAIN decision' = DOMAIN decision
        /\ decision' = [c \in DOMAIN decision |-> decision'[c]]
        /\ decision'[d] = row
        /\ \A c \in DOMAIN decision \ {d} : decision'[c] = decision[c]
    BY <1>1, <1>2, DecisionRows
  <2>2. \A c \in DOMAIN decision : RowStep(c, decision'[c])
    BY <2>1 DEF RowStep
  <2> QED BY <2>1, <2>2, ChangedDecisions
<1>4. pr[p].state \in EligibilityState /\ loaded \in EligibilityState
  BY <1>2, LoadedRows DEF Commits, TypeInv, EligibilityTypeOK, PullRequestRow
<1>5. written \in EligibilityState /\ written \in {pr[p].state, state}
  BY <1>4 DEF Written
<1>6. written = "eligible" =>
        \/ pr[p].state = "eligible"
        \/ decision[d].status = "pending_approval" /\ row.status = "eligible"
  BY <1>5 DEF Written
<1>7. decision'[d] = row /\ d \in DOMAIN decision'
  BY <1>1, DecisionRows
<1> HIDE DEF written
<1>8. /\ pr' \in [PullRequests -> PullRequestRow]
      /\ pr'[p].state = written
      /\ \A o \in PullRequests \ {p} : pr'[o] = pr[o]
  BY <1>1, <1>2, <1>5, StateWritten
<1>9. StateStep
  BY <1>2, <1>6, <1>7, <1>8 DEF StateStep
<1>10. session' \in [Sessions -> Loaded \cup {Idle}] /\ SessionsKnow'
  BY <1>3, CommittedSession
<1> QED BY <1>1, <1>3, <1>8, <1>9, <1>10 DEF TypeInv, EligibilityTypeOK, DecisionStep

(* A review writes the status and the endorsements of one decision.        *)
LEMMA ReviewStep ==
  ASSUME TypeInv, NEW r \in Sessions, NEW p \in PullRequests, NEW u \in Users,
         NEW rec \in Recommendation, PostReview(r, p, u, rec)
  PROVE  TypeInv' /\ DecisionStep /\ StateStep
PROOF
<1> DEFINE d == session[r].current[p].id
           row == decision[d]
           loaded == session[r].pr[row.pr].state
<1>1. Commits(r) /\ d # None /\ SubmitReview(r, u, d, rec)
  BY DEF PostReview
<1>2. session[r] # Idle
  BY <1>1 DEF Commits
<1>3. d \in DOMAIN decision /\ row \in DecisionRow
  BY <1>1, <1>2, LoadedRows, DecisionRows
<1>4. row.pr \in PullRequests /\ loaded \in EligibilityState
  BY <1>2, <1>3, LoadedRows DEF DecisionRow, PullRequestRow
<1>5. row.current /\ row.status \in Reviewable
  BY <1>1 DEF SubmitReview, CurrentInputs
<1>6. CASE rec = "approve"
  <2> DEFINE new == [row EXCEPT !.status = "pending_approval", !.endorsed = @ \cup {u}]
  <2>1. SetDecision(r, d, new, loaded)
    BY <1>1, <1>6 DEF SubmitReview
  <2>2. RowStep(d, new) /\ new.pr = row.pr
    BY <1>3, <1>5 DEF RowStep, ReviewedRow, DecisionRow
  <2> HIDE DEF new
  <2> QED BY <1>1, <1>3, <1>4, <2>1, <2>2, DecidedStep
<1>7. CASE rec = "request_changes"
  <2> DEFINE new == [row EXCEPT !.status = "changes_requested"]
  <2>1. SetDecision(r, d, new, loaded)
    BY <1>1, <1>7 DEF SubmitReview
  <2>2. RowStep(d, new) /\ new.pr = row.pr
    BY <1>3, <1>5 DEF RowStep, ReviewedRow, DecisionRow
  <2> HIDE DEF new
  <2> QED BY <1>1, <1>3, <1>4, <2>1, <2>2, DecidedStep
<1>8. CASE rec = "reject"
  <2> DEFINE new == [row EXCEPT !.status = "ineligible"]
  <2>1. SetDecision(r, d, new, "ineligible")
    BY <1>1, <1>8 DEF SubmitReview
  <2>2. RowStep(d, new) /\ new.pr = row.pr
    BY <1>3, <1>5 DEF RowStep, ReviewedRow, DecisionRow
  <2>3. "ineligible" \in EligibilityState /\ "ineligible" # "eligible"
    BY DEF EligibilityState
  <2> HIDE DEF new
  <2> QED BY <1>1, <1>3, <2>1, <2>2, <2>3, DecidedStep
<1> QED BY <1>6, <1>7, <1>8 DEF Recommendation

(* An approval writes the votes of one decision, and its outcome.          *)
LEMMA ApprovalStep ==
  ASSUME TypeInv, NEW r \in Sessions, NEW p \in PullRequests, NEW u \in Users,
         NEW out \in {"approved", "rejected"}, PostApproval(r, p, u, out)
  PROVE  TypeInv' /\ DecisionStep /\ StateStep
PROOF
<1> DEFINE d == session[r].current[p].id
           row == decision[d]
           loaded == session[r].pr[row.pr].state
           approved == row.approved \cup {u}
<1>1. Commits(r) /\ d # None /\ SubmitApproval(r, u, d, out)
  BY DEF PostApproval
<1>2. session[r] # Idle
  BY <1>1 DEF Commits
<1>3. d \in DOMAIN decision /\ row \in DecisionRow
  BY <1>1, <1>2, LoadedRows, DecisionRows
<1>4. row.pr \in PullRequests /\ loaded \in EligibilityState
  BY <1>2, <1>3, LoadedRows DEF DecisionRow, PullRequestRow
<1>5. row.current /\ row.status = "pending_approval" /\ MayApprove(u, d)
  BY <1>1 DEF SubmitApproval, CurrentInputs
<1>6. CASE out = "rejected"
  <2> DEFINE new == [row EXCEPT !.status = "ineligible", !.rejected = @ \cup {u}]
  <2>1. SetDecision(r, d, new, "ineligible")
    BY <1>1, <1>6 DEF SubmitApproval
  <2>2. RowStep(d, new) /\ new.pr = row.pr
    BY <1>3, <1>5 DEF RowStep, ApprovedRow, DecisionRow
  <2>3. "ineligible" \in EligibilityState /\ "ineligible" # "eligible"
    BY DEF EligibilityState
  <2> HIDE DEF new
  <2> QED BY <1>1, <1>3, <2>1, <2>2, <2>3, DecidedStep
<1>7. CASE out = "approved" /\ ~Quorum(approved, row)
  <2> DEFINE new == [row EXCEPT !.approved = approved]
  <2>1. SetDecision(r, d, new, loaded)
    BY <1>1, <1>7 DEF SubmitApproval
  <2>2. RowStep(d, new) /\ new.pr = row.pr
    BY <1>3, <1>5 DEF RowStep, ApprovedRow, DecisionRow
  <2> HIDE DEF new
  <2> QED BY <1>1, <1>3, <1>4, <2>1, <2>2, DecidedStep
<1>8. CASE out = "approved" /\ Quorum(approved, row)
  <2> DEFINE new == [row EXCEPT !.approved = approved, !.status = "eligible"]
  <2>1. SetDecision(r, d, new, "eligible")
    BY <1>1, <1>8 DEF SubmitApproval
  <2>2. RowStep(d, new) /\ new.pr = row.pr /\ new.status = "eligible"
    BY <1>3, <1>5, <1>8 DEF RowStep, ApprovedRow, DecisionRow
  <2>3. "eligible" \in EligibilityState
    BY DEF EligibilityState
  <2> HIDE DEF new
  <2> QED BY <1>1, <1>3, <1>5, <2>1, <2>2, <2>3, DecidedStep
<1> QED BY <1>6, <1>7, <1>8

(* Every step keeps the types and treats each decision as above.           *)
LEMMA TypeStep ==
  ASSUME TypeInv, [EligibilityNext]_eligibilityVars
  PROVE  TypeInv' /\ DecisionStep /\ StateStep
PROOF
<1>1. CASE UNCHANGED eligibilityVars
  BY <1>1, KeptDecisions
     DEF eligibilityVars, TypeInv, EligibilityTypeOK, SessionsKnow, StateStep
<1>2. CASE EligibilityNext
  BY <1>2, QuietStep, PolicyStep, EvaluationStep, SynchronizeStep, ReviewStep,
     ApprovalStep DEF EligibilityNext
<1> QED BY <1>1, <1>2

(* The tables start empty.                                                 *)
LEMMA TypeInit == EligibilityInit => TypeInv /\ decision = <<>>
PROOF
<1> SUFFICES ASSUME EligibilityInit PROVE TypeInv /\ decision = <<>>
  OBVIOUS
<1>1. EligibilityTypeOK
  BY DEF EligibilityInit, EligibilityTypeOK, PullRequestRow, EligibilityState
<1>2. SessionsKnow
  BY DEF EligibilityInit, SessionsKnow
<1> QED BY <1>1, <1>2 DEF TypeInv, EligibilityInit

(* The type invariant, for any requests, policies and inputs.              *)
THEOREM TypeCorrect == EligibilitySpec => []EligibilityTypeOK
PROOF
<1>1. TypeInv /\ [EligibilityNext]_eligibilityVars => TypeInv'
  BY TypeStep
<1>2. TypeInv => EligibilityTypeOK
  BY DEF TypeInv
<1> QED BY <1>1, <1>2, TypeInit, PTL DEF EligibilitySpec

-----------------------------------------------------------------------------
(* Quorum *)

(* What is inserted respects its policy.                                   *)
LEMMA InsertedSound ==
  ASSUME NEW row, InsertedRow(row)
  PROVE  Sound(row)
PROOF
<1>1. PICK p \in PullRequests, loaded \in PullRequestRow, pol \in Policies :
        loaded.latest # None /\ row = Evaluation(p, loaded, pol)
  BY Zenon DEF InsertedRow
<1>2. /\ row.required = Rules[pol].required_approvals /\ row.policy = pol /\ row.pr = p
      /\ row.score = loaded.latest /\ row.checks = ChecksOf(loaded)
      /\ row.endorsed = {} /\ row.approved = {} /\ row.rejected = {}
      /\ row.status = EvaluatedStatus(loaded.latest, pol, ChecksOf(loaded))
  BY <1>1 DEF Evaluation
<1>3. /\ row.status \in {"ineligible", "pending_review", "pending_approval"}
      /\ row.status # "ineligible" => ~Failing(row.score, row.policy, row.checks)
      /\ row.status = "pending_approval" => ~Rules[pol].human_review_required
  BY <1>2 DEF EvaluatedStatus
<1>4. row.status # "ineligible" => Respected(row)
  BY <1>2, <1>3 DEF Respected
<1> QED BY <1>2, <1>3, <1>4 DEF Sound, Open, Reviewable

(* What is said about an open decision respects its policy.                *)
LEMMA RowStepSound ==
  ASSUME TypeInv, NEW d \in DOMAIN decision, Sound(decision[d]),
         NEW row, RowStep(d, row)
  PROVE  Sound(row)
PROOF
<1> DEFINE old == decision[d]
<1>1. old \in DecisionRow
  BY DecisionRows
<1>2. CASE row = old
  BY <1>2
<1>3. CASE ClosedRow(d, row)
  <2>1. PICK s \in {old.status, "superseded"} :
          row = [old EXCEPT !.current = FALSE, !.status = s]
    BY <1>3 DEF ClosedRow
  <2>2. /\ row.status = s /\ row.required = old.required /\ row.policy = old.policy
        /\ row.pr = old.pr /\ row.score = old.score /\ row.checks = old.checks
        /\ row.endorsed = old.endorsed /\ row.approved = old.approved
        /\ row.rejected = old.rejected
    BY <1>1, <2>1 DEF DecisionRow
  <2>3. Respected(old) => Respected(row)
    BY <2>2 DEF Respected
  <2> QED BY <2>2, <2>3 DEF Sound, Open, Reviewable
<1>4. CASE ReviewedRow(d, row)
  <2>1. old.status \in Reviewable /\ Respected(old) /\ old.approved = {}
    BY <1>4 DEF ReviewedRow, Sound, Open, Reviewable
  <2>2. /\ row.required = old.required /\ row.policy = old.policy
        /\ row.pr = old.pr /\ row.score = old.score /\ row.checks = old.checks
        /\ row.approved = old.approved /\ row.rejected = old.rejected
        /\ row.status \in {"pending_approval", "changes_requested", "ineligible"}
        /\ row.status = "pending_approval" => row.endorsed # {}
    BY <1>1, <1>4 DEF ReviewedRow, DecisionRow
  <2>3. Respected(row)
    BY <2>1, <2>2 DEF Respected
  <2> QED BY <2>1, <2>2, <2>3 DEF Sound, Open, Reviewable
<1>5. CASE ApprovedRow(d, row)
  <2>1. old.status = "pending_approval" /\ Respected(old)
    BY <1>5 DEF ApprovedRow, Sound, Open
  <2>2. PICK u \in Users :
          /\ MayApprove(u, d)
          /\ LET approved == old.approved \cup {u}
             IN \/ row = [old EXCEPT !.status = "ineligible",
                                     !.rejected = @ \cup {u}]
                \/ row = [old EXCEPT !.approved = approved]
                \/ /\ Quorum(approved, old)
                   /\ row = [old EXCEPT !.approved = approved,
                                        !.status = "eligible"]
    BY <1>5 DEF ApprovedRow
  <2>3. /\ row.required = old.required /\ row.policy = old.policy
        /\ row.pr = old.pr /\ row.score = old.score /\ row.checks = old.checks
        /\ row.endorsed = old.endorsed
    BY <1>1, <2>2 DEF DecisionRow
  <2>4. CASE row.status = "ineligible"
    BY <2>3, <2>4 DEF Sound, Open, Reviewable
  <2>5. CASE row.status # "ineligible"
    <3>1. /\ row.approved = old.approved \cup {u} /\ row.rejected = old.rejected
          /\ row.status \in {"pending_approval", "eligible"}
          /\ row.status = "eligible" => Quorum(row.approved, old)
      BY <1>1, <2>1, <2>2, <2>5 DEF DecisionRow
    <3>2. Respected(row)
      BY <2>1, <2>2, <2>3, <3>1 DEF Respected, MayApprove
    <3> QED BY <2>1, <2>3, <3>1, <3>2 DEF Sound, Open, Reviewable, Quorum
  <2> QED BY <2>4, <2>5
<1> QED BY <1>2, <1>3, <1>4, <1>5 DEF RowStep

(* Every decision stays sound.                                             *)
LEMMA QuorumKept ==
  ASSUME QuorumInv, TypeInv', DecisionStep
  PROVE  QuorumInv'
PROOF
<1>1. TypeInv' /\ DecisionStep
  OBVIOUS
<1>2. ASSUME NEW d \in DOMAIN decision' PROVE Sound(decision'[d])
  <2>1. CASE d \in DOMAIN decision
    BY <1>1, <2>1, RowStepSound DEF QuorumInv, DecisionStep
  <2>2. CASE d \notin DOMAIN decision
    BY <1>1, <2>2, InsertedSound DEF DecisionStep
  <2> QED BY <2>1, <2>2
<1>3. \A d \in DOMAIN decision' : Sound(decision[d])'
  BY <1>2 DEF Sound, Respected, Failing
<1> QED BY <1>1, <1>3 DEF QuorumInv

(* Nothing becomes eligible without its quorum of other people, however    *)
(* reviews, approvals, evaluations and synchronizations overlap.           *)
THEOREM EligibilityNeedsQuorum == EligibilitySpec => []EligibleByQuorum
PROOF
<1>1. EligibilityInit => QuorumInv
  BY TypeInit DEF QuorumInv
<1>2. QuorumInv => EligibleByQuorum
  BY DEF QuorumInv, EligibleByQuorum, ByQuorum, Sound, Respected
<1>3. QuorumInv /\ [EligibilityNext]_eligibilityVars => QuorumInv'
  BY TypeStep, QuorumKept DEF QuorumInv
<1> QED BY <1>1, <1>2, <1>3, PTL DEF EligibilitySpec

-----------------------------------------------------------------------------
(* The state of a pull request *)

(* A decision that reached its quorum keeps it.                            *)
LEMMA WonStays ==
  ASSUME TypeInv, TypeInv', DecisionStep, NEW d \in DOMAIN decision, Won(d)
  PROVE  /\ d \in DOMAIN decision' /\ Won(d)' /\ decision'[d].pr = decision[d].pr
         /\ decision'[d].policy = decision[d].policy
         /\ decision'[d].approved = decision[d].approved
PROOF
<1> DEFINE old == decision[d]
           new == decision'[d]
<1>1. d \in DOMAIN decision' /\ RowStep(d, new) /\ old \in DecisionRow
  BY DecisionRows DEF DecisionStep
<1>2. old.status \in {"eligible", "superseded"}
  BY DEF Won
<1>3. new = old \/ ClosedRow(d, new)
  BY <1>1, <1>2 DEF RowStep, ReviewedRow, ApprovedRow, Reviewable
<1>4. /\ new.required = old.required /\ new.policy = old.policy
      /\ new.pr = old.pr /\ new.score = old.score /\ new.checks = old.checks
      /\ new.endorsed = old.endorsed /\ new.approved = old.approved
      /\ new.rejected = old.rejected /\ new.status \in {"eligible", "superseded"}
  <2>1. CASE new = old
    BY <1>2, <2>1
  <2>2. CASE ClosedRow(d, new)
    BY <1>1, <1>2, <2>2 DEF ClosedRow, DecisionRow
  <2> QED BY <1>3, <2>1, <2>2
<1>5. Won(d)'
  BY <1>4 DEF Won, ByQuorum, Failing
<1> QED BY <1>1, <1>4, <1>5

(* An eligible pull request keeps a decision that earned it.               *)
LEMMA EarnedKept ==
  ASSUME EarnedInv, TypeInv', DecisionStep, StateStep
  PROVE  EarnedInv'
PROOF
<1>1. QuorumInv' /\ TypeInv
  BY QuorumKept DEF EarnedInv, QuorumInv
<1>2. TypeInv' /\ DecisionStep /\ StateStep
  OBVIOUS
<1>3. ASSUME NEW p \in PullRequests, pr'[p].state = "eligible"
      PROVE  \E d \in DOMAIN decision' : decision'[d].pr = p /\ Won(d)'
  <2>1. CASE pr[p].state = "eligible"
    BY <1>1, <1>2, <2>1, WonStays DEF EarnedInv
  <2>2. CASE pr[p].state # "eligible"
    <3>1. PICK d \in DOMAIN decision : /\ decision[d].pr = p /\ d \in DOMAIN decision'
                                       /\ decision'[d].status = "eligible"
      BY <1>2, <1>3, <2>2 DEF StateStep
    <3>2. decision'[d].pr = p
      BY <1>1, <1>2, <3>1, RowStepType DEF DecisionStep
    <3>3. Won(d)'
      BY <1>1, <3>1 DEF QuorumInv, Won, ByQuorum, Sound, Respected
    <3> QED BY <3>1, <3>2, <3>3
  <2> QED BY <2>1, <2>2
<1> QED BY <1>1, <1>3 DEF EarnedInv

(* The state column of a pull request says eligible only if a decision     *)
(* earned it, although every handler writes the column from a copy.        *)
THEOREM StateEarned == EligibilitySpec => []EligibleStateEarned
PROOF
<1>1. EligibilityInit => EarnedInv
  BY TypeInit DEF EarnedInv, QuorumInv, EligibilityInit
<1>2. EarnedInv => EligibleStateEarned
  BY DEF EarnedInv, EligibleStateEarned, Won
<1>3. EarnedInv /\ [EligibilityNext]_eligibilityVars => EarnedInv'
  BY TypeStep, EarnedKept DEF EarnedInv, QuorumInv
<1> QED BY <1>1, <1>2, <1>3, PTL DEF EligibilitySpec

-----------------------------------------------------------------------------
(* Current and closed decisions *)

(* No step makes a second decision of a pull request current.              *)
LEMMA OneCurrentKept ==
  ASSUME OneCurrentInv, TypeInv', DecisionStep
  PROVE  OneCurrentInv'
PROOF
<1>1. TypeInv /\ TypeInv' /\ DecisionStep
  BY DEF OneCurrentInv
<1>2. ASSUME NEW d \in DOMAIN decision
      PROVE  /\ decision'[d].pr = decision[d].pr
             /\ decision'[d].current => decision[d].current
  BY <1>1, RowStepType DEF DecisionStep
<1>3. \A d \in DOMAIN decision' \ DOMAIN decision, c \in DOMAIN decision :
        ~(decision'[c].pr = decision'[d].pr /\ decision'[c].current)
  BY <1>1 DEF DecisionStep, InsertedRow
<1>4. \A c, d \in DOMAIN decision' \ DOMAIN decision : c = d
  BY <1>1 DEF DecisionStep
<1>5. \A c, d \in DOMAIN decision' :
        decision'[c].current /\ decision'[d].current
          /\ decision'[c].pr = decision'[d].pr => c = d
  BY <1>2, <1>3, <1>4 DEF OneCurrentInv
<1> QED BY <1>1, <1>5 DEF OneCurrentInv

(* One current row is one current decision.                                *)
LEMMA OneCurrentCounted == OneCurrentInv => OneCurrentDecision
PROOF
<1> SUFFICES ASSUME OneCurrentInv, NEW p \in PullRequests
             PROVE  Cardinality(CurrentDecisions(p)) <= 1
  BY DEF OneCurrentDecision
<1>1. CASE CurrentDecisions(p) = {}
  BY <1>1, FS_EmptySet
<1>2. ASSUME NEW d \in CurrentDecisions(p)
      PROVE  Cardinality(CurrentDecisions(p)) <= 1
  <2>1. CurrentDecisions(p) = {d}
    BY DEF OneCurrentInv, CurrentDecisions
  <2>2. Cardinality({d}) = 1
    BY FS_Singleton
  <2> QED BY <2>1, <2>2
<1> QED BY <1>1, <1>2

(* However many evaluations run at once, a pull request has at most one    *)
(* current decision.                                                       *)
THEOREM OneCurrent == EligibilitySpec => []OneCurrentDecision
PROOF
<1>1. EligibilityInit => OneCurrentInv
  BY TypeInit DEF OneCurrentInv
<1>2. OneCurrentInv /\ [EligibilityNext]_eligibilityVars => OneCurrentInv'
  BY TypeStep, OneCurrentKept DEF OneCurrentInv
<1> QED BY <1>1, <1>2, OneCurrentCounted, PTL DEF EligibilitySpec

(* A row that is closed keeps its votes and its end.                       *)
LEMMA ClosedRows ==
  ASSUME TypeInv, DecisionStep, NEW d \in DOMAIN decision
  PROVE  /\ ~decision[d].current => decision'[d] = decision[d]
         /\ decision[d].status \in {"eligible", "ineligible"} =>
              /\ Votes(decision'[d]) = Votes(decision[d])
              /\ decision'[d].status \in {decision[d].status, "superseded"}
PROOF
<1>1. RowStep(d, decision'[d]) /\ decision[d] \in DecisionRow
  BY DecisionRows DEF DecisionStep
<1>2. CASE decision'[d] = decision[d]
  BY <1>2
<1>3. CASE ClosedRow(d, decision'[d])
  BY <1>1, <1>3 DEF ClosedRow, DecisionRow, Votes
<1>4. CASE ReviewedRow(d, decision'[d]) \/ ApprovedRow(d, decision'[d])
  BY <1>4 DEF ReviewedRow, ApprovedRow, Reviewable
<1> QED BY <1>1, <1>2, <1>3, <1>4 DEF RowStep

(* A decision that was superseded or decided never changes its votes or    *)
(* comes back, whatever the requests that loaded it before still do.       *)
THEOREM ClosedFrozen == EligibilitySpec => ClosedDecisionsFrozen
PROOF
<1>1. TypeInv /\ [EligibilityNext]_eligibilityVars =>
        [\A d \in DOMAIN decision :
           /\ ~decision[d].current => decision'[d] = decision[d]
           /\ decision[d].status \in {"eligible", "ineligible"} =>
                /\ Votes(decision'[d]) = Votes(decision[d])
                /\ decision'[d].status \in {decision[d].status, "superseded"}
        ]_eligibilityVars
  BY TypeStep, ClosedRows
<1>2. TypeInv /\ [EligibilityNext]_eligibilityVars => TypeInv'
  BY TypeStep
<1> QED BY <1>1, <1>2, TypeInit, PTL DEF EligibilitySpec, ClosedDecisionsFrozen
=============================================================================
