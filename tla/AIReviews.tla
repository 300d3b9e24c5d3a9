------------------------------ MODULE AIReviews ------------------------------
(***************************************************************************)
(* Advisory AI reviews of one pull request (services/ai_review_service.py, *)
(* ai_review_quota.py, api/ai_review_routes.py, the execute and dispatch   *)
(* tasks of worker/tasks.py).                                              *)
(*                                                                         *)
(* A request decides on what it loaded (Ask), inserts a review and sends   *)
(* its id to the ai_review queue; without a broker it executes the review  *)
(* itself.  An executor holds the review's row lock from the status check  *)
(* through the quota and the provider call to the commit.  The dispatcher  *)
(* resends every pending review.                                           *)
(***************************************************************************)
EXTENDS Integers, Sequences, FiniteSets, Rows

CONSTANTS
  AIInputs,         \* canonical inputs: a head with its diff, findings, requirements
  AIPolicies,       \* ai_review_policies rows
  AIRules,          \* [AIPolicies -> rules]
  DefaultAIPolicy,  \* the policy a repository gets when it has none
  AIProviders,      \* providers that may be configured
  AIExternal,       \* those that are external
  AITries,          \* [AIProviders -> models a review tries in turn]
  AIRequests,       \* HTTP requests
  AIWorkers,        \* workers of the ai_review queue
  AIDailyLimit,     \* AI_REVIEW_DAILY_LIMIT
  MaxAIReviews,     \* bound: reviews inserted
  MaxAIFaults,      \* bound: crashes and failed transactions of executors
  MaxAIDays         \* bound: midnights

Executors == AIRequests \cup AIWorkers

(* validate_ai_review_policy without its patch limits. *)
AIRuleSet == [enabled : BOOLEAN, allow_external_providers : BOOLEAN,
              allow_private_repository_external : BOOLEAN]

ASSUME AIAssumption ==
  /\ AIRules \in [AIPolicies -> AIRuleSet] /\ DefaultAIPolicy \in AIPolicies
  /\ AIExternal \subseteq AIProviders /\ AITries \in [AIProviders -> Nat \ {0}]
  /\ AIDailyLimit \in Nat /\ MaxAIReviews \in Nat
  /\ MaxAIFaults \in Nat /\ MaxAIDays \in Nat
  /\ None \notin AIInputs \cup AIPolicies

VARIABLES
  source,      \* what a request reads: the AI policy, is_private, the analysed input
  configured,  \* the provider of settings.AI_REVIEW_PROVIDER
  review,      \* the ai_reviews table, in order of insertion
  sent,        \* reviews with a message in the queue
  asking,      \* what each request has loaded
  run,         \* the execution each executor is in
  quota        \* the day, slots used and calls made by provider and day, faults

aiVars == <<source, configured, review, sent, asking, run, quota>>

AIStatus == {"pending", "complete", "failed", "blocked"}
Source == [policy : AIPolicies \cup {None}, private : BOOLEAN, input : AIInputs \cup {None}]
Review == [input : AIInputs \cup {None}, policy : AIPolicies, private : BOOLEAN,
           provider : AIProviders, nonce : Nat, status : AIStatus]
Draft == [source : Source, provider : AIProviders, force : BOOLEAN, same : Nat]
Execution == [review : Nat, stage : {"waiting", "locked", "reserved", "calling"},
              provider : AIProviders, day : Nat, tries : Nat]
Tally == [AIProviders -> [0..MaxAIDays -> Nat]]

AITypeOK ==
  /\ source \in Source /\ configured \in AIProviders
  /\ review \in Seq(Review)
  /\ sent \subseteq DOMAIN review
  /\ asking \in [AIRequests -> {Idle} \cup Draft \cup [manual : DOMAIN review]]
  /\ run \in [Executors -> {Idle} \cup Execution]
  /\ quota \in [day : 0..MaxAIDays, used : Tally, calls : Tally, faults : 0..MaxAIFaults]

AIInit ==
  /\ source \in [policy : {None}, private : BOOLEAN, input : {None}]
  /\ configured \in AIProviders
  /\ review = <<>>
  /\ sent = {}
  /\ asking = [q \in AIRequests |-> Idle]
  /\ run = [e \in Executors |-> Idle]
  /\ LET none == [p \in AIProviders |-> [d \in 0..MaxAIDays |-> 0]]
     IN quota = [day |-> 0, used |-> none, calls |-> none, faults |-> 0]

-----------------------------------------------------------------------------
(* The repository, its policy and the configuration *)

(* A scoring run completes for a new input, or the input becomes           *)
(* incomplete.                                                             *)
Analyse(i) ==
  /\ source' = [source EXCEPT !.input = i]
  /\ UNCHANGED <<configured, review, sent, asking, run, quota>>

GetAIPolicy ==
  /\ source.policy = None
  /\ source' = [source EXCEPT !.policy = DefaultAIPolicy]
  /\ UNCHANGED <<configured, review, sent, asking, run, quota>>

PutAIPolicy(pol) ==
  /\ source' = [source EXCEPT !.policy = pol]
  /\ UNCHANGED <<configured, review, sent, asking, run, quota>>

(* A login or a webhook writes what GitHub says of the repository.         *)
SyncRepository(private) ==
  /\ source' = [source EXCEPT !.private = private]
  /\ UNCHANGED <<configured, review, sent, asking, run, quota>>

Reconfigure(p) ==
  /\ configured' = p
  /\ UNCHANGED <<source, review, sent, asking, run, quota>>

Midnight ==
  /\ quota.day < MaxAIDays
  /\ quota' = [quota EXCEPT !.day = @ + 1]
  /\ UNCHANGED <<source, configured, review, sent, asking, run>>

-----------------------------------------------------------------------------
(* Requests *)

(* _privacy_decision *)
Allowed(pol, provider, private) ==
  /\ AIRules[pol].enabled
  /\ provider \in AIExternal =>
       /\ AIRules[pol].allow_external_providers
       /\ private => AIRules[pol].allow_private_repository_external

PolicyOf(src) == IF src.policy = None THEN DefaultAIPolicy ELSE src.policy
Snapshot(src, provider) ==
  IF Allowed(PolicyOf(src), provider, src.private) THEN src.input ELSE None
SameInput(i) == {r \in DOMAIN review : review[r].input = i}

Busy(q) == asking[q] # Idle \/ run[q] # Idle

(* post_ai_review and post_ai_review_retry (force) load and decide. *)
AskForReview(q, force) ==
  /\ ~Busy(q)
  /\ source.input # None
  /\ asking' = [asking EXCEPT ![q] =
       [source |-> source, provider |-> configured, force |-> force,
        same |-> Cardinality(SameInput(Snapshot(source, configured)))]]
  /\ UNCHANGED <<source, configured, review, sent, run, quota>>

(* An attempt's nonce is 0 when there is none: the count starts at 1. *)
NewReview(draft) ==
  LET pol == PolicyOf(draft.source)
  IN [input |-> Snapshot(draft.source, draft.provider), policy |-> pol,
      private |-> draft.source.private, provider |-> draft.provider,
      nonce |-> IF draft.force \/ draft.same > 0 THEN draft.same + 1 ELSE 0,
      status |-> IF Allowed(pol, draft.provider, draft.source.private)
                 THEN "pending" ELSE "blocked"]

(* review_key hashes neither the outcome nor the privacy decision, and is  *)
(* unique.                                                                 *)
Key(row) == <<row.input, row.policy, row.provider, row.nonce>>
NewKey(row) == \A r \in DOMAIN review : Key(review[r]) # Key(row)

(* After the commit the message is sent or not, and without a broker (or   *)
(* in development) the request executes the review itself.                 *)
Waiting(r) == [review |-> r, stage |-> "waiting", provider |-> configured,
               day |-> 0, tries |-> 0]
Handed(q, r, status) ==
  /\ sent' \in {sent} \cup {sent \cup {r} : s \in {status} \cap {"pending"}}
  /\ run' \in {run} \cup {[run EXCEPT ![q] = Waiting(r)] :
                           s \in {status} \cap {"pending"}}

FinishRequest(q, row) ==
  /\ source' = [source EXCEPT !.policy =
                  Written(@, asking[q].source.policy, row.policy)]
  /\ asking' = [asking EXCEPT ![q] = Idle]
  /\ UNCHANGED <<configured, quota>>

InsertReview(q) ==
  /\ asking[q] # Idle /\ "source" \in DOMAIN asking[q]
  /\ Len(review) < MaxAIReviews
  /\ LET row == NewReview(asking[q])
     IN /\ NewKey(row)
        /\ review' = Append(review, row)
        /\ Handed(q, Len(review) + 1, row.status)
        /\ FinishRequest(q, row)

(* Another request committed the same review between the two queries.      *)
FindReview(q, r) ==
  /\ asking[q] # Idle /\ "source" \in DOMAIN asking[q] /\ ~asking[q].force
  /\ Key(review[r]) = Key(NewReview(asking[q]))
  /\ Handed(q, r, review[r].status)
  /\ FinishRequest(q, review[r])
  /\ UNCHANGED review

(* A violated index, a conflict or a crash: nothing is written. *)
DropRequest(q) ==
  /\ asking[q] # Idle
  /\ asking' = [asking EXCEPT ![q] = Idle]
  /\ UNCHANGED <<source, configured, review, sent, run, quota>>

-----------------------------------------------------------------------------
(* Execution *)

LockHolders(r) == {e \in Executors : run[e] # Idle /\ run[e].review = r
                                     /\ run[e].stage # "waiting"}
(* The mutant reads the review without FOR UPDATE. *)
NoLockTaken(r) == TRUE
LockFree(r) == LockHolders(r) = {}

(* A message stays in the queue until its task ends. *)
TakeMessage(w, r) ==
  /\ run[w] = Idle
  /\ r \in sent
  /\ run' = [run EXCEPT ![w] = Waiting(r)]
  /\ UNCHANGED <<source, configured, review, sent, asking, quota>>

Acknowledge(e) == sent' = IF e \in AIWorkers THEN sent \ {run[e].review} ELSE sent
Return(e) == run' = [run EXCEPT ![e] = Idle] /\ Acknowledge(e)

FindEnded(e) ==
  /\ run[e] # Idle /\ run[e].stage = "waiting" /\ LockFree(run[e].review)
  /\ review[run[e].review].status # "pending"
  /\ Return(e)
  /\ UNCHANGED <<source, configured, review, asking, quota>>

LockPending(e) ==
  /\ run[e] # Idle /\ run[e].stage = "waiting" /\ LockFree(run[e].review)
  /\ review[run[e].review].status = "pending"
  /\ run' = [run EXCEPT ![e].stage = "locked", ![e].provider = configured]
  /\ UNCHANGED <<source, configured, review, sent, asking, quota>>

(* complete_ai_review, fail_ai_review and the event, one commit. *)
Ends(e, status) ==
  /\ review' = [review EXCEPT ![run[e].review].status = status]
  /\ Return(e)
  /\ UNCHANGED <<source, configured, asking>>

(* The mutant calls whichever provider is configured now. *)
AnyProvider(e) == TRUE
SameProvider(e) == review[run[e].review].provider = run[e].provider

(* reserve_daily_ai_review_request, one Lua script on the key of the       *)
(* provider and the day; the mutant is off by one.                         *)
SlotLeftOver(p) == quota.used[p][quota.day] <= AIDailyLimit
SlotFree(p) == quota.used[p][quota.day] < AIDailyLimit

ReserveSlot(e) ==
  /\ run[e] # Idle /\ run[e].stage = "locked"
  /\ SameProvider(e) /\ SlotFree(run[e].provider)
  /\ run' = [run EXCEPT ![e].stage = "reserved", ![e].day = quota.day]
  /\ quota' = [quota EXCEPT !.used[run[e].provider][quota.day] = @ + 1]
  /\ UNCHANGED <<source, configured, review, sent, asking>>

(* Another provider, no slot, or no answer from the configuration or Redis.*)
(* The mutants leave the review to the dispatcher, or give it a status     *)
(* that the table does not know.                                           *)
RefusedStatusPending == "pending"
RefusedStatusUnknown == "refused"
RefusedStatus == "failed"

RefuseExecution(e) ==
  /\ run[e] # Idle /\ run[e].stage = "locked"
  /\ Ends(e, RefusedStatus)
  /\ UNCHANGED quota

(* The first call, or after a 503 one more with the next model.            *)
CallProvider(e) ==
  /\ run[e] # Idle /\ run[e].stage \in {"reserved", "calling"}
  /\ run[e].tries < AITries[run[e].provider]
  /\ run' = [run EXCEPT ![e].stage = "calling", ![e].tries = @ + 1]
  /\ quota' = [quota EXCEPT !.calls[run[e].provider][run[e].day] = @ + 1]
  /\ UNCHANGED <<source, configured, review, sent, asking>>

(* The provider answers, refuses or fails; moderation passes or does not.  *)
ProviderAnswers(e, status) ==
  /\ run[e] # Idle /\ run[e].stage = "calling"
  /\ Ends(e, status)
  /\ UNCHANGED quota

(* An executor dies, or its transaction fails: its work is rolled back and *)
(* the message is redelivered, unless its retries are used up.             *)
ExecutorFails(e) ==
  /\ run[e] # Idle
  /\ quota.faults < MaxAIFaults
  /\ quota' = [quota EXCEPT !.faults = @ + 1]
  /\ run' = [run EXCEPT ![e] = Idle]
  /\ \/ UNCHANGED sent
     \/ Acknowledge(e)
  /\ UNCHANGED <<source, configured, review, asking>>

DispatchPending ==
  /\ sent' = sent \cup {r \in DOMAIN review : review[r].status = "pending"}
  /\ sent' # sent
  /\ UNCHANGED <<source, configured, review, asking, run, quota>>

-----------------------------------------------------------------------------
(* The manual routes, where they are enabled: they load without a lock,    *)
(* and the table's trigger sees the row.  The mutant has no trigger.       *)
LoadPending(q, r) ==
  /\ ~Busy(q)
  /\ review[r].status = "pending"
  /\ asking' = [asking EXCEPT ![q] = [manual |-> r]]
  /\ UNCHANGED <<source, configured, review, sent, run, quota>>

AnyRecord(r) == TRUE
ProtectedRecord(r) == review[r].status = "pending"

PostOutcome(q, status) ==
  /\ asking[q] # Idle /\ "manual" \in DOMAIN asking[q]
  /\ LockFree(asking[q].manual)
  /\ ProtectedRecord(asking[q].manual)
  /\ review' = [review EXCEPT ![asking[q].manual].status = status]
  /\ asking' = [asking EXCEPT ![q] = Idle]
  /\ UNCHANGED <<source, configured, sent, run, quota>>

-----------------------------------------------------------------------------
ExecutorGoesOn(e) ==
  \/ FindEnded(e) \/ LockPending(e) \/ ReserveSlot(e) \/ RefuseExecution(e)
  \/ CallProvider(e)
  \/ \E status \in {"complete", "failed"} : ProviderAnswers(e, status)

AINext ==
  \/ GetAIPolicy \/ Midnight \/ DispatchPending
  \/ \E i \in AIInputs \cup {None} : Analyse(i)
  \/ \E pol \in AIPolicies : PutAIPolicy(pol)
  \/ \E p \in AIProviders : Reconfigure(p)
  \/ \E private \in BOOLEAN : SyncRepository(private)
  \/ \E q \in AIRequests :
       \/ InsertReview(q) \/ DropRequest(q)
       \/ \E force \in BOOLEAN : AskForReview(q, force)
       \/ \E r \in DOMAIN review : FindReview(q, r) \/ LoadPending(q, r)
       \/ \E status \in {"complete", "failed"} : PostOutcome(q, status)
  \/ \E w \in AIWorkers, r \in sent : TakeMessage(w, r)
  \/ \E e \in Executors : ExecutorGoesOn(e) \/ ExecutorFails(e)

AISpec == AIInit /\ [][AINext]_aiVars

(* Beat runs the dispatcher, idle workers consume the queue, an execution  *)
(* goes on (the provider call has a timeout).                              *)
AIFairness ==
  /\ WF_aiVars(DispatchPending)
  /\ \A w \in AIWorkers : WF_aiVars(\E r \in sent : TakeMessage(w, r))
  /\ \A e \in Executors : WF_aiVars(ExecutorGoesOn(e))

-----------------------------------------------------------------------------
(* Properties *)

(* A review that ended keeps its outcome: not a duplicate message, a retry *)
(* or a manual completion on a stale copy gives it a second one            *)
(* (protect_ai_review_record).                                             *)
OutcomesFinal ==
  [][\A r \in DOMAIN review :
       review[r].status # "pending" => review'[r] = review[r]]_aiVars

(* Two executors are never at the provider for the same review, however    *)
(* often its message was sent (with_for_update in execute_ai_review_by_id).*)
OneExecutionAtATime == \A r \in DOMAIN review : Cardinality(LockHolders(r)) <= 1

(* What leaves for a provider was allowed by the policy and the visibility *)
(* of the repository that the request recorded (privacy_decision), also    *)
(* when the configured provider has changed in between.                    *)
PrivacyKept ==
  \A e \in Executors : run[e] # Idle /\ run[e].stage \in {"reserved", "calling"} =>
    LET row == review[run[e].review]
    IN Allowed(row.policy, run[e].provider, row.private)

(* backend/README.md: private repositories block external providers before *)
(* any repository data is assembled or sent - so no call leaves with the   *)
(* data of a repository that is private by then and not opted in.          *)
PrivateNeverSent ==
  [][\A e \in Executors : CallProvider(e) =>
       Allowed(review[run[e].review].policy, run[e].provider, source.private)]_aiVars

(* The slots of a day pay for all calls of a provider: each slot for its   *)
(* models tried once, and no more slots than the limit, with retries after *)
(* crashes and executions across midnight.                                 *)
DailyLimitKept ==
  \A p \in AIProviders, d \in 0..MaxAIDays :
    quota.calls[p][d] <= AIDailyLimit * AITries[p]

(* Every pending review ends: a lost message, a crash or a broker outage   *)
(* does not leave it pending.                                              *)
Pending(r) == r \in DOMAIN review /\ review[r].status = "pending"
ReviewsEnd == \A r \in 1..MaxAIReviews : Pending(r) ~> ~Pending(r)
=============================================================================
