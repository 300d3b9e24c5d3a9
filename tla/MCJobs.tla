-------------------------------- MODULE MCJobs --------------------------------
(* The background jobs, for TLC: AI reviews, notifications and webhook        *)
(* deliveries.  Their queues share no state: in every behaviour one of them   *)
(* moves and the others stay as they began.                                   *)
EXTENDS AIReviews, Notifications, TLC

CONSTANTS n1, usual, near, far, q1, q2, a1,   \* AIReviews
          k1, k2, u1, e1, e2, b1, b2,         \* Notifications
          pr1, d1, d2, x1, x2, w1, w2         \* Ingestion

(* External providers are allowed, but not for a private repository. *)
UsualRules == usual :> [enabled |-> TRUE, allow_external_providers |-> TRUE,
                        allow_private_repository_external |-> FALSE]

(* The local provider has one model, the external one a second.            *)
OneOrTwo == near :> 1 @@ far :> 2

(* What Ingestion is about. *)
CONSTANTS PullRequests, Deliveries, Dispatchers, Workers, Oversized,
          MaxRetries, Faults, MaxVersions, MaxMishaps
VARIABLES github, stored, delivery, latest, queue, dispatcher, worker, mishaps
Ingest == INSTANCE Ingestion
ingestVars == <<github, stored, delivery, latest, queue, dispatcher, worker, mishaps>>

VARIABLE part   \* what moves

jobsVars == <<aiVars, noteVars, ingestVars, part>>

(* AI reviews come in two parts: two requests under one configuration, and *)
(* one request through changes of the provider, the visibility and the day.*)
AIParts == {"requests", "executions"}

JobsInit ==
  /\ AIInit /\ NotificationsInit /\ Ingest!Init
  /\ part \in AIParts \cup {"notifications", "deliveries"}
  /\ part \notin AIParts => configured = near /\ source.private

SameConditions == /\ configured' = configured
                  /\ source'.private = source.private
                  /\ quota'.day = quota.day
OneRequest == asking[q2] = Idle /\ run[q2] = Idle
AnalysedOnce == /\ source.input # None => source'.input # None
                /\ source.policy = None \/ source'.policy # None

(* What may be interchanged is used in order: the second request, emitter *)
(* and event only while or after the first, and so the second delivery.   *)
InOrder ==
  /\ Busy(q2)' => Busy(q1) \/ Busy(q2)
  /\ emitting'[e2] # Idle => emitting[e1] # Idle \/ emitting[e2] # Idle
  /\ k2 \in announced' => k1 \in announced'
  /\ delivery'[d2] # None => delivery'[d1] # None

JobsNext ==
  /\ \/ /\ part = "requests" /\ AINext /\ SameConditions
        /\ UNCHANGED <<noteVars, ingestVars>>
     \/ /\ part = "executions" /\ AINext /\ OneRequest' /\ AnalysedOnce
        /\ UNCHANGED <<noteVars, ingestVars>>
     \/ /\ part = "notifications" /\ NotificationsNext
        /\ UNCHANGED <<aiVars, ingestVars>>
     \/ /\ part = "deliveries" /\ Ingest!Next
        /\ UNCHANGED <<aiVars, noteVars>>
  /\ UNCHANGED part /\ InOrder

(* The fairness of each component, where it moves.                         *)
AIFair ==
  /\ WF_aiVars(part \in AIParts /\ DispatchPending)
  /\ \A w \in AIWorkers :
       WF_aiVars(part \in AIParts /\ \E r \in sent : TakeMessage(w, r))
  /\ \A e \in Executors : WF_aiVars(part \in AIParts /\ ExecutorGoesOn(e))
NotificationsFair ==
  /\ \A x \in Beats : WF_noteVars(part = "notifications" /\ Dispatch(x))
  /\ \A n \in Notes : WF_noteVars(part = "notifications" /\ RetryTimeComes(n))
DeliveriesFair ==
  /\ \A x \in Dispatchers : WF_ingestVars(part = "deliveries" /\ Ingest!Dispatch(x))
  /\ \A w \in Workers : /\ WF_ingestVars(part = "deliveries" /\ Ingest!Consume(w))
                        /\ SF_ingestVars(part = "deliveries" /\ Ingest!Process(w))

FairJobs == /\ JobsInit /\ [][JobsNext]_jobsVars
            /\ AIFair /\ NotificationsFair /\ DeliveriesFair

JobsTypeOK == AITypeOK /\ NotificationsTypeOK

(* Every delivery that was received takes effect or fails for good.        *)
DeliveriesTakeEffect == Ingest!DeliveriesTakeEffect
=============================================================================
