------------------------------ MODULE Ingestion ------------------------------
(***************************************************************************)
(* From a GitHub event to the stored copy of a pull request: the webhook   *)
(* receiver and its outbox (github/webhook.py, services/outbox_service.py),*)
(* the Celery task with its retries (worker/tasks.py), and the processor   *)
(* that fetches GitHub's current state and applies it                      *)
(* (services/delivery_processor.py, services/webhook_sync_service.py).     *)
(*                                                                         *)
(* GitHub's state of a pull request is a version number, its updated_at.   *)
(* A webhook is only a notification: the worker reads the pull request and *)
(* then its files, in two requests between which GitHub may change.        *)
(***************************************************************************)
EXTENDS Integers, Bags

CONSTANTS
  PullRequests,  \* pull requests of one repository known to the application
  Deliveries,    \* webhook deliveries, GitHub's and the operators'
  Dispatchers,   \* processes that run dispatch_webhook_outbox
  Workers,       \* processes that run process_webhook_delivery
  None,          \* SQL NULL
  Oversized,     \* <<pull request, version>> pairs with more than 3,000 files
  MaxRetries,    \* CELERY_MAX_RETRIES
  Faults,        \* which of "crash", "broker", "github" can happen
  MaxVersions,   \* bound: changes of one pull request on GitHub
  MaxMishaps     \* bound: crashes and failed requests

ASSUME IngestionAssumption ==
  /\ MaxRetries \in Nat /\ MaxVersions \in Nat /\ MaxMishaps \in Nat
  /\ Oversized \subseteq PullRequests \X Nat
  /\ Faults \subseteq {"crash", "broker", "github"}
  /\ None \notin PullRequests \cup Deliveries

VARIABLES
  github,      \* [PullRequests -> version GitHub has]
  stored,      \* the pull_requests table with its file rows
  delivery,    \* the webhook_deliveries table with its outbox rows
  latest,      \* the delivery received last
  queue,       \* Celery's queue, a bag of <<delivery, retry number>>
  dispatcher,  \* what each dispatcher is doing
  worker,      \* what each worker is doing
  mishaps      \* crashes and failed requests so far

vars == <<github, stored, delivery, latest, queue, dispatcher, worker, mishaps>>

-----------------------------------------------------------------------------
(* Rows and states *)

IngestionState == {"received", "queued", "processing", "complete",
                   "incomplete", "failed"}
OutboxState == {"pending", "published", "failed"}
Retries == 0 .. MaxRetries

(* A delivery: the pull request its payload names, the version GitHub had  *)
(* when it was stored, its ingestion state and its outbox row's.           *)
DeliveryRow == [pr : PullRequests, since : Nat, status : IngestionState,
                outbox : OutboxState]

ASSUME NoneAssumption == None \notin DeliveryRow

(* head is the version of the pull request's own columns, files that of    *)
(* its file rows and score.                                                *)
Snapshot == [head : Nat, files : Nat, complete : BOOLEAN]

Idle == [stage |-> "idle"]
Dispatching == [stage : {"locked", "published"}, delivery : Deliveries]
Working == [stage : {"processing", "locked", "pull_request", "files",
                     "failed", "done"},
            delivery : Deliveries, retry : Retries, head : Nat, files : Nat]

TypeOK ==
  /\ github \in [PullRequests -> Nat]
  /\ stored \in [PullRequests -> Snapshot]
  /\ delivery \in [Deliveries -> DeliveryRow \cup {None}]
  /\ latest \in Deliveries \cup {None}
  /\ IsABag(queue) /\ BagToSet(queue) \subseteq Deliveries \X Retries
  /\ dispatcher \in [Dispatchers -> Dispatching \cup {Idle}]
  /\ worker \in [Workers -> Working \cup {Idle}]
  /\ mishaps \in 0 .. MaxMishaps

Init ==
  /\ github = [p \in PullRequests |-> 0]
  /\ stored = [p \in PullRequests |-> [head |-> 0, files |-> 0, complete |-> FALSE]]
  /\ delivery = [d \in Deliveries |-> None]
  /\ latest = None
  /\ queue = EmptyBag
  /\ dispatcher = [x \in Dispatchers |-> Idle]
  /\ worker = [w \in Workers |-> Idle]
  /\ mishaps = 0

Exists(d) == delivery[d] # None

Holds(process, d) == process # Idle /\ process.delivery = d

Enqueued(message) == queue' = queue (+) SetToBag({message})

Mishap(kind) == /\ kind \in Faults
                /\ mishaps < MaxMishaps
                /\ mishaps' = mishaps + 1

-----------------------------------------------------------------------------
(* GitHub and the routes that create deliveries *)

GitHubChanges(p) ==
  /\ github[p] < MaxVersions
  /\ github' = [github EXCEPT ![p] = @ + 1]
  /\ UNCHANGED <<stored, delivery, latest, queue, dispatcher, worker, mishaps>>

NewDelivery(p) == [pr |-> p, since |-> github[p], status |-> "received",
                   outbox |-> "pending"]

(* The receiver stores the delivery and its outbox row in one transaction; *)
(* a repeated delivery ID changes nothing.                                 *)
Receive(p, d) ==
  /\ ~Exists(d)
  /\ github[p] > 0
  /\ delivery' = [delivery EXCEPT ![d] = NewDelivery(p)]
  /\ latest' = d
  /\ UNCHANGED <<github, stored, queue, dispatcher, worker, mishaps>>

(* An operator's resync of p copies the payload of the repository's latest *)
(* pull_request delivery, whichever pull request that one names.           *)
Resync(p, d) ==
  /\ ~Exists(d)
  /\ stored[p].head > 0
  /\ latest # None
  /\ delivery' = [delivery EXCEPT ![d] = NewDelivery(delivery[latest].pr)]
  /\ latest' = d
  /\ UNCHANGED <<github, stored, queue, dispatcher, worker, mishaps>>

-----------------------------------------------------------------------------
(* The outbox dispatcher holds the outbox row's lock while it publishes,   *)
(* and commits afterwards.                                                 *)

LockOutbox(x, d) ==
  /\ dispatcher[x] = Idle
  /\ Exists(d)
  /\ delivery[d].outbox # "published"
  /\ ~ \E y \in Dispatchers : Holds(dispatcher[y], d)
  /\ dispatcher' = [dispatcher EXCEPT ![x] = [stage |-> "locked", delivery |-> d]]
  /\ UNCHANGED <<github, stored, delivery, latest, queue, worker, mishaps>>

Publish(x) ==
  /\ dispatcher[x].stage = "locked"
  /\ Enqueued(<<dispatcher[x].delivery, 0>>)
  /\ dispatcher' = [dispatcher EXCEPT ![x].stage = "published"]
  /\ UNCHANGED <<github, stored, delivery, latest, worker, mishaps>>

(* The broker reports an error; it may have taken the message all the same.*)
PublishFails(x) ==
  LET d == dispatcher[x].delivery IN
  /\ dispatcher[x].stage = "locked"
  /\ Mishap("broker")
  /\ UNCHANGED queue \/ Enqueued(<<d, 0>>)
  /\ delivery' = [delivery EXCEPT ![d].outbox = "failed"]
  /\ dispatcher' = [dispatcher EXCEPT ![x] = Idle]
  /\ UNCHANGED <<github, stored, latest, worker>>

CommitPublished(x) ==
  /\ dispatcher[x].stage = "published"
  /\ delivery' = [delivery EXCEPT ![dispatcher[x].delivery].outbox = "published",
                                  ![dispatcher[x].delivery].status = "queued"]
  /\ dispatcher' = [dispatcher EXCEPT ![x] = Idle]
  /\ UNCHANGED <<github, stored, latest, queue, worker, mishaps>>

DispatcherCrash(x) ==
  /\ dispatcher[x] # Idle
  /\ Mishap("crash")
  /\ dispatcher' = [dispatcher EXCEPT ![x] = Idle]
  /\ UNCHANGED <<github, stored, delivery, latest, queue, worker>>

-----------------------------------------------------------------------------
(* The task.  A message is acknowledged when its task ends, so a worker    *)
(* that dies gives it back.  The advisory lock on the delivery is held     *)
(* from the first statement to the commit of the outcome, the one on the   *)
(* pull request by the transaction that fetches and applies.               *)

Taken(message) == queue' = queue (-) SetToBag({message})

DeliveryLocked(d) ==
  \E w \in Workers : /\ Holds(worker[w], d)
                     /\ worker[w].stage \notin {"failed", "done"}

StartProcessing(w, d, r) ==
  /\ worker[w] = Idle
  /\ BagIn(<<d, r>>, queue)
  /\ ~DeliveryLocked(d)
  /\ delivery[d].status \notin {"complete", "incomplete"}
  /\ Taken(<<d, r>>)
  /\ delivery' = [delivery EXCEPT ![d].status = "processing"]
  /\ worker' = [worker EXCEPT ![w] = [stage |-> "processing", delivery |-> d,
                                      retry |-> r, head |-> 0, files |-> 0]]
  /\ UNCHANGED <<github, stored, latest, dispatcher, mishaps>>

(* "already_processing", or an outcome that is final.                      *)
DropMessage(w, d, r) ==
  /\ worker[w] = Idle
  /\ BagIn(<<d, r>>, queue)
  /\ DeliveryLocked(d) \/ delivery[d].status \in {"complete", "incomplete"}
  /\ Taken(<<d, r>>)
  /\ UNCHANGED <<github, stored, delivery, latest, dispatcher, worker, mishaps>>

(* The pull request's advisory lock.  The mutant has none, as on a         *)
(* database that is not PostgreSQL.                                        *)
Unserialized(p) == TRUE
PullRequestFree(p) ==
  ~ \E w \in Workers : /\ worker[w].stage \in {"locked", "pull_request", "files"}
                       /\ delivery[worker[w].delivery].pr = p

LockPullRequest(w) ==
  /\ worker[w].stage = "processing"
  /\ PullRequestFree(delivery[worker[w].delivery].pr)
  /\ worker' = [worker EXCEPT ![w].stage = "locked"]
  /\ UNCHANGED <<github, stored, delivery, latest, queue, dispatcher, mishaps>>

FetchPullRequest(w) ==
  /\ worker[w].stage = "locked"
  /\ worker' = [worker EXCEPT ![w].stage = "pull_request",
                              ![w].head = github[delivery[worker[w].delivery].pr]]
  /\ UNCHANGED <<github, stored, delivery, latest, queue, dispatcher, mishaps>>

FetchFiles(w) ==
  /\ worker[w].stage = "pull_request"
  /\ worker' = [worker EXCEPT ![w].stage = "files",
                              ![w].files = github[delivery[worker[w].delivery].pr]]
  /\ UNCHANGED <<github, stored, delivery, latest, queue, dispatcher, mishaps>>

(* A snapshot older than the stored one is skipped, one at the file limit  *)
(* keeps the last file rows.  The mutant forgets to mark those incomplete. *)
LimitForgotten(old, new, limited) ==
  IF new.head < old.head THEN old
  ELSE [head |-> new.head, files |-> IF limited THEN old.files ELSE new.files,
        complete |-> TRUE]
Applied(old, new, limited) ==
  IF new.head < old.head THEN old
  ELSE [head |-> new.head, files |-> IF limited THEN old.files ELSE new.files,
        complete |-> ~limited]

ApplySnapshot(w) ==
  LET d == worker[w].delivery
      p == delivery[d].pr
      limited == <<p, worker[w].files>> \in Oversized
      skipped == worker[w].head < stored[p].head
  IN
  /\ worker[w].stage = "files"
  /\ stored' = [stored EXCEPT ![p] = Applied(@, worker[w], limited)]
  /\ delivery' = [delivery EXCEPT ![d].status =
                    IF limited /\ ~skipped THEN "incomplete" ELSE "complete"]
  /\ worker' = [worker EXCEPT ![w].stage = "done"]
  /\ UNCHANGED <<github, latest, queue, dispatcher, mishaps>>

(* A request to GitHub fails, or the task's soft time limit passes: nothing*)
(* of the snapshot is kept.                                                *)
SynchronizeFails(w) ==
  /\ Mishap("github")
  /\ worker[w].stage \in {"processing", "locked", "pull_request", "files"}
  /\ delivery' = [delivery EXCEPT ![worker[w].delivery].status = "failed"]
  /\ worker' = [worker EXCEPT ![w].stage = "failed"]
  /\ UNCHANGED <<github, stored, latest, queue, dispatcher>>

(* The mutant's last retry sends one more.                                 *)
OneRetryTooMany(r) == r <= MaxRetries
HasRetryRemaining(r) == r < MaxRetries

(* The task ends and its message with it; a failure that has a retry left  *)
(* sends the next message first.                                           *)
Acknowledge(w) ==
  LET d == worker[w].delivery  r == worker[w].retry IN
  /\ worker[w].stage \in {"failed", "done"}
  /\ IF worker[w].stage = "failed" /\ HasRetryRemaining(r)
       THEN Enqueued(<<d, r + 1>>) ELSE UNCHANGED queue
  /\ worker' = [worker EXCEPT ![w] = Idle]
  /\ UNCHANGED <<github, stored, delivery, latest, dispatcher, mishaps>>

(* acks_late and reject_on_worker_lost put the message back; the mutant    *)
(* acknowledges early.                                                     *)
AcknowledgedEarly(message) == UNCHANGED queue
Redelivered(message) == Enqueued(message)

WorkerCrash(w) ==
  /\ worker[w] # Idle
  /\ Mishap("crash")
  /\ Redelivered(<<worker[w].delivery, worker[w].retry>>)
  /\ worker' = [worker EXCEPT ![w] = Idle]
  /\ UNCHANGED <<github, stored, delivery, latest, dispatcher>>

-----------------------------------------------------------------------------
Dispatch(x) == \/ \E d \in Deliveries : LockOutbox(x, d)
               \/ Publish(x) \/ PublishFails(x) \/ CommitPublished(x)

Process(w) == \/ LockPullRequest(w)
              \/ FetchPullRequest(w) \/ FetchFiles(w) \/ SynchronizeFails(w)
              \/ ApplySnapshot(w) \/ Acknowledge(w)

Consume(w) == \E d \in Deliveries, r \in Retries :
                StartProcessing(w, d, r) \/ DropMessage(w, d, r)

Next ==
  \/ \E p \in PullRequests : GitHubChanges(p)
  \/ \E p \in PullRequests, d \in Deliveries : Receive(p, d) \/ Resync(p, d)
  \/ \E x \in Dispatchers : Dispatch(x) \/ DispatcherCrash(x)
  \/ \E w \in Workers : Consume(w) \/ Process(w) \/ WorkerCrash(w)

Spec == Init /\ [][Next]_vars

(* Beat runs the dispatcher every two seconds, idle workers consume the    *)
(* queue, a task that has started goes on, and a waiter for an advisory    *)
(* lock gets it in turn.                                                   *)
Fairness ==
  /\ \A x \in Dispatchers : WF_vars(Dispatch(x))
  /\ \A w \in Workers : WF_vars(Consume(w)) /\ SF_vars(Process(w))

FairSpec == Spec /\ Fairness

-----------------------------------------------------------------------------
(* Properties *)

(* Older jobs cannot overwrite newer GitHub state: neither the columns of  *)
(* a pull request nor its file rows ever go back to an earlier version,    *)
(* whatever the order in which deliveries are processed and retried.       *)
SnapshotsNeverRegress ==
  [][\A p \in PullRequests : /\ stored'[p].head >= stored[p].head
                             /\ stored'[p].files >= stored[p].files]_stored

(* Nothing is left to be done for a delivery.                              *)
Settled(d) ==
  /\ Exists(d) /\ delivery[d].outbox = "published"
  /\ ~ \E r \in Retries : BagIn(<<d, r>>, queue)
  /\ ~ \E w \in Workers : Holds(worker[w], d)
  /\ ~ \E x \in Dispatchers : Holds(dispatcher[x], d)

(* Late acknowledgement, redelivery and dropped duplicates together strand *)
(* no delivery: when nothing is left to be done for it, the row does not   *)
(* claim that work is under way, and a row that claims an outcome is right *)
(* about it: the stored copy is at least as new as the delivery.           *)
NoDeliveryStranded ==
  \A d \in Deliveries :
    Settled(d) =>
      /\ delivery[d].status # "processing"
      /\ delivery[d].status \in {"complete", "incomplete"} =>
           stored[delivery[d].pr].head >= delivery[d].since

(* A complete snapshot's files are never older than its head: a push       *)
(* between the two requests makes them newer, until its own delivery.      *)
FilesAsNewAsHead ==
  \A p \in PullRequests : stored[p].complete => stored[p].head <= stored[p].files

TookEffect(d) == Exists(d) /\ stored[delivery[d].pr].head >= delivery[d].since

(* The dispatcher's late commit can write queued over failed.              *)
GivenUp(d) == Settled(d) /\ delivery[d].status \in {"failed", "queued"}

(* Every delivery that was received brings the stored copy up to date with *)
(* it or fails for good, its retries used up, through crashes of        *)
(* dispatchers and workers, publications and requests that fail.           *)
DeliveriesTakeEffect ==
  \A d \in Deliveries :
    Exists(d) ~> (TookEffect(d) \/ GivenUp(d))

(* ANALYSIS.md, Ingestion state: received, queued, processing, then        *)
(* complete; a completed delivery does not go back to queued.              *)
CompletedStaysCompleted ==
  [][\A d \in Deliveries :
       Exists(d) /\ delivery[d].status = "complete" =>
         delivery'[d].status = "complete"]_delivery
=============================================================================
