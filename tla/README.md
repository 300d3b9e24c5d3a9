# Verification of ShipBounty

TLA+ models, TLC runs and TLAPS proofs for the backend of this repository: a
FastAPI application over PostgreSQL with Celery workers that ingests GitHub
pull requests, scores them deterministically, and pays approved bounties from
a treasury through a custody provider. Paths below are relative to
`src/backend/app/` unless they start with `src/`.

## 1. Inventory

| Component | State it keeps | Operations | Talks to | What is hard |
|---|---|---|---|---|
| **Webhook receiver** `github/webhook.py` | `webhook_deliveries`, with the outbox row in the same transaction | store, deduplicate by delivery ID | outbox (shared table) | repeated deliveries |
| **Outbox** `services/outbox_service.py` | `webhook_outbox`: pending, published, failed | `dispatch_pending_outbox`, every 2 s | Celery broker, deliveries | publish and commit are two steps |
| **Delivery processor** `services/delivery_processor.py`, `worker/tasks.py` | a delivery's status, two advisory locks, the message's retry number | process once, retry, give up | PR synchronization | late acknowledgement, duplicates, worker death |
| **PR synchronization** `services/webhook_sync_service.py`, `github/client.py`, `services/pr_file_service.py` | `pull_requests`, file rows, reviews | fetch GitHub's current state, apply it | GitHub, scoring, eligibility | several requests to a moving GitHub, order of deliveries |
| **File listing** `github/client.py`, `services/pr_file_service.py` | file rows (never deleted), PR metrics | list pages, apply a listing, follow renames | GitHub, synchronization | a push between two pages, names reused |
| **Scoring** `analysis/` | runs, immutable scores, policies, `latest_score_id` | run the analyzers, aggregate, reuse a run | synchronization, eligibility | missing results, reuse of an older run |
| **Eligibility, reviews, approvals** `services/eligibility_service.py`, `api/review_routes.py` | policies, decisions (one current per PR), reviews, approvals | evaluate, supersede, review, approve, change the policy | PR, score, claims | concurrent evaluations, superseding under a reviewer |
| **Bounties and claims** `services/bounty_service.py`, `api/bounty_routes.py` | bounties, assignments, wallets, claims | publish, fund, assign, link, claim, pay | eligibility, payouts | nothing is locked: two claims, claims on stale copies |
| **Treasury and payouts** `services/payout_integration_service.py`, `services/payout_providers.py`, `api/payout_integration_routes.py` | payouts, attempts, insert-only ledger, treasury approvals, reconciliations | vote, reserve, submit, reconcile, settle, release, pause | custody provider, claims | stale copies of rows, ambiguous provider answers, crashes, retries |
| **Notifications** `services/notification_service.py` | domain events, notifications, policies | emit with the caller, dispatch in batches, retry | all of the above, SMTP and webhooks | send and commit are two steps, overlapping dispatchers |
| **AI reviews** `services/ai_review_service.py`, `ai_review_quota.py`, `api/ai_review_routes.py` | reviews, policies, daily quota in Redis | request, execute, resend, retry, complete by hand | provider, Redis, broker | duplicate messages, a policy, provider or visibility that changes in between |
| **Identity and authorization** `services/identity_service.py`, `api/authz.py`, `api/auth_routes.py`, `api/tenancy_routes.py` | users with a session version, memberships, repository permissions | login, logout, revocation, role changes | GitHub, every route | read-modify-write without locks |
| **Rate limits** `core/rate_limit.py` | a counter per window in Redis, one in each process | count and answer | every route, Redis | Redis failing before or after it counted |
| **Operations, dashboards, audit, demo, frontend** | reads, insert-only rows | | | little |

What makes each of the modelled components correct:

- *Treasury and payouts*: the treasury is never overdrawn; money is reserved
  only after enough other people approved; a transfer is started only for
  reserved money; a claim is paid exactly when it is settled and only with a
  confirmed transfer of its own; a payout in flight comes to an end.
- *Ingestion*: every stored delivery takes effect or uses up its retries; no
  delivery claims work that nobody will do; a stored pull request never goes
  back to an older state; a complete snapshot is consistent.
- *File listing*: what a delivery listed without a push in between is what is
  stored and counted, whatever the rows went through before; only a listing
  that mixes two states of GitHub can be refused.
- *Scoring*: what is missing is never a zero and lowers the confidence; better
  checks do not lower a score; the latest score belongs to the head.
- *Eligibility*: nothing is eligible, in a decision or in the pull request's
  state, without its checks and its quorum; one decision is current; what was
  superseded or decided is closed.
- *Bounties*: a payable claim is backed by such a decision, for its own author,
  and never redirected; an assigned bounty can still be claimed on.
- *AI reviews*: one execution at a time, outcomes are final, nothing leaves for
  a provider that the policy forbids, no provider is called more often than its
  slots of the day pay for, every review ends.
- *Notifications*: every message sent is accounted for; every notification ends.
- *Identity*: access ends when GitHub says so; nobody becomes owner or
  administrator but through GitHub or an owner; ended sessions stay ended.
- *Rate limits*: in production no window serves more than the limit.

The hazards behind these properties are listed, each at its line, in
`PROJECT.json`.

## 2. Plan

The components in order of importance; the first seven steps are done.

1. **`Payouts`** and its abstract specification `TreasuryPromise`; theorems in
   `PayoutsProofs`.
2. **`Ingestion`**: receiver, outbox, task, processor and synchronization;
   theorems in `IngestionProofs`.
3. **`Eligibility`**, and **`Bounties`** on top of it: `Bounties` extends
   `Eligibility`, so a claim and the decision it rests on change in one
   behaviour; theorems in `EligibilityProofs` and `BountiesProofs`.
4. **`AIReviews`**, **`Notifications`**: the two other background queues, with
   their liveness; theorems in `JobsProofs`.
5. **`Access`**, **`RateLimit`**: what every route passes; theorems in
   `RequestsProofs`, which composes them with the bounties.
6. **`Scoring`**, **`Files`**: the data a synchronization computes and stores.
7. Theorems about them in `ScoringProofs` and `FilesProofs`; the refinement
   `KeepsPromise` in `PayoutsProofs`.
8. *Open*: treasury accounts and balance observations; several treasuries.

`Rows` holds what the modules that work on database rows share: NULL, an idle
session, and the flush (`Written`): a column is written only if its value
differs from the one the session loaded. The MC modules give the constants
their values. `MCRequests`, `MCJobs` and `MCDeliveries` put several components
into one run: `part` names what moves, and the rest stays in an initial state,
so the run explores the sum of the parts and not their product. `MCPayoutRaces`
bounds what overlaps in one run on payouts. Components that share state (`Bounties` and `Eligibility`) are
composed for real.

## 3. What is modelled

### Payouts

One process per HTTP server and per Celery worker. What makes this code subtle
is that SQLAlchemy loads a row once (the identity map),
works on that copy while it waits for locks and calls the provider, and at
commit writes *the columns it changed* over whatever the row holds then. So a
process is a record with its copies (`row`, `att`, `active`), and an operation
is several actions:

| Action | Code |
|---|---|
| `LoadDecision`, `LoadSubmission`, `LoadReconciliation` | the route reads the payout (`api/payout_integration_routes.py` `_payout`) |
| `LoadDue` | `reconcile_due_payouts` takes a due row `FOR UPDATE SKIP LOCKED` |
| `RecordApproval`, `Authorize`, `Reject` | `approve_treasury_payout` from the treasury lock to the commit |
| `StartAttempt`, `ReuseAttempt` | `start_payout_attempt`, for a new and a known key |
| `SubmitTransfer`, `SubmitUnreachable` | the call of `provider.submit` or `find_by_idempotency_key` |
| `Poll`, `PollUnreachable` | the call in `reconcile_payout` |
| `Save` | everything between the answer and the commit: attempt, payout, claim, reconciliation row and ledger together |
| `RollBack` | an early return, an exception (`Raises` lists them), or the death of the process |
| `SetTreasuryPause`, `Progress`, `Midnight` | pause and activation, the custody service, the daily limit's new day |

`Result` says what a handler makes of an answer (`OnError`, `OnPending`,
`OnFailed`, `OnSubmitted`, `OnConfirmed`); `MergePayout` and `MergeAttempt` are
the flush. The ledger is a set of entry types per payout, because each type has
one idempotency key per payout; `balance` is the sum the code reads.

Simplifications, each without effect on the properties:

- The rows of the treasury and the payout are loaded together, and a decision is
  one step once the treasury lock is held, because nothing it reads can change
  under that lock except what it loaded before.
- A transfer has a transaction hash exactly when it is mined; the hash is named
  by the transfer's key. A provider that reports CONFIRMED without a hash is left
  out.
- The worker's selection of due rows and the lock of one are one action.
- An attempt's number is the count of attempts (numbers are dense).
- Two transactions inserting one key: the second fails on the unique index,
  which is its `RollBack`.
- Destination validation, the amounts' currency, the emergency switches and the
  mainnet switch are fixed to values that let a payout through.
- One treasury. Financial snapshots are immutable in the code (listeners and
  triggers) and constants here. The legacy manual routes refuse
  treasury-backed payouts.
- `create_payout` is the initial state.

`TreasuryPromise` is the abstract specification: a payout goes from open to
reserved to paid or closed, and the free balance follows. `KeepsPromise` is the
refinement, with `Phase` and `balance.available` as the mapping.

### Ingestion

| Action | Code |
|---|---|
| `GitHubChanges` | GitHub (external) |
| `Receive`, `Resync` | `github_webhook`, `resync_pull_request` |
| `LockOutbox`, `Publish`, `PublishFails`, `CommitPublished`, `DispatcherCrash` | `_dispatch_one`: row lock, producer, failure branch, commit, death between them |
| `StartProcessing`, `DropMessage` | `process_delivery_once` up to the first commit, and its early returns |
| `LockPullRequest`, `FetchPullRequest`, `FetchFiles` | `synchronize_webhook_delivery`: advisory lock, then GitHub's requests in order |
| `ApplySnapshot` | the stale check, the file limit, the rows, and the outcome's commit |
| `SynchronizeFails`, `Acknowledge` | the failure branch; the retry message and the end of the task |
| `WorkerCrash` | `acks_late` with `reject_on_worker_lost` |

A pull request's state is a version, its `updated_at`. `stored` keeps the
version of the pull request's own columns (`head`), of its file rows and score
(`files`), and `file_sync_complete`. The queue is a bag of messages with their
retry numbers.

Left out: events that are not synchronized (they complete without effect),
payloads without the required fields (they end incomplete), check runs that do
not move `updated_at`, back-off delays, the hard time limit, an advisory lock
that outlives its worker's host. A retry message and the acknowledgement of the
failed one are one step; a crash between them would leave one more duplicate,
which a crash just before the acknowledgement also leaves. With the advisory
lock and a GitHub whose answers do not go back, the stale check is a second line
of defence that never has to act.

### Eligibility

A request is a database session: `Begin` loads the repository's policy, the
pull requests and their current decisions; some time later the handler commits,
with what it loaded, except for the rows the code reads again for update.

| Action | Code |
|---|---|
| `Begin`, `Drop` | the routes' queries; a refusal, an error, a crash |
| `PostEligibilityDecision` | `evaluate_eligibility`, with `supersede_current_decision` and the two unique indexes of `eligibility_decisions` |
| `GetEligibilityPolicy`, `UpdateEligibilityPolicy` | `policy_for_repository`, `set_repository_policy` |
| `Synchronize` | `synchronize_webhook_delivery` with `execute_scoring_run`, a reused run or `record_incomplete_scoring_run`, and what they supersede |
| `PostReview`, `PostApproval` | `submit_review`, `submit_approval`, each with `_require_current_inputs` |

`pr[p].state` is written by every handler from its copy, through `Written`;
`StateSet` is the two flushes of an evaluation. A score is named by the input it
was made from (run keys hash the input, scores are immutable); a policy's
minimum score and roles are the sets of scores that pass and of users who may
act. Reviews and approvals are insert-only, so a decision carries the users who
gave them.

### Bounties

On top of `Eligibility`. No handler here locks a row: `Receive` loads a view of
all tables, the handler checks that view and commits later; only the unique
indexes (`Unclaimed`, one active assignment, one payout) see the rows themselves.

| Action | Code |
|---|---|
| `PostIssue`, `PostBounty`, `FundBounty`, `Expire` | `create_issue`, `create_bounty`, `mark_bounty_funded`, `expires_at` |
| `PostAssignment`, `PostAssignmentPullRequest` | `assign_bounty`, `link_assignment_to_pull_request` |
| `PostWallet`, `VerifyWallet` | wallet routes of `api/bounty_routes.py` |
| `PostClaim` | `approve_claim` |
| `PostPayout`, `ConfirmPayout` | `create_payout`, and `confirm_payout` where `Payouts` ends |
| `GetBountyPolicy`, `PutBountyPolicy` | `bounty_policy_for_repository`, `set_bounty_policy` |

What happens between a payout's creation and its confirmation is `Payouts`.

### AI reviews

| Action | Code |
|---|---|
| `AskForReview`, `InsertReview`, `FindReview`, `DropRequest` | `post_ai_review`, `post_ai_review_retry`: load, decide (`_privacy_decision`, `request_ai_review`), commit, send or execute |
| `TakeMessage`, `LockPending`, `FindEnded` | the execute task up to the status check under `FOR UPDATE` |
| `ReserveSlot`, `RefuseExecution` | `reserve_daily_ai_review_request` (one Lua script) and the refusals before the call |
| `CallProvider`, `ProviderAnswers` | the provider's requests, model after model while it answers 503 (`gemini_ai_review_provider.py`); `complete_ai_review` or `fail_ai_review`, one commit |
| `ExecutorFails`, `DispatchPending` | a crash or a failed transaction; the dispatcher that resends pending reviews |
| `LoadPending`, `PostOutcome` | the manual routes, and the trigger that protects an outcome |
| `SyncRepository` | `is_private` as a login or a webhook writes it (`_sync_installations_and_repositories`, `webhook_sync_service.py`) |
| `GetAIPolicy`, `PutAIPolicy`, `Reconfigure`, `Analyse`, `Midnight` | what else changes around a review |

`quota` keeps the slots used and the calls made, by provider and day like the
key in Redis: after `Reconfigure` the other provider has its own slots. One slot
pays for `AITries` calls, one for each model that the provider's client tries.
A review records the visibility its request saw (`private`, in the code
`privacy_decision`); an executor compares the provider's name and nothing else.
Prompts, answers, findings, moderation and costs are wording and numbers that no
guard reads.

### Notifications

| Action | Code |
|---|---|
| `FindEventNew`, `CommitEvent`, `RollBackEvent` | `emit_domain_event` inside another component's transaction |
| `SelectDue`, `DeliverOnce`, `CommitBatch`, `LoseBatch` | `dispatch_pending_notifications`: `FOR UPDATE SKIP LOCKED`, one adapter call per row, one commit |
| `RetryTimeComes` | `next_retry_at` passes |

An adapter may fail before or after the message left, so `mail` counts what
really left.

### Access

A login is three steps (two questions to GitHub, one commit); a logout, a
revocation and a role change load rows and write them later (`office`).

| Action | Code |
|---|---|
| `AskMemberships`, `AskRepositories`, `CommitLogin`, `AbandonLogin` | `github_oauth_callback` with `_upsert_user`, `_sync_memberships`, `_sync_installations_and_repositories` |
| `LoadForLogout`, `Logout` | `logout` |
| `LoadForRevocation`, `RevokeUserAuthorization` | `_revoke_user_authorization` of the webhook |
| `LoadRoles`, `UpdateMemberRole`, `DropDesk` | `update_member_role`: the check, the commit, a refusal |
| `GitHubChanges` | GitHub (external) |

One organization with one repository. `EffectiveRole` is
`effective_repository_role`. The OAuth exchange, cookies and encryption are left
out; a token is a user and the session version it was issued for.

### Rate limits

`Arrive` computes the window, `CountShared` and `CountFails` ask Redis, `Answer`
compares; `RestartHost` and `NextWindow` are the environment. The requests are
those of one address. A Redis key that expires before a very late count arrives
is left out.

### Scoring

Pure functions and the runs they fill: `Analyse` (one clause per analyzer, with
its thresholds), `CategoryMeans`, `FinalScore`, `Confidence` and `Authoritative`
are `analysis/`'s arithmetic in hundredths, `Quantize` its rounding half up.
`ExecuteRun` is `execute_scoring_run`, with the run key that covers head, check
reports and policy, but not what the tools answered; `RecordIncomplete` is the
run over the file limit; `UpdateScoringPolicy` goes through `ValidPolicy`. What a
heuristic finds in a file's text is an input (`traits`).

### Files

`StartListing`, `FetchPage`, `ListingFails` are GitHub's pages, between which
`PushFiles` may happen; `SynchronizeFiles` is `synchronize_pr_files`
row by row with its index by name (a file under a new name keeps its row), and
`KeepFiles` the file limit. Of GitHub the module assumes what its listings have:
a name once, in order, and no file renamed from a name that is still there.

## 4. What is checked

Each run's configuration is the file of its name. TLC explores all of its
states.

| Run | Shows |
|---|---|
| `payout_races` | votes: `AvailableNeverNegative`, `ReservedByQuorum` with two payouts of different value, one needing two approvers, three users of whom one is the claimant, two servers, pause and a midnight. Transfers: `TypeOK`, `PaidWasTransferred`, `TransferredOnReservation` with one payout, a request and the worker at the same time, two keys, lost answers and crashes |
| `treasury_promise` | `KeepsPromise`, and `SubmissionsEnd` under `FairSpec`: two payouts, one key each, one process at a time, every fault |
| `ingestion` | deliveries: `TypeOK`, `NoDeliveryStranded`, `FilesAsNewAsHead`, `SnapshotsNeverRegress` with two deliveries, two workers, one retry, two faults at any point. Scoring: `WithinEvidence`, `MissingLowersConfidence`, `ChecksMoveScore`, `LatestOfHead` over four heads, three policies, every outcome of two checks and a tool. Files: `StoredAsListed`, `RefusedOnlyIfMixed` over ten listings with renames, name swaps and pages, three pushes |
| `requests` | decisions: `EligibleByQuorum`, `EligibleStateEarned`, `OneCurrentDecision`, `ClosedDecisionsFrozen` with two sessions, two policies, three users. Bounties: `ClaimsBacked`, `AssignedClaimable`, `ClaimsFixed` with two clerks around one decision, approved or waiting for its last approval, which a change of the policy may supersede while they hold copies of it, and a bounty drafted under the policy before or created under either. Rate limit: `RateRespected`, three requests, two processes, two windows. Sessions and roles: `AccessEndsWithGitHub`, `RaisedByOwners` |
| `jobs` | AI reviews: `OneExecutionAtATime`, `PrivacyKept`, `DailyLimitKept`, `OutcomesFinal`, `ReviewsEnd` with two requests, or with one through changes of provider and visibility and a midnight; a worker, a crash, two providers of which one has two models. Notifications: `MailAccountedFor`, `NotificationsEnd` with two events, two dispatchers, a lost batch. Deliveries: `DeliveriesTakeEffect` with two deliveries, two dispatchers, two workers, two faults |

`RequestsTypeOK`, `JobsTypeOK`, `ScoringTypeOK` and `FilesTypeOK` are the type
invariants of those runs. A mutant of the code breaks each property (they stand
before the definitions they change, with a comment).

Seven runs show the code doing what a document, comment or assertion of the
repository excludes; PROJECT.json's findings quote the lines:

| Run | Property that fails | Why |
|---|---|---|
| `retry_after_release` | `SettledFromReservation` | a failed payout is attempted again without a new reservation, and settles from money already released |
| `second_transfer` | `TransferredOnce` | an attempt is committed only after the provider was called, so a crash forgets the transfer |
| `terminal_attempts` | `TerminalAttemptsImmutable` | the listener compares with the copy the session loaded: a retry whose answer is lost again writes `failed` over the `submitted` that the worker committed |
| `completed_requeued` | `CompletedStaysCompleted` | the dispatcher commits `queued` after the task has completed |
| `prior_payout` | `PriorPayoutExcludes` | the check for a prior payout is made once, and an approval given after the payout sets the pull request to eligible again |
| `session_revived` | `EndedSessionsStayEnded` | a logout adds one to the session version it loaded; committing after two others it takes the version back to that of a session that had ended |
| `private_sent` | `PrivateNeverSent` | the executor does not look at the repository's visibility again, so a review requested while it was public is sent after it became private |

More disagreements need no run. `src/backend/.env.example:70` calls
`AI_REVIEW_DAILY_LIMIT` a "provider-call limit per UTC day"; the code counts
slots, by provider, and a slot covers a request to Gemini for each of up to four
models (`ai_review_quota.py:53`, `gemini_ai_review_provider.py:103-168`).
`DailyLimitKept` is the limit that the code does keep. An approval that waits
for the treasury's lock goes on by the status it loaded before, although
`src/backend/README.md:487-491` asks for a treasury that is not paused
(`payout_integration_service.py:355`; the step is in `Payouts`). A repeated request for an AI review counts
the existing ones into its key (`services/ai_review_service.py:432`), so it makes
a second review where `src/backend/tests/test_ai_review_domain.py:98-109` expects
the first. `resync_pull_request` copies the payload
of the repository's latest `pull_request` delivery, so it synchronizes that
delivery's pull request, not the one in the route. And `src/backend/README.md:504-505`
says that an ambiguous timeout leaves the attempt in `submitting`, where the
code uses `submission_unknown`.

What the models show beside the properties, without contradicting a document: a
funding that commits after an assignment reopens the bounty over its active
assignment, which the unique index then never lets be assigned again; an
assignment that commits after a claim reopens the bounty that the claim closed
(the claim stands, `ClaimsFixed`); a first read of a policy that commits late
overwrites the policy an administrator has just set; a bounty that expires while
assigned stays so; `require_assignment` is validated and never read; nothing sets
`EligibilityState.CLAIMED`; a reused scoring run changes the latest score
without superseding the decision; two simultaneous demotions can leave an
organization without an owner until the next login of one.

### Bounds

Two of everything that competes: two payouts compete for one balance, two
processes for one row, two keys for one payout, two deliveries for one pull
request, two workers for one delivery, two sessions for one decision, two clerks
for one bounty, two dispatchers for one notification, two requests for one
review. The amounts are chosen so that the balance suffices for one payout and
not for both. Every limit is reached: `MaxRecoveries = 2` has both a recovery
that goes on and one that gives up, `MaxRetries = 1` and `MaxAttempts = 2`
likewise; one slot for each provider and day, with two reviews that ask for it;
a second model (`AITries`) for the external provider; `RequestLimit = 1` for three
requests; a required quorum of two of three users; `FileLimit` is two full
pages. `MaxDays`, `MaxAIDays` and `MaxWindows` bound clocks; `MaxVersions`,
`MaxMoves`, `MaxPushes` and `MaxGitHubChanges` what GitHub does; `MaxMishaps`,
`MaxAIFaults` and `MaxLostBatches` faults; `MaxDecisions`, `MaxAIReviews`,
`MaxRuns` and `MaxVersion` rows. `prior_payout` has a third decision, because
its counterexample needs a second one beside the claim's. Runs without a
deadlock check are those whose model stops when its bounds are used up. Symmetry
is used only in runs without a liveness property, over interchangeable
processes and keys.

The runs with parts restrict what moves in each. In `requests`, a merged pull
request stays merged, as at GitHub (`MergesLast`). Its part for bounties starts
from a score that passed and one decision, approved or one approval short of it
(`DecidedInit`), with no bounty or with one drafted under the other policy
(`DraftedInit`); one session at a time decides on it, no second decision is made,
the second user's wallet is left alone (`OneDecision`), and the policy changes
once, which supersedes the decision (`PolicyChangesOnce`). One part has the
sessions of one user, the other the roles of two (`OneUser`, `NoLogouts`). In
`payout_races` what runs at one time is either votes on both payouts, before any
transfer (`OnlyVotes`), or the requests about one payout, the other rejected,
that one administrator and one server bring to its submission within a day and
without a pause, while the worker reconciles (`OneSubmitter`; the second of the
two servers is then the worker). Submissions and pauses overlap in
`treasury_promise`. In `jobs`, the reviews either have two requests
under one configuration (`SameConditions`) or one request while configuration,
visibility and day change (`OneRequest`, `AnalysedOnce`); of interchangeable
requests, emitters, events and deliveries the second comes after the first
(`InOrder`), which stands for symmetry where liveness forbids it. What these cut
off is proved without them, for any number of users, requests, decisions and
executors (section 5), except liveness; the theorems of `RequestsSpec` and
`FairJobs` are of the compositions as they are run.

`treasury_promise` restricts the requests: they do not overlap, and each payout
has one key. The refinement is false without that, as `retry_after_release`
and `terminal_attempts` show; with it the run shows that failures alone, in any
order, do not break the promise. The theorem needs less: requests of different
payouts may overlap (`TakesTurns`).

### Fairness

- Payouts: beat starts the reconciliation every 30 seconds, so a due row that
  is free again and again is taken, polled and saved (`SF`); an answer that is
  not an error is saved now and then (`SaveAnswer`), since a provider that never
  answers lets nothing be known; the custody service brings a transfer to an
  end; a server finishes what it started.
- Ingestion: beat runs the dispatcher every 2 seconds; an idle worker consumes
  the queue; a started task goes on, and a waiter for an advisory lock gets it
  (PostgreSQL queues waiters). Faults are never fair and are bounded.
- AI reviews: beat runs the dispatcher, an idle worker consumes the queue, and an
  execution goes on, since the provider's call has a timeout. Requests are not
  fair: a review ends even if no HTTP request ever comes back.
- Notifications: beat starts a dispatcher every ten seconds, a started one goes
  on (SMTP and HTTP have timeouts), and a retry's time comes. Emitters are not
  fair.

## 5. What is proved

The modules named `...Proofs`, for every value of the constants that
satisfies the modules' assumptions (finite sets of payouts, users, keys and
files; a `None` that is none of the values; positive amounts; sane limits;
policies that pass `validate_scoring_policy`, of which `default-v1` has the
weights of `DEFAULT_WEIGHTS`; isolated tools that are named like none of the other
analyzers; diffs as GitHub lists them and a file limit of full pages):

| Theorem | Property |
|---|---|
| `TypeCorrect` | `TypeOK` |
| `Solvency` | `AvailableNeverNegative` |
| `Quorum` | `ReservedByQuorum` |
| `TransferNeedsReservation` | `TransferredOnReservation` |
| `PaymentsBacked` | `PaidWasTransferred`, if no two payouts share a key |
| `PromiseIsKept` | `KeepsPromise`, if requests of one payout take turns (`TakesTurns`) and a client sends one key for it (`OneKeyEach`) |
| `SettledOrReleased` | `SettledFromReservation`, under the same condition |
| `EndedAttemptsKept` | `TerminalAttemptsImmutable`, under the same condition |
| `OneTransferPerKey` | `TransferredOnce`, if a client sends one key for a payout, whatever overlaps |
| `IngestionProofs!TypeCorrect` | `TypeOK` of `Ingestion` |
| `NoSnapshotRegresses` | `SnapshotsNeverRegress` |
| `CompleteSnapshots` | `FilesAsNewAsHead` |
| `NothingStranded` | `NoDeliveryStranded` |
| `DeliveriesSerialized` | two workers never process one delivery at once, and one in process has no outcome |
| `OutcomesLostToDispatchersOnly` | an outcome is taken back only by a dispatcher's late commit, which writes `queued` |
| `EligibilityProofs!TypeCorrect` | `EligibilityTypeOK` |
| `EligibilityNeedsQuorum` | `EligibleByQuorum` |
| `StateEarned` | `EligibleStateEarned` |
| `OneCurrent` | `OneCurrentDecision` |
| `ClosedFrozen` | `ClosedDecisionsFrozen` |
| `AccessEnds` | `AccessEndsWithGitHub` |
| `OnlyOwnersRaise` | `RaisedByOwners` |
| `SessionsStayEnded` | `EndedSessionsStayEnded`, if of each user one logout or revocation at a time is between load and commit (`OneLeavesAtATime`) |
| `LimitHolds` | `RateRespected` |
| `OneHolder` | `OneExecutionAtATime` |
| `EndedReviewsKept` | `OutcomesFinal` |
| `ProvidersAllowed` | `PrivacyKept` |
| `CallsLimited` | `DailyLimitKept` |
| `NothingPrivateSent` | `PrivateNeverSent`, as long as the repository's visibility does not change |
| `JobsTyped` | `JobsTypeOK` |
| `EveryMailAccounted` | `MailAccountedFor` |
| `BountiesTyped`, `AccessTyped`, `RateTyped` | `BountiesTypeOK`, `AccessTypeOK`, `RateLimitTypeOK` |
| `EveryClaimBacked` | `ClaimsBacked` |
| `AssignedStaysClaimable` | `AssignedClaimable` |
| `ClaimsStayFixed` | `ClaimsFixed` |
| `DecisionsKeptWithBounties` | `EligibleByQuorum`, `EligibleStateEarned`, `OneCurrentDecision` of `Bounties`' specification |
| `ClosedFrozenWithBounties` | `ClosedDecisionsFrozen` of `Bounties`' specification |
| `SeenPayoutExcludes` | a claimed or paid pull request becomes eligible only by a pending decision whose evaluation saw no claim or payout |
| `RequestsTyped` | `RequestsTypeOK` |
| `RequestsKeepPromises` | every other invariant of the run `requests`, of `RequestsSpec` |
| `RequestsRewriteNothing`, `RequestsRaiseNobody` | every action property of that run, of `RequestsSpec` |
| `ScoringTyped` | `ScoringTypeOK` |
| `LatestScoresHead` | `LatestOfHead` |
| `ScoresWithinEvidence` | `WithinEvidence` |
| `MissingEvidenceLowersConfidence` | `MissingLowersConfidence` |
| `BetterChecksScoreNoLess` | `ChecksMoveScore` |
| `FilesTyped` | `FilesTypeOK` |
| `ListedIsStored` | `StoredAsListed` |
| `RefusedOnlyMixed` | `RefusedOnlyIfMixed` |

The arguments:

- `TypeInv` adds to `TypeOK` that a busy process has the arguments of its
  operation (`ArgumentsKnown`): a decision has a user, a called request a key
  and an answer.
- `SolvencyInv` is `TypeInv` and the property: only a reservation takes from
  the available balance, and `Affordable` was checked in the same step.
- `QuorumInv` adds that no claimant has approved; votes only accumulate, so a
  quorum once reached stays (`QuorumStays`).
- `ReservationInv` is needed because a request acts on a copy: a reservation
  must be known not only for the row that is submittable now (`RowsReserved`)
  but for every attempt (`AttemptsReserved`) and for every copy a process holds
  (`ProcessReserved`). A reservation is never deleted (`LedgerGrows`), so a copy
  cannot go stale in this respect.
- `TransferInv` says whose each transfer, reference and copy is (`TransfersOwned`,
  `RowsOwned`, `ProcessOwned`), and that confirmation at the provider is final
  (`Lasting`), so that a confirmed answer held by a process is still true when
  it is saved.
- The assumption of `PaymentsBacked` (`DisjointKeys`) is about clients: the code
  refuses a key whose attempt belongs to another payout, but a crash can lose
  that attempt while the provider remembers the key.
- The refinement rests on `PromiseInv`: a payout's state tells which entries its
  ledger has (`EntriesOf`) and what its attempts have come to (`AttemptsOf`), and
  a process's copies are the rows (`CopyInStep`), except for the attempt it has
  inserted and not committed (`Fresh`). Each action then maps to a step of
  `TreasuryPromise` or to a stutter: `Authorize` to `Reserve`, `Reject` to
  `Refuse`, `Save` to `Pay`, `Return` or nothing, the rest to nothing. `TakesTurns`
  is an assumption about behaviours, `Spec /\ []TakesTurns`; it holds by itself with
  one process, as in the run. `OneKeyEach` says that a payout has one
  attempt at most, so one that failed is not started again. The properties that
  `retry_after_release` and `terminal_attempts` refute follow from the same
  invariant: those two runs need a second key or overlapping requests.
- In `Ingestion`, `TypeInv` adds to `TypeOK` that nobody holds, and no message
  names, a delivery that is not stored (`DeliveriesKnown`). What queues do is in
  two lemmas about bags.
- `SnapshotInv` is why an older job cannot overwrite newer state. Applying is
  safe only if what was fetched is at least as new as what is stored
  (`Fetched`). Another worker's apply could break that between the fetch and
  this worker's own, so the invariant needs that no two workers fetch one pull
  request (`Exclusive`, from the advisory lock) and that nothing stored is newer
  than GitHub (`FromGitHub`), which makes it true at the moment of the fetch.
  It follows that the code's own check for an older snapshot never skips one
  while the lock is there.
- `StrandInv` adds, for each delivery, that one in `processing` is locked by a
  worker or has a message in the queue (`Attended`), and that one with an
  outcome is stored (`Effective`). The lock is the right half of `Attended`: that
  *some* worker holds the delivery is not inductive, because a worker whose run
  failed and that has not acknowledged yet holds it too.

- In `Eligibility`, every action is first summarised as what it does to one row
  of `eligibility_decisions` (`RowStep`: nothing, closed, reviewed, approved) and
  to the pull request's state (`StateStep`). `Sound` says more than `ByQuorum`, of
  rows that are still open: nobody has approved before the reviews are over, so
  no later endorsement can break the separation of duties. `EligibleStateEarned`
  needs that a decision that won stays won when it is superseded (`Won`), and
  that `eligible` is written only by the approval that completes the quorum:
  a stale copy writes only what its handler changes. `OneCurrentInv` rests on the
  unique index alone, since the copies may be stale.
- In `Access`, `Outside` must survive everything between a login and the next:
  a role change keeps a membership inactive, and only a login writes a
  repository permission or activates a row. `ChangesKnown` carries the check of
  `update_member_role` from the load to the commit.
  Sessions stay ended if logouts of a user take turns: no token has a version
  above its user's, and a logout under way has loaded the version that is stored
  (`SessionInv`), so versions only grow.
- In `RateLimit`, `Ranked` gives each counted request its own place between 1 and
  the counter; the served ones map into `1..RequestLimit` one to one, which
  bounds their number.
- In `AIReviews`, `Exclusive` says that the holder of a review's lock is the only
  one and that the review is still pending, so an outcome is written once;
  `Cleared`, that a pending review was allowed at the provider it names, and that
  who has a slot works for that provider; `Paid`, that the slots used at a
  provider on a day cover the calls made and the calls still to come: each
  executor with a slot holds a ticket for every model it has not tried
  (`Tickets`), a slot adds `AITries` of them and a call takes one. For
  `PrivateNeverSent`, `Visible` says that drafts and reviews record what the
  repository is; it is kept by all steps but `SyncRepository`.

- In `Bounties`, a handler works on a view of all tables that may be old when
  it commits. `StillTrue` says what of such a view is still so: what was there
  is there, with the columns that never change, and a decision that was won is
  won. Every action is summarised by `Onward`, the steps that keep every view
  true, and by `NewClaims`, the ways a claim can come into being. What must hold
  *now* (one claim, one active assignment) comes from the unique indexes, the
  rest from the view: that is the argument of `ClaimsBacked` without a lock.
  `BountiesInv` includes the invariants of `Eligibility`, whose step lemmas are
  used again for the sessions that run beside the bounties.
- In `MCRequests` a step is one of a component and a stutter of the others
  (`RequestsSteps`), so the invariants of the components hold together. What is
  new there is the start with a decision and perhaps a drafted bounty:
  `DecidedStart` and `DraftedStart` show it to satisfy the invariants, so it is a
  state from which everything proved of the empty tables follows too. It uses what `requests.cfg` says of the
  start (`RequestsAssumption`: one pull request, a score that passes, two
  approvers other than its author); all other constants are free.
- Seven theorems say what is left of documented rules that a run refutes.
  `SettledOrReleased`, `EndedAttemptsKept`, `OneTransferPerKey` and
  `SessionsStayEnded` do so under conditions on the requests, `NothingPrivateSent`
  under one on the repository. For `OneTransferPerKey` it is enough that every transfer has a
  key of its payout (`TransfersOwned`), since submissions take their key from the
  client and keep it (`KeysOwned`). `OutcomesLostToDispatchersOnly` names the one
  step that breaks the rule: the lock on a delivery is one worker's (`OneWorkerEach`),
  and what is locked has no outcome (`Unfinished`), so no duplicate, retry or failure
  writes over one. `SeenPayoutExcludes` is a consequence of `Sound`, of a decision
  that is still pending.
- In `Notifications`, `MailBudget` bounds what left for a notification by its
  counted attempts, the batches lost, and one more while it is tried in a batch
  not yet committed; `HeldDue` says that a locked row is in one batch only.
- In `Scoring`, a weighted mean is a sum over a set of categories. The library's
  induction over finite sets cannot be used by the provers, so `ScoringProofs`
  proves the facts about sums (`SumFunctionOnSet`) from a counterexample of least
  cardinality: bounds, monotony, and that of two means over one set of weights
  the one with less in it is smaller, also after rounding. `ScoringInv` then
  needs that every stored run is the aggregate of what its analyzers make of its
  key (`RunsAggregate`) and the policy in force is valid (`PolicyInForce`).
- `ChecksMoveScore` is about means whose terms leave and join. A check that
  passed and is new gives its analyzer or category 95, and nothing else a head
  gives is worth more; one that failed and is no longer counted was worth 20.
  `MeanOrder` says that a mean does not fall when its terms rise, what joins is no less than
  any term before, and what leaves is no more than the rest on average. Inside a
  category that is so because each term is 20 at least. Among the categories
  the size of the diff can be worth less than 20: there the argument needs the
  weights of `default-v1` (`DefaultWeights`), by which documentation and
  dependencies, which every head has and which are worth 35 at least, make up for
  it. Under other weights the property can fail.
- In `Files`, applying a listing is a fold; `WritingDefined` shows it to be a
  sequence of states, each by `WriteFile` from the one before, again by a least
  counterexample. `WrittenOf` is what holds after the first k files: each of
  them is in exactly one row, and a row not yet written has its old name. A file
  that was renamed takes over a row whose name is no longer in the diff, and only
  if its own name has no row; so no new name collides with a name a row still
  has (`NeverCollide`), and nothing listed without a push is refused.
  `ListingInv` says that what was listed so far is the beginning of the diff, in
  order and in full pages.

Only model-checked are the liveness properties, since fairness and ENABLED are
out of the provers' reach.

Every invariant and every action property of a passing run is stated by a
theorem. The formulas of `OneWorkerEach`, `Unfinished`, `OutcomesOnlyRequeued` and
`PaidAgainByPendingOnly` are in the proof modules and in no run.
`SessionsStayEnded` and `NothingPrivateSent` prove `EndedSessionsStayEnded` and
`PrivateNeverSent` under the condition that the violating runs break: logouts
that do not overlap, and a repository whose visibility does not change.

## 6. What is not modelled

- The manual payout routes of `api/bounty_routes.py`: they refuse payouts that
  have a treasury, and no code creates any other.
- `create_treasury_account` and balance observations (they only record).
- OAuth, encryption and signatures are cryptography; text heuristics, AI prompts
  and parsing are text processing.
- An advisory lock or a Redis key that outlives its owner (timers of PostgreSQL
  and Redis).
- Dashboards, the audit log, demo data and the frontend only read or append;
  configuration is the models' constants.

`PROJECT.json` lists every part with its reason, and every hazard without a
property with why it has none.
