------------------------------- MODULE Payouts -------------------------------
(***************************************************************************)
(* The treasury-backed payout of an approved claim: treasury approvals and *)
(* the reservation they make, submission to the payment provider, and the  *)
(* reconciliation that settles or releases the reservation                 *)
(* (services/payout_integration_service.py, the payout half of             *)
(* services/bounty_service.py and their routes).                           *)
(*                                                                         *)
(* A request or a task is a process.  It loads the payout row once and     *)
(* keeps that copy (the SQLAlchemy identity map) while it queries, waits   *)
(* for locks and calls the provider; its commit then writes only the       *)
(* columns it changed, whatever the row holds by then.  The steps of a     *)
(* process are therefore separate actions: load, start or poll (with the   *)
(* provider call), save or roll back.                                      *)
(***************************************************************************)
EXTENDS Integers, FiniteSets

CONSTANTS
  Payouts,         \* payout rows, each created for one approved claim
  Users,           \* administrators who approve, and claimants
  Keys,            \* idempotency keys the clients may send
  Servers,         \* processes that serve HTTP requests
  Workers,         \* processes that run the reconciliation task
  None,            \* SQL NULL
  Amount,          \* [Payouts -> amount of the claim]
  Claimant,        \* [Payouts -> user the claim pays]
  KeysFor,         \* [Payouts -> keys the clients send for this payout]
  OpeningBalance,  \* of the one treasury
  PayoutLimit,     \* per_payout_limit
  DailyLimit,      \* daily_spending_limit
  HighValue,       \* manual_approval_threshold
  StandardQuorum,  \* standard_required_approvals
  HighQuorum,      \* high_value_required_approvals
  MaxRecoveries,   \* PAYOUT_SUBMISSION_RECOVERY_MAX_ATTEMPTS
  Faults,          \* which of "crash", "timeout", "outage" can happen
  MaxDays          \* bound: midnights that pass

Processes == Servers \cup Workers

ASSUME FiniteAssumption ==
  /\ IsFiniteSet(Payouts) /\ IsFiniteSet(Users) /\ IsFiniteSet(Keys)

ASSUME NoneAssumption ==
  None \notin Payouts \cup Users \cup Keys \cup Processes
              \cup {"reservation", "release", "settlement", "error",
                    "pending", "submitted", "mined", "confirmed", "failed"}

ASSUME PolicyAssumption ==
  /\ Amount \in [Payouts -> Nat \ {0}]
  /\ Claimant \in [Payouts -> Users]
  /\ KeysFor \in [Payouts -> SUBSET Keys]
  /\ {OpeningBalance, HighValue, MaxDays} \subseteq Nat
  /\ {PayoutLimit, DailyLimit, StandardQuorum, MaxRecoveries} \subseteq Nat \ {0}
  /\ HighQuorum \in Nat /\ HighQuorum >= StandardQuorum
  /\ Faults \subseteq {"crash", "timeout", "outage"}

VARIABLES
  payout,      \* the payouts table, each row with the status of its claim
  attempt,     \* the payout_attempts table, by idempotency key
  approved,    \* [Payouts -> users whose treasury approval is on record]
  rejected,    \* [Payouts -> users whose treasury rejection is on record]
  ledger,      \* [Payouts -> types of the payout's ledger entries]
  balance,     \* the sums over the ledger that treasury_ledger_balances reads
  spentToday,  \* the sum over today's reservations
  day,         \* midnights so far
  evidence,    \* [Payouts -> references with a 'confirmed' reconciliation row]
  active,      \* treasury.status = ACTIVE
  transfer,    \* the provider: status of the transfer made for each key
  owner,       \* the provider: payout named in the transfer of each key
  lock,        \* [Payouts -> process that holds the row lock]
  proc         \* what each process is doing

dbVars == <<payout, attempt, approved, rejected, ledger, balance, evidence>>
providerVars == <<transfer, owner>>
clockVars == <<spentToday, day>>
vars == <<dbVars, providerVars, clockVars, active, lock, proc>>

-----------------------------------------------------------------------------
(* Rows and states *)

PayoutState == {"created", "authorized", "submitting", "unknown",
                "submitted", "confirmed", "failed", "cancelled"}
AttemptState == {"none", "submitting", "unknown", "submitted", "failed"}
Unresolved == {"submitting", "unknown"}
EntryType == {"reservation", "release", "settlement"}

(* What the provider says of a transfer.  "submitted" has no transaction   *)
(* hash yet, "mined" is CONFIRMED with too few confirmations, "confirmed"  *)
(* is CONFIRMED with at least payout.required_confirmations.               *)
TransferStatus == {"pending", "submitted", "mined", "confirmed", "failed"}

PayoutRow == [state : PayoutState, ref : Keys \cup {None},
              hash : Keys \cup {None}, due : BOOLEAN,
              claim : {"approved", "paid"}]
AttemptRow == [payout : Payouts \cup {None}, number : Nat, state : AttemptState,
               ref : Keys \cup {None}, tries : Nat]
NoAttempt == [payout |-> None, number |-> 0, state |-> "none",
              ref |-> None, tries |-> 0]

(* A process: its operation, how far it is, and its copies of the rows.    *)
Busy == [op : {"approve", "reject", "submit", "reconcile"},
         stage : {"loaded", "started", "called"},
         payout : Payouts, user : Users \cup {None}, key : Keys \cup {None},
         row : PayoutRow, active : BOOLEAN, att : AttemptRow, fresh : BOOLEAN,
         answer : TransferStatus \cup {"error", None}]
Idle == [op |-> "idle"]

TypeOK ==
  /\ payout \in [Payouts -> PayoutRow]
  /\ attempt \in [Keys -> AttemptRow]
  /\ approved \in [Payouts -> SUBSET Users]
  /\ rejected \in [Payouts -> SUBSET Users]
  /\ ledger \in [Payouts -> SUBSET EntryType]
  /\ balance \in [available : Int, reserved : Int, settled : Int]
  /\ spentToday \in Nat /\ day \in Nat
  /\ evidence \in [Payouts -> SUBSET Keys]
  /\ active \in BOOLEAN
  /\ transfer \in [Keys -> TransferStatus \cup {None}]
  /\ owner \in [Keys -> Payouts \cup {None}]
  /\ lock \in [Payouts -> Processes \cup {None}]
  /\ proc \in [Processes -> Busy \cup {Idle}]

Init ==
  /\ payout = [p \in Payouts |-> [state |-> "created", ref |-> None,
                 hash |-> None, due |-> FALSE, claim |-> "approved"]]
  /\ attempt = [k \in Keys |-> NoAttempt]
  /\ approved = [p \in Payouts |-> {}]
  /\ rejected = [p \in Payouts |-> {}]
  /\ ledger = [p \in Payouts |-> {}]
  /\ balance = [available |-> OpeningBalance, reserved |-> 0, settled |-> 0]
  /\ spentToday = 0 /\ day = 0
  /\ evidence = [p \in Payouts |-> {}]
  /\ active = FALSE
  /\ transfer = [k \in Keys |-> None]
  /\ owner = [k \in Keys |-> None]
  /\ lock = [p \in Payouts |-> None]
  /\ proc = [q \in Processes |-> Idle]

-----------------------------------------------------------------------------
(* What a flush writes: a column whose value the process did not change is *)
(* not in the UPDATE and keeps what other transactions wrote to it.        *)

Column(stored, loaded, written) == IF written = loaded THEN stored ELSE written

(* next_reconciliation_at: "set" is always a new time, hence always        *)
(* written; "clear" is NULL, a change only if the process loaded a time;   *)
(* "reset" is a time flushed first and NULL after it.                      *)
Scheduled(stored, loaded, schedule) ==
  CASE schedule = "set"   -> TRUE
    [] schedule = "clear" -> Column(stored, loaded, FALSE)
    [] schedule = "reset" -> FALSE
    [] schedule = "keep"  -> stored

MergePayout(stored, loaded, written, schedule) ==
  [state |-> Column(stored.state, loaded.state, written.state),
   ref   |-> Column(stored.ref,   loaded.ref,   written.ref),
   hash  |-> Column(stored.hash,  loaded.hash,  written.hash),
   due   |-> Scheduled(stored.due, loaded.due, schedule),
   claim |-> Column(stored.claim, loaded.claim, written.claim)]

MergeAttempt(stored, loaded, written) ==
  [payout |-> stored.payout,
   number |-> stored.number,
   state  |-> Column(stored.state, loaded.state, written.state),
   ref    |-> Column(stored.ref,   loaded.ref,   written.ref),
   tries  |-> Column(stored.tries, loaded.tries, written.tries)]

(* The ledger is insert-only and each entry type has one idempotency key   *)
(* per payout, so a second entry of a type returns the first.              *)
Delta(e, a) ==
  CASE e = "reservation" -> [available |-> 0 - a, reserved |-> a, settled |-> 0]
    [] e = "release"     -> [available |-> a, reserved |-> 0 - a, settled |-> 0]
    [] e = "settlement"  -> [available |-> 0, reserved |-> 0 - a, settled |-> a]

Post(p, e) ==
  IF e \in ledger[p]
  THEN UNCHANGED <<ledger, balance>>
  ELSE LET d == Delta(e, Amount[p]) IN
       /\ ledger' = [ledger EXCEPT ![p] = @ \cup {e}]
       /\ balance' = [available |-> balance.available + d.available,
                      reserved  |-> balance.reserved + d.reserved,
                      settled   |-> balance.settled + d.settled]

(* A row lock is held from a transaction's first flush (or FOR UPDATE) to  *)
(* its end; whoever else writes the row waits.                             *)
Writable(q, p) == lock[p] \in {None, q}

Unlock(q) == lock' = [p \in Payouts |-> IF lock[p] = q THEN None ELSE lock[p]]

Finish(q) == /\ proc' = [proc EXCEPT ![q] = Idle]
             /\ Unlock(q)

-----------------------------------------------------------------------------
(* Loading: every route reads the payout, its claim and its treasury once. *)

Load(q, op, p, u, k) ==
  /\ proc[q] = Idle
  /\ proc' = [proc EXCEPT ![q] =
       [op |-> op, stage |-> "loaded", payout |-> p, user |-> u, key |-> k,
        row |-> payout[p], active |-> active, att |-> NoAttempt,
        fresh |-> FALSE, answer |-> None]]

LoadDecision(q, op, p, u) ==
  /\ op \in {"approve", "reject"}
  /\ Load(q, op, p, u, None)
  /\ UNCHANGED <<dbVars, providerVars, clockVars, active, lock>>

LoadSubmission(q, p, k) ==
  /\ k \in KeysFor[p]
  /\ Load(q, "submit", p, None, k)
  /\ UNCHANGED <<dbVars, providerVars, clockVars, active, lock>>

LoadReconciliation(q, p) ==
  /\ Load(q, "reconcile", p, None, None)
  /\ UNCHANGED <<dbVars, providerVars, clockVars, active, lock>>

(* The task selects due payouts and takes each row FOR UPDATE SKIP LOCKED. *)
LoadDue(q, p) ==
  /\ payout[p].state \in Unresolved \cup {"submitted"}
  /\ payout[p].due
  /\ lock[p] = None
  /\ lock' = [lock EXCEPT ![p] = q]
  /\ Load(q, "reconcile", p, None, None)
  /\ UNCHANGED <<dbVars, providerVars, clockVars, active>>

-----------------------------------------------------------------------------
(* Treasury decisions.  The treasury row is locked FOR UPDATE, so each     *)
(* decision, its checks and its commit are one step; the payout, its claim *)
(* and the treasury status were loaded before that lock was granted.       *)

Required(p) == IF Amount[p] >= HighValue THEN HighQuorum ELSE StandardQuorum

(* A user decides once, and never on a payout to herself.  The mutant      *)
(* lacks the second condition.                                             *)
MayVoteForHerself(p, u) == u \notin approved[p] \cup rejected[p]
MayVote(p, u) == u # Claimant[p] /\ u \notin approved[p] \cup rejected[p]

MayDecide(q, op) ==
  LET r == proc[q] IN
  /\ r.op = op
  /\ r.row.claim = "approved"
  /\ MayVote(r.payout, r.user)
  /\ r.row.state = "created"

MayApprove(q) == /\ MayDecide(q, "approve")
                 /\ proc[q].active
                 /\ Amount[proc[q].payout] <= PayoutLimit

(* The balance and the daily limit.  The mutant counts money that is       *)
(* already set aside for other payouts.                                    *)
WithinDailyLimit(p) == spentToday + Amount[p] <= DailyLimit
AffordableWithReserved(p) == /\ balance.available + balance.reserved >= Amount[p]
                             /\ WithinDailyLimit(p)
Affordable(p) == balance.available >= Amount[p] /\ WithinDailyLimit(p)

RecordApproval(q) ==
  LET p == proc[q].payout IN
  /\ MayApprove(q)
  /\ approved' = [approved EXCEPT ![p] = @ \cup {proc[q].user}]
  /\ Cardinality(approved'[p]) < Required(p)
  /\ Finish(q)
  /\ UNCHANGED <<payout, attempt, rejected, ledger, balance, evidence,
                 providerVars, clockVars, active>>

Authorize(q) ==
  LET p == proc[q].payout IN
  /\ MayApprove(q)
  /\ Writable(q, p)
  /\ approved' = [approved EXCEPT ![p] = @ \cup {proc[q].user}]
  /\ Cardinality(approved'[p]) >= Required(p)
  /\ Affordable(p)
  /\ payout' = [payout EXCEPT ![p].state = "authorized"]
  /\ Post(p, "reservation")
  /\ spentToday' = IF "reservation" \in ledger[p] THEN spentToday
                                                  ELSE spentToday + Amount[p]
  /\ Finish(q)
  /\ UNCHANGED <<attempt, rejected, evidence, providerVars, day, active>>

Reject(q) ==
  LET p == proc[q].payout IN
  /\ MayDecide(q, "reject")
  /\ Writable(q, p)
  /\ rejected' = [rejected EXCEPT ![p] = @ \cup {proc[q].user}]
  /\ payout' = [payout EXCEPT ![p].state = "cancelled"]
  /\ IF "reservation" \in ledger[p]
     THEN "settlement" \notin ledger[p] /\ Post(p, "release")
     ELSE UNCHANGED <<ledger, balance>>
  /\ Finish(q)
  /\ UNCHANGED <<attempt, approved, evidence, providerVars, clockVars, active>>

SetTreasuryPause(paused) ==
  /\ active = paused
  /\ active' = ~paused
  /\ UNCHANGED <<dbVars, providerVars, clockVars, lock, proc>>

-----------------------------------------------------------------------------
(* Submission: start_payout_attempt inserts the attempt and flushes, which *)
(* locks the payout row, but commits only after the provider has answered. *)

Submits(q) == proc[q].op = "submit" /\ proc[q].stage = "loaded" /\ proc[q].active

(* The states a new attempt starts from; the mutant adds "created".        *)
SubmittableUnauthorized == {"created", "authorized", "failed"}
Submittable == {"authorized", "failed"}

InsertedElsewhere(q, k) ==
  \E o \in Processes \ {q} : /\ proc[o].op = "submit"
                             /\ proc[o].fresh
                             /\ proc[o].key = k

StartAttempt(q) ==
  LET r == proc[q]
      number == 1 + Cardinality({k \in Keys : attempt[k].payout = r.payout})
  IN
  /\ Submits(q)
  /\ attempt[r.key] = NoAttempt
  /\ r.row.state \in Submittable
  /\ lock[r.payout] = None
  /\ ~InsertedElsewhere(q, r.key)
  /\ lock' = [lock EXCEPT ![r.payout] = q]
  /\ proc' = [proc EXCEPT
       ![q].stage = "started", ![q].fresh = TRUE,
       ![q].row.state = "submitting",
       ![q].att = [payout |-> r.payout, number |-> number,
                   state |-> "submitting", ref |-> None, tries |-> 0]]
  /\ UNCHANGED <<dbVars, providerVars, clockVars, active>>

(* The same key again while its attempt is unresolved.                     *)
ReuseAttempt(q) ==
  LET r == proc[q] IN
  /\ Submits(q)
  /\ attempt[r.key].payout = r.payout
  /\ attempt[r.key].state \in Unresolved
  /\ proc' = [proc EXCEPT ![q].stage = "started", ![q].att = attempt[r.key]]
  /\ UNCHANGED <<dbVars, providerVars, clockVars, active, lock>>

(* The provider call of a submission.  submit and find_by_idempotency_key  *)
(* agree: a key the provider knows is answered with its transfer, a new    *)
(* one starts a transfer.                                                  *)
SubmitTransfer(q) ==
  LET r == proc[q] IN
  /\ r.op = "submit" /\ r.stage = "started"
  /\ IF transfer[r.key] = None
     THEN /\ \E s \in TransferStatus : transfer' = [transfer EXCEPT ![r.key] = s]
          /\ owner' = [owner EXCEPT ![r.key] = r.payout]
     ELSE UNCHANGED providerVars
  /\ \E answer \in {transfer'[r.key]} \cup
                   (IF "timeout" \in Faults THEN {"error"} ELSE {}) :
       proc' = [proc EXCEPT ![q].stage = "called", ![q].answer = answer]
  /\ UNCHANGED <<dbVars, clockVars, active, lock>>

SubmitUnreachable(q) ==
  /\ "outage" \in Faults
  /\ proc[q].op = "submit" /\ proc[q].stage = "started"
  /\ proc' = [proc EXCEPT ![q].stage = "called", ![q].answer = "error"]
  /\ UNCHANGED <<dbVars, providerVars, clockVars, active, lock>>

-----------------------------------------------------------------------------
(* Reconciliation asks for the transfer the payout refers to, and for the  *)
(* one of the latest attempt's key when the payout refers to none.         *)

Latest(p, k) ==
  /\ attempt[k].payout = p
  /\ \A j \in Keys : attempt[j].payout = p => attempt[j].number <= attempt[k].number

Polled(r, k) == IF r.row.ref # None THEN r.row.ref ELSE k

MayPoll(q) == /\ proc[q].op = "reconcile"
              /\ proc[q].stage = "loaded"
              /\ proc[q].row.state \in Unresolved \cup {"submitted"}

Poll(q) ==
  /\ MayPoll(q)
  /\ \E k \in Keys :
       /\ Latest(proc[q].payout, k)
       /\ LET status == transfer[Polled(proc[q], k)] IN
          proc' = [proc EXCEPT
            ![q].stage = "called", ![q].key = k, ![q].att = attempt[k],
            ![q].answer = IF status = None THEN "error" ELSE status]
  /\ UNCHANGED <<dbVars, providerVars, clockVars, active, lock>>

PollUnreachable(q) ==
  /\ "outage" \in Faults
  /\ MayPoll(q)
  /\ \E k \in Keys :
       /\ Latest(proc[q].payout, k)
       /\ proc' = [proc EXCEPT ![q].stage = "called", ![q].key = k,
                               ![q].att = attempt[k], ![q].answer = "error"]
  /\ UNCHANGED <<dbVars, providerVars, clockVars, active, lock>>

-----------------------------------------------------------------------------
(* What the handler makes of the answer: the rows as it leaves them in     *)
(* memory and the ledger entry it posts.  submit_payout and                *)
(* reconcile_payout treat an answer alike except where r.op is tested.     *)

Reference(r) == IF r.op = "submit" THEN r.key ELSE Polled(r, r.key)
HashOfStatus(r) == r.answer  \* mutant: the status field read for the hash
Hash(r) == IF r.answer \in {"mined", "confirmed"} THEN Reference(r) ELSE None

GivesUp(r) == r.att.tries + 1 >= MaxRecoveries

(* The mutant gives up without releasing the reservation.                  *)
OnErrorKeepingReservation(r) ==
  LET unresolved == r.att.state \in Unresolved
      state == IF GivesUp(r) THEN "failed" ELSE "unknown" IN
  [row |-> IF unresolved THEN [r.row EXCEPT !.state = state] ELSE r.row,
   att |-> IF unresolved THEN [r.att EXCEPT !.state = state, !.tries = @ + 1]
                         ELSE r.att,
   entry |-> None, schedule |-> "set"]
OnError(r) ==
  IF r.att.state \notin Unresolved
  THEN [row |-> r.row, att |-> r.att, entry |-> None, schedule |-> "set"]
  ELSE LET state == IF GivesUp(r) THEN "failed" ELSE "unknown" IN
       [row |-> [r.row EXCEPT !.state = state],
        att |-> [r.att EXCEPT !.state = state, !.tries = @ + 1],
        entry |-> IF GivesUp(r) THEN "release" ELSE None,
        schedule |-> IF GivesUp(r) /\ r.op = "reconcile" THEN "clear" ELSE "set"]

(* Every answer sets both references first; the reconciliation also keeps  *)
(* a transaction hash the payout does not have yet.                        *)
Referred(r) ==
  [row |-> [r.row EXCEPT !.ref = Reference(r),
              !.hash = IF r.op = "reconcile" /\ @ = None THEN Hash(r) ELSE @],
   att |-> [r.att EXCEPT !.ref = Reference(r)]]

(* The mutant does not schedule the next look at the transfer.             *)
OnPendingUnscheduled(r) ==
  [row |-> Referred(r).row, att |-> Referred(r).att,
   entry |-> None, schedule |-> "keep"]
OnPending(r) ==
  [row |-> Referred(r).row, att |-> Referred(r).att,
   entry |-> None, schedule |-> "set"]

OnFailed(r) ==
  [row |-> [Referred(r).row EXCEPT !.state = "failed"],
   att |-> [Referred(r).att EXCEPT
              !.state = IF @ \in Unresolved THEN "failed" ELSE @],
   entry |-> "release",
   schedule |-> IF r.op = "reconcile" THEN "clear" ELSE "keep"]

(* mark_attempt_submitted overwrites the payout's transaction hash.        *)
OnSubmitted(r) ==
  IF r.att.state \in Unresolved
  THEN [row |-> [Referred(r).row EXCEPT !.state = "submitted", !.hash = Hash(r)],
        att |-> [Referred(r).att EXCEPT !.state = "submitted"],
        entry |-> None, schedule |-> "set"]
  ELSE OnPending(r)

OnConfirmed(r) ==
  [row |-> [OnSubmitted(r).row EXCEPT !.state = "confirmed", !.claim = "paid"],
   att |-> OnSubmitted(r).att,
   entry |-> "settlement", schedule |-> "reset"]

(* The mutant settles before the required number of confirmations.         *)
ResultUnconfirmed(r) ==
  CASE r.answer = "error"   -> OnError(r)
    [] r.answer = "pending" -> OnPending(r)
    [] r.answer = "failed"  -> OnFailed(r)
    [] r.answer \in {"mined", "confirmed"} -> OnConfirmed(r)
    [] OTHER                -> OnSubmitted(r)
Result(r) ==
  CASE r.answer = "error"     -> OnError(r)
    [] r.answer = "pending"   -> OnPending(r)
    [] r.answer = "failed"    -> OnFailed(r)
    [] r.answer = "confirmed" -> OnConfirmed(r)
    [] OTHER                  -> OnSubmitted(r)

(* The exceptions between the answer and the commit: an attempt that is    *)
(* not being submitted, a settlement of a payout that is not submitted or  *)
(* has another hash, a release of a settled payout, a change of a terminal *)
(* attempt (its listener), a confirmation without matching evidence (the   *)
(* deferred trigger).                                                      *)
MarksWrongly(r) ==
  /\ r.answer \in {"submitted", "mined", "confirmed"}
  /\ r.att.state \in Unresolved
  /\ r.row.state \notin Unresolved

SettlesWrongly(r) ==
  /\ r.answer = "confirmed"
  /\ \/ OnSubmitted(r).row.state # "submitted"
     \/ OnSubmitted(r).row.hash # Hash(r)

ReleasesSettled(r) ==
  /\ Result(r).entry = "release"
  /\ {"reservation", "settlement"} \subseteq ledger[r.payout]

ChangesTerminal(r) == r.att.state \in {"submitted", "failed"} /\ Result(r).att # r.att

(* Reconciliation records every answer, submission only one that settles.  *)
Recorded(r) ==
  IF r.answer = "confirmed" \/ (r.answer = "mined" /\ r.op = "reconcile")
  THEN evidence[r.payout] \cup {Reference(r)}
  ELSE evidence[r.payout]

Stored(r) == IF r.fresh THEN [payout[r.payout] EXCEPT !.state = "submitting"]
                        ELSE payout[r.payout]
Written(r) == MergePayout(Stored(r), r.row, Result(r).row, Result(r).schedule)

LacksEvidence(r) ==
  /\ r.row.state # "confirmed" /\ Result(r).row.state = "confirmed"
  /\ \/ Written(r).ref # Written(r).hash
     \/ Written(r).ref \notin Recorded(r)

Raises(r) == \/ MarksWrongly(r) \/ SettlesWrongly(r) \/ ReleasesSettled(r)
             \/ ChangesTerminal(r) \/ LacksEvidence(r)

(* A release is posted only against a reservation.                         *)
PostResult(p, e) ==
  IF e = None \/ (e = "release" /\ "reservation" \notin ledger[p])
  THEN UNCHANGED <<ledger, balance>>
  ELSE Post(p, e)

Save(q) ==
  LET r == proc[q] IN
  /\ r.op \in {"submit", "reconcile"}
  /\ r.stage = "called"
  /\ Writable(q, r.payout)
  /\ ~Raises(r)
  /\ payout' = [payout EXCEPT ![r.payout] = Written(r)]
  /\ attempt' = [attempt EXCEPT ![r.key] =
       IF r.fresh THEN Result(r).att ELSE MergeAttempt(@, r.att, Result(r).att)]
  /\ evidence' = [evidence EXCEPT ![r.payout] = Recorded(r)]
  /\ PostResult(r.payout, Result(r).entry)
  /\ Finish(q)
  /\ UNCHANGED <<approved, rejected, providerVars, clockVars, active>>

(* A request that raises, returns early or loses its process leaves the    *)
(* database as it was; what the provider did stays done.                   *)
RollBack(q) ==
  /\ proc[q] # Idle
  /\ \/ proc[q].stage = "loaded"
     \/ proc[q].stage = "called" /\ Raises(proc[q])
     \/ "crash" \in Faults
  /\ Finish(q)
  /\ UNCHANGED <<dbVars, providerVars, clockVars, active>>

-----------------------------------------------------------------------------
(* The provider moves a transfer on; "confirmed" and "failed" are final.   *)
Progress(k) ==
  /\ \E s \in TransferStatus :
       /\ <<transfer[k], s>> \in
            {<<"pending", "submitted">>, <<"pending", "failed">>,
             <<"submitted", "mined">>, <<"submitted", "failed">>,
             <<"mined", "confirmed">>}
       /\ transfer' = [transfer EXCEPT ![k] = s]
  /\ UNCHANGED <<dbVars, owner, clockVars, active, lock, proc>>

Midnight ==
  /\ day < MaxDays
  /\ day' = day + 1
  /\ spentToday' = 0
  /\ UNCHANGED <<dbVars, providerVars, active, lock, proc>>

Request(q) ==
  \/ \E p \in Payouts, u \in Users, op \in {"approve", "reject"} :
       LoadDecision(q, op, p, u)
  \/ \E p \in Payouts, k \in Keys : LoadSubmission(q, p, k)
  \/ \E p \in Payouts : LoadReconciliation(q, p)

Handle(q) ==
  \/ RecordApproval(q) \/ Authorize(q) \/ Reject(q)
  \/ StartAttempt(q) \/ ReuseAttempt(q)
  \/ SubmitTransfer(q) \/ SubmitUnreachable(q)
  \/ Poll(q) \/ PollUnreachable(q)
  \/ Save(q) \/ RollBack(q)

Next ==
  \/ \E q \in Servers : Request(q)
  \/ \E q \in Workers, p \in Payouts : LoadDue(q, p)
  \/ \E q \in Processes : Handle(q)
  \/ \E paused \in BOOLEAN : SetTreasuryPause(paused)
  \/ \E k \in Keys : Progress(k)
  \/ Midnight

Spec == Init /\ [][Next]_vars

-----------------------------------------------------------------------------
(* Properties *)

(* The treasury lock serialises check and reservation, so the balance that *)
(* approve_treasury_payout compares with the amount never goes below zero  *)
(* and a day's reservations stay within the daily limit.                   *)
AvailableNeverNegative == balance.available >= 0 /\ spentToday <= DailyLimit

(* Money is reserved only for a payout that the required number of         *)
(* distinct users approved, none of them its claimant, and only within the *)
(* per-payout limit, however approvals, rejections and pauses interleave.  *)
ReservedByQuorum ==
  \A p \in Payouts :
    "reservation" \in ledger[p] =>
      /\ Cardinality(approved[p]) >= Required(p)
      /\ Claimant[p] \notin approved[p]
      /\ Amount[p] <= PayoutLimit

(* Whatever snapshot a request works on, the provider is asked for a       *)
(* transfer, and the ledger releases or settles, only for a payout whose   *)
(* amount was reserved, that is, for which the quorum was reached.         *)
TransferredOnReservation ==
  \A p \in Payouts :
    ledger[p] # {} \/ (\E k \in Keys : owner[k] = p) =>
      "reservation" \in ledger[p]

(* A claim is paid only when the provider holds a confirmed transfer for   *)
(* its payout, and exactly the paid claims are settled in the ledger       *)
(* (_settle_confirmed_payout and confirm_payout under stale snapshots).    *)
PaidWasTransferred ==
  \A p \in Payouts :
    /\ payout[p].claim = "paid" <=> "settlement" \in ledger[p]
    /\ payout[p].claim = "paid" =>
         \E k \in Keys : owner[k] = p /\ transfer[k] = "confirmed"

(* backend/README.md: Submission failure moves a payout to failed, from    *)
(* which a new attempt can be made; release_payout_reservation: a released *)
(* amount is not settled, a settlement never unwound.                      *)
SettledFromReservation ==
  \A p \in Payouts : ~({"release", "settlement"} \subseteq ledger[p])

(* backend/README.md: application retries return the existing payout or    *)
(* attempt instead of creating another transfer.                           *)
Moving == {"pending", "submitted", "mined", "confirmed"}
TransferredOnce ==
  \A j, k \in Keys :
    (owner[j] = owner[k] /\ transfer[j] \in Moving /\ transfer[k] \in Moving) => j = k

(* models/bounty_domain.py: terminal payout attempts are immutable.        *)
TerminalAttemptsImmutable ==
  [][\A k \in Keys : attempt[k].state \in {"submitted", "failed"} =>
                       attempt'[k] = attempt[k]]_attempt

(* The treasury's promise, read off the payout's state and its ledger.     *)
Phase(p) ==
  CASE payout[p].state = "created" -> "open"
    [] payout[p].state = "confirmed" -> "paid"
    [] payout[p].state \in {"cancelled", "failed"} -> "closed"
    [] OTHER -> "reserved"

Promise == INSTANCE TreasuryPromise WITH
  phase <- [p \in Payouts |-> Phase(p)],
  free  <- balance.available

(* When requests do not overlap and a client keeps one key per payout, the *)
(* handlers together implement TreasuryPromise: every payout goes from     *)
(* open to reserved to paid or closed, and the balance follows.            *)
KeepsPromise == Promise!Spec

(* The worker's beat runs, its calls and commits succeed now and then, and *)
(* the provider brings every transfer to an end.                           *)
SaveAnswer(q) == Save(q) /\ proc[q].answer # "error"

Fairness ==
  /\ \A q \in Workers :
       /\ \A p \in Payouts : SF_vars(LoadDue(q, p))
       /\ SF_vars(Poll(q)) /\ SF_vars(Save(q)) /\ SF_vars(SaveAnswer(q))
       /\ WF_vars(RollBack(q))
  /\ \A q \in Servers : WF_vars(Handle(q))
  /\ \A k \in Keys : WF_vars(Progress(k))

FairSpec == Spec /\ Fairness

(* A payout handed to the provider does not stay in flight for ever: the   *)
(* worker settles it, fails it, or gives up after MaxRecoveries errors.    *)
InFlight(p) == payout[p].state \in Unresolved \cup {"submitted"}
SubmissionsEnd == \A p \in Payouts : InFlight(p) ~> ~InFlight(p)
=============================================================================
