--------------------------- MODULE PayoutsProofs ---------------------------
(***************************************************************************)
(* Theorems about Payouts for any number of payouts, users, keys, servers  *)
(* and workers, and any set of faults.                                     *)
(***************************************************************************)
EXTENDS Payouts, FiniteSetTheorems, TLAPS

(* A submission carries a key from the start, a reconciliation has found   *)
(* the latest attempt's key when it is answered, a decision has a user.    *)
ArgumentsKnown ==
  \A q \in Processes :
    proc[q] # Idle =>
      /\ proc[q].op = "submit" \/ proc[q].stage # "loaded" => proc[q].key \in Keys
      /\ proc[q].op \in {"approve", "reject"} => proc[q].user \in Users

TypeInv == TypeOK /\ ArgumentsKnown

-----------------------------------------------------------------------------
(* What the handlers make of an answer *)

(* The reference a handler stores is a key, and so is a hash it reads.     *)
LEMMA HashType ==
  ASSUME NEW r \in Busy, r.key \in Keys
  PROVE  /\ Reference(r) \in Keys
         /\ Hash(r) \in Keys \cup {None}
         /\ Hash(r) \in {Reference(r), None}
PROOF
<1>1. Reference(r) \in Keys
  BY DEF Reference, Polled, Busy, PayoutRow
<1> QED BY <1>1 DEF Hash

(* Storing the references of an answer keeps the rows well formed.         *)
LEMMA ReferredType ==
  ASSUME NEW r \in Busy, r.key \in Keys
  PROVE  /\ Referred(r).row \in PayoutRow
         /\ Referred(r).att \in AttemptRow
         /\ Referred(r).att.payout = r.att.payout
         /\ Referred(r).row.ref = Reference(r)
         /\ Referred(r).row.claim = r.row.claim
PROOF
<1>1. r.row \in PayoutRow /\ r.att \in AttemptRow
  BY DEF Busy
<1> QED BY <1>1, HashType DEF Referred, PayoutRow, AttemptRow

(* Every answer leaves well-formed rows, refers to the transfer it is      *)
(* about or to what the payout referred to before, and marks the claim     *)
(* paid exactly when it settles.                                           *)
ResultShape(r, s) ==
  /\ s.row \in PayoutRow
  /\ s.att \in AttemptRow /\ s.att.payout = r.att.payout
  /\ s.row.ref \in {r.row.ref, Reference(r)}
  /\ s.entry \in {"release", "settlement", None}
  /\ s.schedule \in {"set", "clear", "reset", "keep"}
  /\ IF r.answer = "confirmed"
     THEN s.row.claim = "paid" /\ s.entry = "settlement"
     ELSE s.row.claim = r.row.claim /\ s.entry # "settlement"

(* Whatever the answer, submit_payout and reconcile_payout leave well-     *)
(* formed rows and post at most a release or a settlement.                 *)
LEMMA ResultType ==
  ASSUME NEW r \in Busy, r.key \in Keys
  PROVE  ResultShape(r, Result(r))
PROOF
<1>1. /\ r.row \in PayoutRow /\ r.att \in AttemptRow
      /\ r.att.tries \in Nat
  BY DEF Busy, AttemptRow
<1>2. ASSUME r.answer = "error" PROVE ResultShape(r, OnError(r))
  <2> DEFINE state == IF GivesUp(r) THEN "failed" ELSE "unknown"
             row == [r.row EXCEPT !.state = state]
             att == [r.att EXCEPT !.state = state, !.tries = @ + 1]
  <2>0. state \in {"failed", "unknown"}
    OBVIOUS
  <2> HIDE DEF state
  <2>1. /\ row \in PayoutRow
        /\ row.ref = r.row.ref /\ row.claim = r.row.claim
    BY <1>1, <2>0 DEF PayoutRow, PayoutState
  <2>2. att \in AttemptRow /\ att.payout = r.att.payout
    <3> DEFINE changed == [r.att EXCEPT !.state = state]
    <3>1. changed \in AttemptRow /\ changed.payout = r.att.payout
      BY <1>1, <2>0 DEF AttemptRow, AttemptState
    <3> HIDE DEF changed
    <3>2. /\ [changed EXCEPT !.tries = r.att.tries + 1] \in AttemptRow
          /\ [changed EXCEPT !.tries = r.att.tries + 1].payout = r.att.payout
      BY <1>1, <3>1 DEF AttemptRow
    <3> QED BY <3>2 DEF changed
  <2> HIDE DEF row, att
  <2>3. OnError(r).row \in {r.row, row} /\ OnError(r).att \in {r.att, att}
    BY DEF OnError, row, att, state
  <2>4. /\ OnError(r).entry \in {"release", None}
        /\ OnError(r).schedule \in {"set", "clear"}
    BY DEF OnError
  <2> QED BY <1>1, <1>2, <2>1, <2>2, <2>3, <2>4, NoneAssumption DEF ResultShape
<1>3. r.answer # "confirmed" => ResultShape(r, OnPending(r))
  BY ReferredType, NoneAssumption DEF ResultShape, OnPending
<1>4. r.answer = "failed" => ResultShape(r, OnFailed(r))
  BY ReferredType DEF ResultShape, OnFailed, PayoutRow, AttemptRow, PayoutState, AttemptState
<1>5. /\ OnSubmitted(r).row \in PayoutRow
      /\ OnSubmitted(r).att \in AttemptRow
      /\ OnSubmitted(r).att.payout = r.att.payout
      /\ OnSubmitted(r).row.ref = Reference(r)
      /\ OnSubmitted(r).row.claim = r.row.claim
      /\ OnSubmitted(r).entry = None
      /\ OnSubmitted(r).schedule = "set"
  BY ReferredType, HashType
  DEF OnSubmitted, OnPending, PayoutRow, AttemptRow, PayoutState, AttemptState
<1>6. r.answer # "confirmed" => ResultShape(r, OnSubmitted(r))
  BY <1>5, NoneAssumption DEF ResultShape
<1>7. r.answer = "confirmed" => ResultShape(r, OnConfirmed(r))
  BY <1>5 DEF ResultShape, OnConfirmed, PayoutRow, PayoutState
<1> QED BY <1>2, <1>3, <1>4, <1>6, <1>7 DEF Result

-----------------------------------------------------------------------------
(* Type correctness *)

(* A busy process is not idle.                                             *)
LEMMA NotIdle == \A r \in Busy : r # Idle
BY DEF Busy, Idle

(* The end of a request or task leaves its process idle and unlocks.       *)
LEMMA FinishType ==
  ASSUME TypeInv, NEW q \in Processes, Finish(q)
  PROVE  /\ proc' \in [Processes -> Busy \cup {Idle}]
         /\ lock' \in [Payouts -> Processes \cup {None}]
         /\ ArgumentsKnown'
PROOF
<1>1. proc' \in [Processes -> Busy \cup {Idle}]
  BY DEF TypeInv, TypeOK, Finish
<1>2. lock' \in [Payouts -> Processes \cup {None}]
  BY DEF TypeInv, TypeOK, Finish, Unlock
<1>3. ArgumentsKnown'
  BY DEF TypeInv, TypeOK, ArgumentsKnown, Finish
<1> QED BY <1>1, <1>2, <1>3

(* Only a reservation lowers the available balance.                        *)
LEMMA DeltaType ==
  ASSUME NEW e \in EntryType, NEW a \in Int
  PROVE  /\ Delta(e, a) \in [available : Int, reserved : Int, settled : Int]
         /\ e # "reservation" => Delta(e, a).available \in {0, a}
         /\ e = "reservation" => Delta(e, a).available = 0 - a
PROOF
<1>1. CASE e = "reservation"
  BY <1>1 DEF Delta
<1>2. CASE e = "release"
  BY <1>2 DEF Delta
<1>3. CASE e = "settlement"
  BY <1>3 DEF Delta
<1> QED BY <1>1, <1>2, <1>3 DEF EntryType

(* A ledger entry keeps the ledger and the balances well formed.           *)
LEMMA PostType ==
  ASSUME TypeInv, NEW p \in Payouts, NEW e \in EntryType, Post(p, e)
  PROVE  /\ ledger' \in [Payouts -> SUBSET EntryType]
         /\ balance' \in [available : Int, reserved : Int, settled : Int]
PROOF
<1> DEFINE d == Delta(e, Amount[p])
<1>1. Amount[p] \in Int
  BY PolicyAssumption
<1>2. d \in [available : Int, reserved : Int, settled : Int]
  BY <1>1, DeltaType
<1> HIDE DEF d
<1>3. ledger' \in [Payouts -> SUBSET EntryType]
  BY DEF Post, TypeInv, TypeOK
<1>4. \/ balance' = balance
      \/ balance' = [available |-> balance.available + d.available,
                     reserved  |-> balance.reserved + d.reserved,
                     settled   |-> balance.settled + d.settled]
  BY DEF Post, d
<1> QED BY <1>2, <1>3, <1>4 DEF TypeInv, TypeOK

(* The load of a route makes a well-formed process.                        *)
LEMMA LoadType ==
  ASSUME TypeInv,
         NEW q \in Processes, NEW p \in Payouts,
         NEW op \in {"approve", "reject", "submit", "reconcile"},
         NEW u \in Users \cup {None}, NEW k \in Keys \cup {None},
         op = "submit" => k \in Keys,
         op \in {"approve", "reject"} => u \in Users,
         Load(q, op, p, u, k)
  PROVE  /\ proc' \in [Processes -> Busy \cup {Idle}]
         /\ ArgumentsKnown'
PROOF
<1> DEFINE r == [op |-> op, stage |-> "loaded", payout |-> p, user |-> u,
                 key |-> k, row |-> payout[p], active |-> active,
                 att |-> NoAttempt, fresh |-> FALSE, answer |-> None]
<1>1. NoAttempt \in AttemptRow
  BY DEF NoAttempt, AttemptRow, AttemptState
<1>2. r \in Busy
  BY <1>1 DEF Busy, TypeInv, TypeOK
<1>3. r.op = op /\ r.stage = "loaded" /\ r.key = k /\ r.user = u
  OBVIOUS
<1>4. proc' = [proc EXCEPT ![q] = r]
  BY DEF Load
<1> HIDE DEF r
<1>5. proc' \in [Processes -> Busy \cup {Idle}]
  BY <1>2, <1>4 DEF TypeInv, TypeOK
<1>6. ArgumentsKnown'
  BY <1>3, <1>4, <1>5 DEF ArgumentsKnown, TypeInv, TypeOK
<1> QED BY <1>5, <1>6

(* The fresh database satisfies the strengthened type invariant.           *)
LEMMA TypeInit == Init => TypeInv
PROOF
<1> SUFFICES ASSUME Init PROVE TypeInv
  OBVIOUS
<1>1. NoAttempt \in AttemptRow
  BY DEF NoAttempt, AttemptRow, AttemptState
<1>2. payout \in [Payouts -> PayoutRow]
  BY DEF Init, PayoutRow, PayoutState
<1>3. OpeningBalance \in Int
  BY PolicyAssumption
<1>4. balance \in [available : Int, reserved : Int, settled : Int]
  BY <1>3 DEF Init
<1>5. TypeOK
  BY <1>1, <1>2, <1>4 DEF Init, TypeOK
<1>6. ArgumentsKnown
  BY DEF Init, ArgumentsKnown
<1> QED BY <1>5, <1>6 DEF TypeInv

(* A process that handles a request has a well-formed record.              *)
LEMMA BusyType ==
  ASSUME TypeOK, NEW q \in Processes,
         proc[q].op \in {"approve", "reject", "submit", "reconcile"}
  PROVE  proc[q] \in Busy /\ proc[q] # Idle
BY DEF TypeOK, Idle

(* A flush that writes only the changed columns leaves a payout row.       *)
LEMMA WrittenType ==
  ASSUME TypeInv, NEW r \in Busy, r.key \in Keys
  PROVE  Written(r) \in PayoutRow
PROOF
<1>1. Stored(r) \in PayoutRow
  <2>1. payout[r.payout] \in PayoutRow
    BY DEF Busy, TypeInv, TypeOK
  <2>2. [payout[r.payout] EXCEPT !.state = "submitting"] \in PayoutRow
    BY <2>1 DEF PayoutRow, PayoutState
  <2> QED BY <2>1, <2>2 DEF Stored
<1>2. r.row \in PayoutRow
  BY DEF Busy
<1>3. /\ Result(r).row \in PayoutRow
      /\ Result(r).schedule \in {"set", "clear", "reset", "keep"}
  BY ResultType DEF ResultShape
<1> DEFINE due == Scheduled(Stored(r).due, r.row.due, Result(r).schedule)
<1>4. due \in BOOLEAN
  <2>1. Stored(r).due \in BOOLEAN
    BY <1>1 DEF PayoutRow
  <2>2. CASE Result(r).schedule = "set"
    BY <2>2 DEF Scheduled
  <2>3. CASE Result(r).schedule = "clear"
    BY <2>1, <2>3 DEF Scheduled, Column
  <2>4. CASE Result(r).schedule = "reset"
    BY <2>4 DEF Scheduled
  <2>5. CASE Result(r).schedule = "keep"
    BY <2>1, <2>5 DEF Scheduled
  <2> QED BY <1>3, <2>2, <2>3, <2>4, <2>5
<1> HIDE DEF due
<1>5. Written(r) = [state |-> Column(Stored(r).state, r.row.state, Result(r).row.state),
                    ref   |-> Column(Stored(r).ref, r.row.ref, Result(r).row.ref),
                    hash  |-> Column(Stored(r).hash, r.row.hash, Result(r).row.hash),
                    due   |-> due,
                    claim |-> Column(Stored(r).claim, r.row.claim, Result(r).row.claim)]
  BY DEF Written, MergePayout, due
<1> QED BY <1>1, <1>2, <1>3, <1>4, <1>5 DEF Column, PayoutRow

(* The commit of an answer keeps the type invariant.                       *)
LEMMA SaveType ==
  ASSUME TypeInv, NEW q \in Processes, Save(q)
  PROVE  TypeInv'
PROOF
<1> DEFINE r == proc[q]
<1>1. r \in Busy /\ r # Idle
  BY BusyType DEF Save, TypeInv
<1>2. r.payout \in Payouts /\ r.key \in Keys
  BY <1>1 DEF Busy, Save, TypeInv, ArgumentsKnown
<1>3. payout' \in [Payouts -> PayoutRow]
  BY <1>1, <1>2, WrittenType DEF Save, TypeInv, TypeOK
<1>4. attempt' \in [Keys -> AttemptRow]
  <2>1. Result(r).att \in AttemptRow
    BY <1>1, <1>2, ResultType DEF ResultShape
  <2>2. r.att \in AttemptRow /\ attempt[r.key] \in AttemptRow
    BY <1>1, <1>2 DEF Busy, TypeInv, TypeOK
  <2>3. MergeAttempt(attempt[r.key], r.att, Result(r).att) \in AttemptRow
    BY <2>1, <2>2 DEF MergeAttempt, Column, AttemptRow
  <2>4. attempt' = [attempt EXCEPT ![r.key] =
                      IF r.fresh THEN Result(r).att
                      ELSE MergeAttempt(attempt[r.key], r.att, Result(r).att)]
    BY DEF Save
  <2> QED BY <2>1, <2>3, <2>4 DEF TypeInv, TypeOK
<1>5. evidence' \in [Payouts -> SUBSET Keys]
  <2>1. Recorded(r) \in SUBSET Keys
    BY <1>1, <1>2, HashType DEF Recorded, TypeInv, TypeOK
  <2>2. evidence' = [evidence EXCEPT ![r.payout] = Recorded(r)]
    BY DEF Save
  <2> HIDE DEF r
  <2> QED BY <2>1, <2>2 DEF TypeInv, TypeOK
<1>6. /\ ledger' \in [Payouts -> SUBSET EntryType]
      /\ balance' \in [available : Int, reserved : Int, settled : Int]
  <2>1. Result(r).entry \in {"release", "settlement", None}
    BY <1>1, <1>2, ResultType DEF ResultShape
  <2>2. PostResult(r.payout, Result(r).entry)
    BY DEF Save
  <2>3. \/ UNCHANGED <<ledger, balance>>
        \/ /\ Result(r).entry \in EntryType
           /\ Post(r.payout, Result(r).entry)
    BY <2>1, <2>2 DEF PostResult, EntryType
  <2>4. CASE UNCHANGED <<ledger, balance>>
    BY <2>4 DEF TypeInv, TypeOK
  <2> QED BY <1>2, <2>3, <2>4, PostType
<1>7. /\ proc' \in [Processes -> Busy \cup {Idle}]
      /\ lock' \in [Payouts -> Processes \cup {None}]
      /\ ArgumentsKnown'
  BY FinishType DEF Save
<1>8. UNCHANGED <<approved, rejected, transfer, owner, spentToday, day, active>>
  BY DEF Save, providerVars, clockVars
<1> QED BY <1>3, <1>4, <1>5, <1>6, <1>7, <1>8 DEF TypeInv, TypeOK

(* start_payout_attempt keeps the type invariant.                          *)
LEMMA StartAttemptType ==
  ASSUME TypeInv, NEW q \in Processes, StartAttempt(q)
  PROVE  TypeInv'
PROOF
<1> DEFINE r == proc[q]
           number == 1 + Cardinality({k \in Keys : attempt[k].payout = r.payout})
           att == [payout |-> r.payout, number |-> number,
                   state |-> "submitting", ref |-> None, tries |-> 0]
           started == [r EXCEPT !.stage = "started", !.fresh = TRUE,
                                !.row.state = "submitting", !.att = att]
<1>1. /\ r \in Busy /\ r # Idle /\ r.op = "submit"
      /\ r.key \in Keys /\ r.payout \in Payouts
  BY BusyType DEF StartAttempt, Submits, TypeInv, ArgumentsKnown, Busy
<1>2. number \in Nat
  <2> DEFINE S == {k \in Keys : attempt[k].payout = r.payout}
  <2>1. IsFiniteSet(S)
    BY FiniteAssumption, FS_Subset
  <2>2. Cardinality(S) \in Nat
    BY <2>1, FS_CardinalityType
  <2> QED BY <2>2
<1> HIDE DEF number
<1>3. att \in AttemptRow
  BY <1>1, <1>2 DEF AttemptRow, AttemptState
<1> HIDE DEF att
<1> DEFINE r1 == [r EXCEPT !.stage = "started"]
           r2 == [r1 EXCEPT !.fresh = TRUE]
           r3 == [r2 EXCEPT !.row.state = "submitting"]
<1>4. r1 \in Busy /\ r1.key = r.key /\ r1.op = r.op
  BY <1>1 DEF Busy
<1> HIDE DEF r1
<1>5. r2 \in Busy /\ r2.key = r.key /\ r2.op = r.op
  BY <1>4 DEF Busy
<1> HIDE DEF r2
<1>6. r3 \in Busy /\ r3.key = r.key /\ r3.op = r.op
  BY <1>5 DEF Busy, PayoutRow, PayoutState
<1> HIDE DEF r3
<1>7. /\ [r3 EXCEPT !.att = att] \in Busy
      /\ [r3 EXCEPT !.att = att].key = r.key
      /\ [r3 EXCEPT !.att = att].op = r.op
  BY <1>3, <1>6 DEF Busy
<1>8. /\ started \in Busy /\ started.key = r.key /\ started.op = r.op
      /\ proc' = [proc EXCEPT ![q] = started]
  BY <1>7, Zenon DEF StartAttempt, r1, r2, r3, att, number
<1> HIDE DEF started, r
<1>9. proc' \in [Processes -> Busy \cup {Idle}]
  BY <1>8 DEF TypeInv, TypeOK
<1>10. ArgumentsKnown'
  BY <1>1, <1>8, <1>9 DEF ArgumentsKnown, TypeInv, TypeOK
<1>11. lock' \in [Payouts -> Processes \cup {None}]
  BY DEF StartAttempt, TypeInv, TypeOK
<1>12. UNCHANGED <<dbVars, providerVars, clockVars, active>>
  BY DEF StartAttempt
<1> QED BY <1>9, <1>10, <1>11, <1>12
        DEF TypeInv, TypeOK, dbVars, providerVars, clockVars

(* A step that replaces one process by a busy one with its key known keeps *)
(* the processes well formed.                                              *)
LEMMA ProcType ==
  ASSUME TypeInv, NEW q \in Processes, NEW r \in Busy, r.key \in Keys,
         r.op \in {"submit", "reconcile"},
         proc' = [proc EXCEPT ![q] = r]
  PROVE  proc' \in [Processes -> Busy \cup {Idle}] /\ ArgumentsKnown'
BY DEF TypeInv, TypeOK, ArgumentsKnown

(* The return of an existing attempt keeps the type invariant.             *)
LEMMA ReuseAttemptType ==
  ASSUME TypeInv, NEW q \in Processes, ReuseAttempt(q)
  PROVE  TypeInv'
PROOF
<1> DEFINE r == proc[q]
           r1 == [r EXCEPT !.stage = "started"]
           r2 == [r1 EXCEPT !.att = attempt[r.key]]
<1>1. r \in Busy /\ r # Idle /\ r.op = "submit" /\ r.key \in Keys
  BY BusyType DEF ReuseAttempt, Submits, TypeInv, ArgumentsKnown
<1>2. attempt[r.key] \in AttemptRow
  BY <1>1 DEF TypeInv, TypeOK
<1>3. r1 \in Busy /\ r1.key = r.key /\ r1.op = r.op
  BY <1>1 DEF Busy
<1> HIDE DEF r1
<1>4. r2 \in Busy /\ r2.key = r.key /\ r2.op = r.op
  BY <1>2, <1>3 DEF Busy
<1>5. proc' = [proc EXCEPT ![q] = r2]
  BY Zenon DEF ReuseAttempt, r1
<1> HIDE DEF r2
<1>6. proc' \in [Processes -> Busy \cup {Idle}] /\ ArgumentsKnown'
  BY <1>1, <1>4, <1>5, ProcType
<1>7. UNCHANGED <<dbVars, providerVars, clockVars, active, lock>>
  BY DEF ReuseAttempt
<1> QED BY <1>6, <1>7 DEF TypeInv, TypeOK, dbVars, providerVars, clockVars

(* The record of a reconciliation that the provider has answered.          *)
Polling(q, k, answer) ==
  [proc[q] EXCEPT !.stage = "called", !.key = k,
                  !.att = attempt[k], !.answer = answer]

(* An answered reconciliation is well formed.                              *)
LEMMA CallType ==
  ASSUME TypeInv, NEW q \in Processes, proc[q] \in Busy,
         NEW k \in Keys,
         NEW answer \in TransferStatus \cup {"error"}
  PROVE  /\ Polling(q, k, answer) \in Busy
         /\ Polling(q, k, answer).key = k
         /\ Polling(q, k, answer).op = proc[q].op
PROOF
<1> DEFINE r1 == [proc[q] EXCEPT !.stage = "called"]
           r2 == [r1 EXCEPT !.key = k]
           r3 == [r2 EXCEPT !.att = attempt[k]]
           r4 == [r3 EXCEPT !.answer = answer]
<1>1. r1 \in Busy /\ r1.op = proc[q].op
  BY DEF Busy
<1> HIDE DEF r1
<1>2. r2 \in Busy /\ r2.key = k /\ r2.op = proc[q].op
  BY <1>1 DEF Busy
<1> HIDE DEF r2
<1>3. attempt[k] \in AttemptRow
  BY DEF TypeInv, TypeOK
<1>4. r3 \in Busy /\ r3.key = k /\ r3.op = proc[q].op
  BY <1>3, <1>2 DEF Busy
<1> HIDE DEF r3
<1>5. r4 \in Busy /\ r4.key = k /\ r4.op = proc[q].op
  BY <1>4 DEF Busy
<1> QED BY <1>5, Zenon DEF Polling, r1, r2, r3

(* An answered submission is well formed.                                  *)
LEMMA AnswerType ==
  ASSUME TypeInv, NEW q \in Processes, proc[q] \in Busy, proc[q].key \in Keys,
         NEW answer \in TransferStatus \cup {"error"}
  PROVE  LET r == [proc[q] EXCEPT !.stage = "called", !.answer = answer]
         IN  r \in Busy /\ r.key \in Keys /\ r.op = proc[q].op
PROOF
<1> DEFINE r1 == [proc[q] EXCEPT !.stage = "called"]
           r2 == [r1 EXCEPT !.answer = answer]
<1>1. r1 \in Busy /\ r1.key = proc[q].key /\ r1.op = proc[q].op
  BY DEF Busy
<1> HIDE DEF r1
<1>2. r2 \in Busy /\ r2.key = proc[q].key /\ r2.op = proc[q].op
  BY <1>1 DEF Busy
<1> QED BY <1>2, Zenon DEF r1

(* The provider call of a submission keeps the type invariant.             *)
LEMMA SubmitTransferType ==
  ASSUME TypeInv, NEW q \in Processes, SubmitTransfer(q)
  PROVE  TypeInv'
PROOF
<1>1. /\ proc[q] \in Busy /\ proc[q].op = "submit"
      /\ proc[q].key \in Keys /\ proc[q].payout \in Payouts
  BY BusyType DEF SubmitTransfer, TypeInv, ArgumentsKnown, Busy
<1>2. transfer' \in [Keys -> TransferStatus \cup {None}]
  BY <1>1 DEF SubmitTransfer, TypeInv, TypeOK, providerVars
<1>3. owner' \in [Keys -> Payouts \cup {None}]
  BY <1>1 DEF SubmitTransfer, TypeInv, TypeOK, providerVars
<1>4. transfer'[proc[q].key] \in TransferStatus
  BY <1>1 DEF SubmitTransfer, TypeInv, TypeOK, providerVars
<1>5. PICK answer \in TransferStatus \cup {"error"} :
        proc' = [proc EXCEPT ![q] =
                   [proc[q] EXCEPT !.stage = "called", !.answer = answer]]
  <2>1. PICK answer \in {transfer'[proc[q].key]} \cup
                        (IF "timeout" \in Faults THEN {"error"} ELSE {}) :
          proc' = [proc EXCEPT ![q].stage = "called", ![q].answer = answer]
    BY Zenon DEF SubmitTransfer
  <2>2. answer \in TransferStatus \cup {"error"}
    BY <1>4, <2>1
  <2> QED BY <2>1, <2>2
<1>6. proc' \in [Processes -> Busy \cup {Idle}] /\ ArgumentsKnown'
  BY <1>1, <1>5, AnswerType, ProcType
<1>7. UNCHANGED <<dbVars, clockVars, active, lock>>
  BY DEF SubmitTransfer
<1> QED BY <1>2, <1>3, <1>6, <1>7 DEF TypeInv, TypeOK, dbVars, clockVars

(* A submission that never reaches the provider keeps the type invariant.  *)
LEMMA SubmitUnreachableType ==
  ASSUME TypeInv, NEW q \in Processes, SubmitUnreachable(q)
  PROVE  TypeInv'
PROOF
<1>1. proc[q] \in Busy /\ proc[q].op = "submit" /\ proc[q].key \in Keys
  BY BusyType DEF SubmitUnreachable, TypeInv, ArgumentsKnown
<1>2. proc' = [proc EXCEPT ![q] =
                 [proc[q] EXCEPT !.stage = "called", !.answer = "error"]]
  BY Zenon DEF SubmitUnreachable
<1>3. proc' \in [Processes -> Busy \cup {Idle}] /\ ArgumentsKnown'
  BY <1>1, <1>2, AnswerType, ProcType
<1>4. UNCHANGED <<dbVars, providerVars, clockVars, active, lock>>
  BY DEF SubmitUnreachable
<1> QED BY <1>3, <1>4 DEF TypeInv, TypeOK, dbVars, providerVars, clockVars

(* A reconciliation's provider call, answered or not, keeps the type       *)
(* invariant.                                                              *)
LEMMA PollType ==
  ASSUME TypeInv, NEW q \in Processes, Poll(q) \/ PollUnreachable(q)
  PROVE  TypeInv'
PROOF
<1>1. proc[q] \in Busy /\ proc[q].op = "reconcile"
  BY BusyType DEF Poll, PollUnreachable, MayPoll, TypeInv
<1>2. PICK k \in Keys, answer \in TransferStatus \cup {"error"} :
        proc' = [proc EXCEPT ![q] =
                   [proc[q] EXCEPT !.stage = "called", !.key = k,
                      !.att = attempt[k], !.answer = answer]]
  <2>1. CASE PollUnreachable(q)
    <3>1. PICK k \in Keys :
            proc' = [proc EXCEPT ![q].stage = "called", ![q].key = k,
                           ![q].att = attempt[k], ![q].answer = "error"]
      BY <2>1, Zenon DEF PollUnreachable
    <3>2. "error" \in TransferStatus \cup {"error"}
      OBVIOUS
    <3> QED BY <3>1, <3>2, Zenon
  <2>2. CASE Poll(q)
    <3>1. PICK k \in Keys :
            LET status == transfer[Polled(proc[q], k)]
                answer == IF status = None THEN "error" ELSE status
            IN  proc' = [proc EXCEPT ![q].stage = "called", ![q].key = k,
                           ![q].att = attempt[k], ![q].answer = answer]
      BY <2>2, Zenon DEF Poll
    <3>2. Polled(proc[q], k) \in Keys
      BY <1>1 DEF Polled, Busy, PayoutRow
    <3> DEFINE status == transfer[Polled(proc[q], k)]
               answer == IF status = None THEN "error" ELSE status
    <3>3. answer \in TransferStatus \cup {"error"}
      BY <3>2 DEF TypeInv, TypeOK
    <3> QED BY <3>1, <3>3, Zenon
  <2> QED BY <2>1, <2>2
<1>4. proc' \in [Processes -> Busy \cup {Idle}] /\ ArgumentsKnown'
  <2>1. /\ Polling(q, k, answer) \in Busy
        /\ Polling(q, k, answer).key = k
        /\ Polling(q, k, answer).op = proc[q].op
    BY <1>1, CallType
  <2>2. proc' = [proc EXCEPT ![q] = Polling(q, k, answer)]
    BY <1>2, Zenon DEF Polling
  <2> QED BY <1>1, <2>1, <2>2, ProcType
<1>5. UNCHANGED <<dbVars, providerVars, clockVars, active, lock>>
  BY DEF Poll, PollUnreachable
<1> QED BY <1>4, <1>5 DEF TypeInv, TypeOK, dbVars, providerVars, clockVars

(* Changing the state of one payout row leaves payout rows.                *)
LEMMA RowType ==
  ASSUME TypeInv, NEW p \in Payouts, NEW s \in PayoutState
  PROVE  [payout[p] EXCEPT !.state = s] \in PayoutRow
PROOF
<1>1. payout[p] \in PayoutRow
  BY DEF TypeInv, TypeOK
<1> QED BY <1>1 DEF PayoutRow

(* Treasury approvals and rejections keep the type invariant.              *)
LEMMA DecisionType ==
  ASSUME TypeInv, NEW q \in Processes,
         RecordApproval(q) \/ Authorize(q) \/ Reject(q)
  PROVE  TypeInv'
PROOF
<1> DEFINE p == proc[q].payout
<1>1. p \in Payouts /\ proc[q].user \in Users
  <2>1. proc[q].op \in {"approve", "reject"}
    BY DEF RecordApproval, Authorize, Reject, MayApprove, MayDecide
  <2> QED BY <2>1, BusyType DEF TypeInv, ArgumentsKnown, Busy
<1>2. /\ proc' \in [Processes -> Busy \cup {Idle}]
      /\ lock' \in [Payouts -> Processes \cup {None}]
      /\ ArgumentsKnown'
  BY FinishType DEF RecordApproval, Authorize, Reject
<1>3. CASE RecordApproval(q)
  <2>1. approved' \in [Payouts -> SUBSET Users]
    BY <1>1, <1>3 DEF RecordApproval, TypeInv, TypeOK
  <2> QED BY <1>2, <1>3, <2>1
          DEF RecordApproval, TypeInv, TypeOK, providerVars, clockVars
<1>4. CASE Authorize(q)
  <2>1. approved' \in [Payouts -> SUBSET Users]
    BY <1>1, <1>4 DEF Authorize, TypeInv, TypeOK
  <2>2. payout' \in [Payouts -> PayoutRow]
    <3>1. [payout[p] EXCEPT !.state = "authorized"] \in PayoutRow
      BY <1>1, RowType, Zenon DEF PayoutState
    <3>2. payout' = [payout EXCEPT ![p] = [payout[p] EXCEPT !.state = "authorized"]]
      BY <1>4, Zenon DEF Authorize
    <3> QED BY <3>1, <3>2 DEF TypeInv, TypeOK
  <2>3. /\ ledger' \in [Payouts -> SUBSET EntryType]
        /\ balance' \in [available : Int, reserved : Int, settled : Int]
    BY <1>1, <1>4, PostType DEF Authorize, EntryType
  <2>4. spentToday' \in Nat
    <3>1. Amount[p] \in Nat
      BY <1>1, PolicyAssumption
    <3>2. spentToday' \in {spentToday, spentToday + Amount[p]}
      BY <1>4 DEF Authorize
    <3> QED BY <3>1, <3>2 DEF TypeInv, TypeOK
  <2>5. UNCHANGED <<attempt, rejected, evidence, transfer, owner, day, active>>
    BY <1>4 DEF Authorize, providerVars
  <2> QED BY <1>2, <2>1, <2>2, <2>3, <2>4, <2>5 DEF TypeInv, TypeOK
<1>5. CASE Reject(q)
  <2>1. rejected' \in [Payouts -> SUBSET Users]
    BY <1>1, <1>5 DEF Reject, TypeInv, TypeOK
  <2>2. payout' \in [Payouts -> PayoutRow]
    <3>1. [payout[p] EXCEPT !.state = "cancelled"] \in PayoutRow
      BY <1>1, RowType, Zenon DEF PayoutState
    <3>2. payout' = [payout EXCEPT ![p] = [payout[p] EXCEPT !.state = "cancelled"]]
      BY <1>5, Zenon DEF Reject
    <3> QED BY <3>1, <3>2 DEF TypeInv, TypeOK
  <2>3. Post(p, "release") \/ UNCHANGED <<ledger, balance>>
    BY <1>5 DEF Reject
  <2>4. /\ ledger' \in [Payouts -> SUBSET EntryType]
        /\ balance' \in [available : Int, reserved : Int, settled : Int]
    BY <1>1, <2>3, PostType DEF EntryType, TypeInv, TypeOK
  <2>5. UNCHANGED <<attempt, approved, evidence, providerVars, clockVars, active>>
    BY <1>5 DEF Reject
  <2> QED BY <1>2, <2>1, <2>2, <2>4, <2>5 DEF TypeInv, TypeOK, providerVars, clockVars
<1> QED BY <1>3, <1>4, <1>5

(* Requests and due reconciliations load without breaking the type         *)
(* invariant.                                                              *)
LEMMA LoadingType ==
  ASSUME TypeInv, NEW q \in Processes,
         \/ Request(q)
         \/ \E p \in Payouts : LoadDue(q, p)
  PROVE  TypeInv'
PROOF
<1>1. CASE Request(q)
  <2>1. /\ proc' \in [Processes -> Busy \cup {Idle}]
        /\ ArgumentsKnown'
    <3>1. ASSUME NEW p \in Payouts, NEW u \in Users,
                 NEW op \in {"approve", "reject"}, LoadDecision(q, op, p, u)
          PROVE  proc' \in [Processes -> Busy \cup {Idle}] /\ ArgumentsKnown'
      <4>1. Load(q, op, p, u, None)
        BY <3>1 DEF LoadDecision
      <4> QED BY <4>1, LoadType
    <3>2. ASSUME NEW p \in Payouts, NEW k \in Keys, LoadSubmission(q, p, k)
          PROVE  proc' \in [Processes -> Busy \cup {Idle}] /\ ArgumentsKnown'
      <4>1. Load(q, "submit", p, None, k)
        BY <3>2 DEF LoadSubmission
      <4> QED BY <4>1, LoadType
    <3>3. ASSUME NEW p \in Payouts, LoadReconciliation(q, p)
          PROVE  proc' \in [Processes -> Busy \cup {Idle}] /\ ArgumentsKnown'
      <4>1. Load(q, "reconcile", p, None, None)
        BY <3>3 DEF LoadReconciliation
      <4> QED BY <4>1, LoadType
    <3> QED BY <1>1, <3>1, <3>2, <3>3 DEF Request
  <2>2. UNCHANGED <<dbVars, providerVars, clockVars, active, lock>>
    BY <1>1 DEF Request, LoadDecision, LoadSubmission, LoadReconciliation
  <2> QED BY <2>1, <2>2 DEF TypeInv, TypeOK, dbVars, providerVars, clockVars
<1>2. ASSUME NEW p \in Payouts, LoadDue(q, p)
      PROVE  TypeInv'
  <2>1. Load(q, "reconcile", p, None, None)
    BY <1>2 DEF LoadDue
  <2>2. /\ proc' \in [Processes -> Busy \cup {Idle}]
        /\ ArgumentsKnown'
    BY <2>1, LoadType
  <2>3. lock' \in [Payouts -> Processes \cup {None}]
    BY <1>2 DEF LoadDue, TypeInv, TypeOK
  <2>4. UNCHANGED <<dbVars, providerVars, clockVars, active>>
    BY <1>2 DEF LoadDue
  <2> QED BY <2>2, <2>3, <2>4 DEF TypeInv, TypeOK, dbVars, providerVars, clockVars
<1> QED BY <1>1, <1>2

(* Every step keeps the type invariant: one case per action.               *)
LEMMA TypeStep == TypeInv /\ [Next]_vars => TypeInv'
PROOF
<1> SUFFICES ASSUME TypeInv, [Next]_vars PROVE TypeInv'
  OBVIOUS
<1>1. ASSUME NEW q \in Servers, Request(q) PROVE TypeInv'
  BY <1>1, LoadingType DEF Processes
<1>2. ASSUME NEW q \in Workers, NEW p \in Payouts, LoadDue(q, p) PROVE TypeInv'
  BY <1>2, LoadingType DEF Processes
<1>3. ASSUME NEW q \in Processes, Handle(q) PROVE TypeInv'
  <2>1. CASE RollBack(q)
    <3>1. /\ Finish(q)
          /\ UNCHANGED <<dbVars, providerVars, clockVars, active>>
      BY <2>1 DEF RollBack
    <3> QED BY <3>1, FinishType DEF TypeInv, TypeOK, dbVars, providerVars, clockVars
  <2> QED BY <1>3, <2>1, DecisionType, StartAttemptType, ReuseAttemptType,
             SubmitTransferType, SubmitUnreachableType, PollType, SaveType
          DEF Handle
<1>4. ASSUME NEW paused \in BOOLEAN, SetTreasuryPause(paused) PROVE TypeInv'
  BY <1>4 DEF SetTreasuryPause, TypeInv, TypeOK, ArgumentsKnown,
              dbVars, providerVars, clockVars
<1>5. ASSUME NEW k \in Keys, Progress(k) PROVE TypeInv'
  BY <1>5 DEF Progress, TypeInv, TypeOK, ArgumentsKnown, dbVars, clockVars
<1>6. CASE Midnight
  BY <1>6 DEF Midnight, TypeInv, TypeOK, ArgumentsKnown, dbVars, providerVars
<1>7. CASE UNCHANGED vars
  BY <1>7 DEF vars, TypeInv, TypeOK, ArgumentsKnown, dbVars, providerVars, clockVars
<1> QED BY <1>1, <1>2, <1>3, <1>4, <1>5, <1>6, <1>7 DEF Next

(* Every reachable state is well typed, and no handler works without the   *)
(* key or the user it needs.                                               *)
THEOREM TypeCorrect == Spec => []TypeOK
PROOF
<1>1. TypeInv => TypeOK
  BY DEF TypeInv
<1> QED BY <1>1, TypeInit, TypeStep, PTL DEF Spec

-----------------------------------------------------------------------------
(* Money and approvals: which steps touch the ledger *)

Posting == \/ UNCHANGED <<ledger, balance>>
           \/ \E p \in Payouts, e \in {"release", "settlement"} : Post(p, e)

(* An answer posts at most one release or settlement.                      *)
LEMMA SavePosting ==
  ASSUME TypeInv, NEW q \in Processes, Save(q)
  PROVE  Posting
PROOF
<1> DEFINE r == proc[q]
<1>1. r \in Busy /\ r # Idle
  BY BusyType DEF Save, TypeInv
<1>2. r.payout \in Payouts /\ r.key \in Keys
  BY <1>1 DEF Busy, Save, TypeInv, ArgumentsKnown
<1>3. Result(r).entry \in {"release", "settlement", None}
  BY <1>1, <1>2, ResultType DEF ResultShape
<1>4. PostResult(r.payout, Result(r).entry)
  BY DEF Save
<1> QED BY <1>2, <1>3, <1>4 DEF PostResult, Posting

(* Only an authorization reserves money, and only approvals add approvers. *)
LEMMA MoneyStep ==
  ASSUME TypeInv, [Next]_vars,
         ~ \E q \in Processes : Authorize(q)
  PROVE  /\ Posting
         /\ UNCHANGED spentToday \/ spentToday' = 0
         /\ UNCHANGED approved \/ \E q \in Processes : RecordApproval(q)
PROOF
<1> DEFINE Goal == /\ Posting
                   /\ UNCHANGED spentToday \/ spentToday' = 0
                   /\ UNCHANGED approved \/ \E q \in Processes : RecordApproval(q)
<1>1. ASSUME NEW q \in Servers, Request(q) PROVE Goal
  BY <1>1 DEF Request, LoadDecision, LoadSubmission, LoadReconciliation,
              Posting, dbVars, clockVars
<1>2. ASSUME NEW q \in Workers, NEW p \in Payouts, LoadDue(q, p) PROVE Goal
  BY <1>2 DEF LoadDue, Posting, dbVars, clockVars
<1>3. ASSUME NEW q \in Processes, Handle(q) PROVE Goal
  <2>1. CASE RecordApproval(q)
    BY <2>1 DEF RecordApproval, Posting, clockVars
  <2>2. CASE Reject(q)
    <3>1. proc[q].payout \in Payouts
      BY <2>2, BusyType DEF Reject, MayDecide, TypeInv, Busy
    <3>2. Post(proc[q].payout, "release") \/ UNCHANGED <<ledger, balance>>
      BY <2>2 DEF Reject
    <3>3. UNCHANGED <<spentToday, approved>>
      BY <2>2 DEF Reject, clockVars
    <3> QED BY <3>1, <3>2, <3>3 DEF Posting
  <2>3. CASE Save(q)
    <3>1. UNCHANGED <<spentToday, approved>>
      BY <2>3 DEF Save, clockVars
    <3> QED BY <2>3, <3>1, SavePosting
  <2>4. CASE StartAttempt(q) \/ ReuseAttempt(q)
    BY <2>4 DEF StartAttempt, ReuseAttempt, Posting, dbVars, clockVars
  <2>5. CASE SubmitTransfer(q) \/ SubmitUnreachable(q)
    BY <2>5 DEF SubmitTransfer, SubmitUnreachable, Posting, dbVars, clockVars
  <2>6. CASE Poll(q) \/ PollUnreachable(q)
    BY <2>6 DEF Poll, PollUnreachable, Posting, dbVars, clockVars
  <2>7. CASE RollBack(q)
    BY <2>7 DEF RollBack, Posting, dbVars, clockVars
  <2> QED BY <1>3, <2>1, <2>2, <2>3, <2>4, <2>5, <2>6, <2>7 DEF Handle
<1>4. ASSUME NEW paused \in BOOLEAN, SetTreasuryPause(paused) PROVE Goal
  BY <1>4 DEF SetTreasuryPause, Posting, dbVars, clockVars
<1>5. ASSUME NEW k \in Keys, Progress(k) PROVE Goal
  BY <1>5 DEF Progress, Posting, dbVars, clockVars
<1>6. CASE Midnight
  BY <1>6 DEF Midnight, Posting, dbVars
<1>7. CASE UNCHANGED vars
  BY <1>7 DEF vars, Posting, dbVars, clockVars
<1> QED BY <1>1, <1>2, <1>3, <1>4, <1>5, <1>6, <1>7 DEF Next

(* A release or settlement never lowers the available balance.             *)
LEMMA PostAvailable ==
  ASSUME TypeInv, NEW p \in Payouts, NEW e \in EntryType, Post(p, e)
  PROVE  /\ e # "reservation" => balance'.available >= balance.available
         /\ e = "reservation" /\ e \notin ledger[p] =>
              balance'.available = balance.available - Amount[p]
         /\ e \in ledger[p] => UNCHANGED balance
PROOF
<1>1. Amount[p] \in Nat
  BY PolicyAssumption
<1>2. balance.available \in Int
  BY DEF TypeInv, TypeOK
<1> DEFINE d == Delta(e, Amount[p])
<1>3. /\ e # "reservation" => d.available \in {0, Amount[p]}
      /\ e = "reservation" => d.available = 0 - Amount[p]
  BY <1>1, DeltaType
<1> HIDE DEF d
<1>4. IF e \in ledger[p]
      THEN balance' = balance
      ELSE balance' = [available |-> balance.available + d.available,
                       reserved  |-> balance.reserved + d.reserved,
                       settled   |-> balance.settled + d.settled]
  BY DEF Post, d
<1> QED BY <1>1, <1>2, <1>3, <1>4

SolvencyInv == TypeInv /\ AvailableNeverNegative

(* Every step keeps the available balance and the day's sum in bounds.     *)
LEMMA SolvencyStep == SolvencyInv /\ [Next]_vars => SolvencyInv'
PROOF
<1> SUFFICES ASSUME SolvencyInv, [Next]_vars PROVE AvailableNeverNegative'
  BY TypeStep DEF SolvencyInv
<1>1. TypeInv /\ balance.available >= 0 /\ spentToday <= DailyLimit
  BY DEF SolvencyInv, AvailableNeverNegative
<1>2. ASSUME NEW q \in Processes, Authorize(q) PROVE AvailableNeverNegative'
  <2> DEFINE p == proc[q].payout
  <2>1. p \in Payouts
    BY <1>1, <1>2, BusyType DEF Authorize, MayApprove, MayDecide, TypeInv, Busy
  <2>2. /\ balance.available >= Amount[p]
        /\ spentToday + Amount[p] <= DailyLimit
        /\ Post(p, "reservation")
        /\ spentToday' \in {spentToday, spentToday + Amount[p]}
    BY <1>2 DEF Authorize, Affordable, WithinDailyLimit
  <2>3. balance'.available \in {balance.available, balance.available - Amount[p]}
    <3>1. "reservation" \in EntryType
      BY DEF EntryType
    <3> QED BY <1>1, <2>1, <2>2, <3>1, PostAvailable
  <2>4. Amount[p] \in Nat /\ balance.available \in Int
    BY <1>1, <2>1, PolicyAssumption DEF TypeInv, TypeOK
  <2> QED BY <1>1, <2>2, <2>3, <2>4 DEF AvailableNeverNegative
<1>3. CASE ~ \E q \in Processes : Authorize(q)
  <2>1. Posting /\ (UNCHANGED spentToday \/ spentToday' = 0)
    BY <1>1, <1>3, MoneyStep
  <2>2. spentToday' <= DailyLimit
    BY <1>1, <2>1, PolicyAssumption
  <2>3. ASSUME NEW p \in Payouts, NEW e \in {"release", "settlement"}, Post(p, e)
        PROVE  balance'.available >= balance.available
    BY <1>1, <2>3, PostAvailable DEF EntryType
  <2>4. balance.available \in Int /\ balance'.available \in Int
    BY <1>1, TypeStep DEF TypeInv, TypeOK
  <2>5. balance'.available >= balance.available
    BY <2>1, <2>3, <2>4 DEF Posting
  <2> QED BY <1>1, <2>2, <2>4, <2>5 DEF AvailableNeverNegative
<1> QED BY <1>2, <1>3

(* No interleaving of approvals, submissions, reconciliations, faults and  *)
(* midnights overdraws the treasury or its daily limit, for any number of  *)
(* payouts, users and processes and any amounts.                           *)
THEOREM Solvency == Spec => []AvailableNeverNegative
PROOF
<1>1. Init => SolvencyInv
  BY TypeInit, PolicyAssumption DEF Init, SolvencyInv, AvailableNeverNegative
<1>2. SolvencyInv => AvailableNeverNegative
  BY DEF SolvencyInv
<1> QED BY <1>1, <1>2, SolvencyStep, PTL DEF Spec

-----------------------------------------------------------------------------
(* Quorum: approvals are never withdrawn, so a quorum reached once stays   *)
(* reached; that claimants never approve is needed to make the invariant   *)
(* inductive.                                                              *)

NoSelfApproval == \A p \in Payouts : Claimant[p] \notin approved[p]

QuorumInv == TypeInv /\ NoSelfApproval /\ ReservedByQuorum

(* An approval only adds an approver, who is not the claimant.             *)
LEMMA ApprovalStep ==
  ASSUME TypeInv, NoSelfApproval, NEW q \in Processes,
         RecordApproval(q) \/ Authorize(q)
  PROVE  /\ \A p \in Payouts : approved[p] \subseteq approved'[p]
         /\ NoSelfApproval'
PROOF
<1>1. /\ approved' = [approved EXCEPT ![proc[q].payout] = @ \cup {proc[q].user}]
      /\ proc[q].user # Claimant[proc[q].payout]
  BY DEF RecordApproval, Authorize, MayApprove, MayDecide, MayVote
<1> QED BY <1>1 DEF NoSelfApproval, TypeInv, TypeOK

(* A quorum is never lost while approvals are only added.                  *)
LEMMA QuorumStays ==
  ASSUME TypeInv, TypeInv', NEW p \in Payouts,
         approved[p] \subseteq approved'[p],
         Cardinality(approved[p]) >= Required(p)
  PROVE  Cardinality(approved'[p]) >= Required(p)
PROOF
<1>1. IsFiniteSet(approved'[p])
  BY FiniteAssumption, FS_Subset DEF TypeInv, TypeOK
<1>2. Cardinality(approved[p]) <= Cardinality(approved'[p])
  BY <1>1, FS_Subset
<1>3. Cardinality(approved[p]) \in Nat /\ Cardinality(approved'[p]) \in Nat
  BY <1>1, FS_Subset, FS_CardinalityType
<1>4. Required(p) \in Int
  BY PolicyAssumption DEF Required
<1> QED BY <1>2, <1>3, <1>4

(* Every step keeps the reservations backed by a quorum.                   *)
LEMMA QuorumStep == QuorumInv /\ [Next]_vars => QuorumInv'
PROOF
<1> SUFFICES ASSUME QuorumInv, [Next]_vars
             PROVE  NoSelfApproval' /\ ReservedByQuorum'
  BY TypeStep DEF QuorumInv
<1>1. TypeInv /\ TypeInv' /\ NoSelfApproval /\ ReservedByQuorum
  BY TypeStep DEF QuorumInv
<1>2. /\ \A p \in Payouts : approved[p] \subseteq approved'[p]
      /\ NoSelfApproval'
  <2>1. CASE \E q \in Processes : Authorize(q)
    BY <1>1, <2>1, ApprovalStep
  <2>2. CASE ~ \E q \in Processes : Authorize(q)
    <3>1. UNCHANGED approved \/ \E q \in Processes : RecordApproval(q)
      BY <1>1, <2>2, MoneyStep
    <3>2. CASE UNCHANGED approved
      BY <1>1, <3>2 DEF NoSelfApproval
    <3> QED BY <1>1, <3>1, <3>2, ApprovalStep
  <2> QED BY <2>1, <2>2
<1>3. ASSUME NEW p \in Payouts, "reservation" \in ledger'[p]
      PROVE  Cardinality(approved'[p]) >= Required(p) /\ Amount[p] <= PayoutLimit
  <2>1. CASE "reservation" \in ledger[p]
    BY <1>1, <1>2, <2>1, QuorumStays DEF ReservedByQuorum
  <2>2. CASE "reservation" \notin ledger[p]
    <3>1. PICK q \in Processes : Authorize(q)
      <4> SUFFICES ASSUME ~ \E q \in Processes : Authorize(q) PROVE FALSE
        OBVIOUS
      <4>1. Posting
        BY <1>1, MoneyStep
      <4> QED BY <1>1, <1>3, <2>2, <4>1 DEF Posting, Post, TypeInv, TypeOK
    <3>2. p = proc[q].payout
      BY <1>1, <1>3, <2>2, <3>1 DEF Authorize, Post, TypeInv, TypeOK
    <3> QED BY <3>1, <3>2 DEF Authorize, MayApprove
  <2> QED BY <2>1, <2>2
<1>4. ReservedByQuorum'
  BY <1>2, <1>3 DEF ReservedByQuorum, NoSelfApproval, Required
<1> QED BY <1>2, <1>4

(* Money is set aside only with the approvals the policy asks for, for any *)
(* quorum sizes and any interleaving of stale approvals and rejections.    *)
THEOREM Quorum == Spec => []ReservedByQuorum
PROOF
<1>1. Init => QuorumInv
  BY TypeInit DEF Init, QuorumInv, NoSelfApproval, ReservedByQuorum
<1>2. QuorumInv => ReservedByQuorum
  BY DEF QuorumInv
<1> QED BY <1>1, <1>2, QuorumStep, PTL DEF Spec

-----------------------------------------------------------------------------
(* Nothing happens to the money of a payout that was never reserved.  A    *)
(* payout that may be submitted, a copy of its row, an attempt, a transfer *)
(* and a process that has one of them all stand for a reservation.         *)

Reserved(p) == "reservation" \in ledger[p]

RowsReserved == \A p \in Payouts : payout[p].state \in Submittable => Reserved(p)

AttemptsReserved ==
  \A k \in Keys, p \in Payouts : attempt[k].payout = p => Reserved(p)

ProcessReserved(q) ==
  proc[q] # Idle =>
    /\ proc[q].row.state \in Submittable => Reserved(proc[q].payout)
    /\ proc[q].stage # "loaded" => /\ Reserved(proc[q].payout)
                                   /\ proc[q].att.payout = proc[q].payout

ReservationInv ==
  /\ TypeInv
  /\ RowsReserved
  /\ AttemptsReserved
  /\ \A q \in Processes : ProcessReserved(q)
  /\ TransferredOnReservation

(* Ledger entries are never removed.                                       *)
LEMMA LedgerGrows ==
  ASSUME TypeInv, [Next]_vars
  PROVE  \A p \in Payouts : ledger[p] \subseteq ledger'[p]
PROOF
<1>1. ASSUME NEW q \in Processes, Authorize(q)
      PROVE  \A p \in Payouts : ledger[p] \subseteq ledger'[p]
  BY <1>1 DEF Authorize, Post, TypeInv, TypeOK
<1>2. CASE ~ \E q \in Processes : Authorize(q)
  <2>1. Posting
    BY <1>2, MoneyStep
  <2> QED BY <2>1 DEF Posting, Post, TypeInv, TypeOK
<1> QED BY <1>1, <1>2

(* The other processes keep what they stand for.                           *)
LEMMA OthersReserved ==
  ASSUME ReservationInv, [Next]_vars,
         NEW q \in Processes, proc'[q] = proc[q] \/ proc'[q] = Idle
  PROVE  ProcessReserved(q)'
PROOF
<1>1. TypeInv /\ ProcessReserved(q)
  BY DEF ReservationInv
<1>2. CASE proc'[q] = Idle
  BY <1>2 DEF ProcessReserved
<1>3. CASE proc'[q] = proc[q] /\ proc[q] # Idle
  <2>1. proc[q].payout \in Payouts
    BY <1>1, <1>3 DEF TypeInv, TypeOK, Busy
  <2> QED BY <1>1, <1>3, <2>1, LedgerGrows DEF ProcessReserved, Reserved
<1> QED BY <1>2, <1>3

(* A step that touches no row, attempt or transfer, and opens no ledger,   *)
(* keeps the part of the invariant about them.                             *)
LEMMA QuietReserved ==
  ASSUME ReservationInv, [Next]_vars,
         UNCHANGED <<payout, attempt, owner>>,
         \A p \in Payouts : ledger'[p] # {} => ledger[p] # {}
  PROVE  RowsReserved' /\ AttemptsReserved' /\ TransferredOnReservation'
PROOF
<1>1. TypeInv /\ \A p \in Payouts : ledger[p] \subseteq ledger'[p]
  BY LedgerGrows DEF ReservationInv
<1>2. RowsReserved'
  BY <1>1 DEF ReservationInv, RowsReserved, Reserved
<1>3. AttemptsReserved'
  BY <1>1 DEF ReservationInv, AttemptsReserved, Reserved
<1>4. TransferredOnReservation'
  BY <1>1 DEF ReservationInv, TransferredOnReservation
<1> QED BY <1>2, <1>3, <1>4

(* A process that has only loaded its payout keeps the invariant.          *)
LEMMA LoadingReserved ==
  ASSUME ReservationInv, [Next]_vars, NEW q \in Processes,
         \/ Request(q)
         \/ \E p \in Payouts : LoadDue(q, p)
  PROVE  ReservationInv'
PROOF
<1>1. TypeInv /\ TypeInv'
  BY TypeStep DEF ReservationInv
<1>2. UNCHANGED <<payout, attempt, owner, ledger>>
  BY DEF Request, LoadDecision, LoadSubmission, LoadReconciliation, LoadDue,
         dbVars, providerVars
<1>3. PICK p \in Payouts, op \in {"approve", "reject", "submit", "reconcile"},
           u \in Users \cup {None}, k \in Keys \cup {None} : Load(q, op, p, u, k)
  BY Zenon DEF Request, LoadDecision, LoadSubmission, LoadReconciliation, LoadDue
<1>4. ASSUME NEW o \in Processes PROVE ProcessReserved(o)'
  <2>1. CASE o # q
    <3>1. proc'[o] = proc[o]
      BY <1>1, <1>3, <2>1 DEF Load, TypeInv, TypeOK
    <3> QED BY <3>1, OthersReserved
  <2>2. CASE o = q
    <3>1. /\ proc'[q].stage = "loaded"
          /\ proc'[q].row = payout[p]
          /\ proc'[q].payout = p
      BY <1>1, <1>3 DEF Load, TypeInv, TypeOK
    <3>2. payout[p].state \in Submittable => Reserved(p)'
      BY <1>2 DEF ReservationInv, RowsReserved, Reserved
    <3> QED BY <2>2, <3>1, <3>2 DEF ProcessReserved, Reserved
  <2> QED BY <2>1, <2>2
<1> QED BY <1>1, <1>2, <1>4, QuietReserved DEF ReservationInv

(* A process that ends holds no copy any more.                             *)
LEMMA FinishReserved ==
  ASSUME ReservationInv, [Next]_vars, NEW q \in Processes, Finish(q)
  PROVE  \A o \in Processes : ProcessReserved(o)'
PROOF
<1>1. TypeInv
  BY DEF ReservationInv
<1>2. ASSUME NEW o \in Processes PROVE proc'[o] = proc[o] \/ proc'[o] = Idle
  BY <1>1 DEF Finish, TypeInv, TypeOK
<1> QED BY <1>2, OthersReserved

(* Treasury decisions keep the invariant: Authorize reserves before it     *)
(* authorizes, Reject only cancels.                                        *)
LEMMA DecisionReserved ==
  ASSUME ReservationInv, [Next]_vars, NEW q \in Processes,
         RecordApproval(q) \/ Authorize(q) \/ Reject(q)
  PROVE  ReservationInv'
PROOF
<1> DEFINE p == proc[q].payout
<1>1. TypeInv /\ TypeInv'
  BY TypeStep DEF ReservationInv
<1>2. p \in Payouts
  BY <1>1, BusyType
     DEF RecordApproval, Authorize, Reject, MayApprove, MayDecide, TypeInv, Busy
<1>3. \A o \in Processes : ProcessReserved(o)'
  BY FinishReserved DEF RecordApproval, Authorize, Reject
<1>4. \A x \in Payouts : ledger[x] \subseteq ledger'[x]
  BY <1>1, LedgerGrows
<1>5. UNCHANGED <<attempt, owner>>
  BY DEF RecordApproval, Authorize, Reject, providerVars
<1>6. AttemptsReserved'
  BY <1>4, <1>5 DEF ReservationInv, AttemptsReserved, Reserved
<1>7. \/ ledger' = ledger
      \/ ledger' = [ledger EXCEPT ![p] = @ \cup {"reservation"}]
      \/ Reserved(p) /\ ledger' = [ledger EXCEPT ![p] = @ \cup {"release"}]
  BY DEF RecordApproval, Authorize, Reject, Post, Reserved
<1>8. TransferredOnReservation'
  BY <1>1, <1>2, <1>5, <1>7
     DEF ReservationInv, TransferredOnReservation, Reserved, TypeInv, TypeOK
<1>9. RowsReserved'
  <2>1. CASE RecordApproval(q)
    BY <2>1, <1>4 DEF RecordApproval, ReservationInv, RowsReserved, Reserved
  <2>2. CASE Authorize(q)
    <3>1. "reservation" \in ledger'[p]
      BY <1>1, <1>2, <2>2 DEF Authorize, Post, TypeInv, TypeOK
    <3>2. \A x \in Payouts \ {p} : payout'[x] = payout[x]
      BY <1>1, <1>2, <2>2 DEF Authorize, TypeInv, TypeOK
    <3> QED BY <1>4, <3>1, <3>2 DEF ReservationInv, RowsReserved, Reserved
  <2>3. CASE Reject(q)
    <3>1. payout[p] \in PayoutRow
      BY <1>1, <1>2 DEF TypeInv, TypeOK
    <3>2. payout' = [payout EXCEPT ![p] = [payout[p] EXCEPT !.state = "cancelled"]]
      BY <2>3, Zenon DEF Reject
    <3>3. [payout[p] EXCEPT !.state = "cancelled"].state = "cancelled"
      BY <3>1 DEF PayoutRow
    <3>4. /\ payout'[p].state \notin Submittable
          /\ \A x \in Payouts \ {p} : payout'[x] = payout[x]
      BY <1>1, <1>2, <3>2, <3>3 DEF TypeInv, TypeOK, Submittable
    <3> QED BY <1>4, <3>4 DEF ReservationInv, RowsReserved, Reserved
  <2> QED BY <2>1, <2>2, <2>3
<1> QED BY <1>1, <1>3, <1>6, <1>8, <1>9 DEF ReservationInv

(* An attempt starts only from a state that implies a reservation.         *)
LEMMA StartReserved ==
  ASSUME ReservationInv, [Next]_vars, NEW q \in Processes,
         StartAttempt(q) \/ ReuseAttempt(q)
  PROVE  ReservationInv'
PROOF
<1> DEFINE r == proc[q]
<1>1. TypeInv /\ TypeInv'
  BY TypeStep DEF ReservationInv
<1>2. r \in Busy /\ r # Idle /\ r.payout \in Payouts /\ r.key \in Keys
  BY <1>1, BusyType
     DEF StartAttempt, ReuseAttempt, Submits, TypeInv, ArgumentsKnown, Busy
<1>3. UNCHANGED <<payout, attempt, owner, ledger>>
  BY DEF StartAttempt, ReuseAttempt, dbVars, providerVars
<1>4. Reserved(r.payout)
  BY <1>2 DEF StartAttempt, ReuseAttempt, ReservationInv, ProcessReserved,
              AttemptsReserved
<1>5. proc'[q].payout = r.payout /\ proc'[q].att.payout = r.payout
  <2>1. CASE StartAttempt(q)
    BY <1>1, <1>2, <2>1 DEF StartAttempt, TypeInv, TypeOK, Busy
  <2>2. CASE ReuseAttempt(q)
    BY <1>1, <1>2, <2>2 DEF ReuseAttempt, TypeInv, TypeOK, Busy
  <2> QED BY <2>1, <2>2
<1>6. ASSUME NEW o \in Processes PROVE ProcessReserved(o)'
  <2>1. CASE o # q
    <3>1. proc'[o] = proc[o]
      BY <1>1, <2>1 DEF StartAttempt, ReuseAttempt, TypeInv, TypeOK
    <3> QED BY <3>1, OthersReserved
  <2>2. CASE o = q
    BY <1>3, <1>4, <1>5, <2>2 DEF ProcessReserved, Reserved
  <2> QED BY <2>1, <2>2
<1> QED BY <1>1, <1>3, <1>6, QuietReserved DEF ReservationInv

(* A poll answers for the latest attempt of the payout.                    *)
LEMMA PollsLatest ==
  ASSUME NEW q \in Processes, Poll(q) \/ PollUnreachable(q)
  PROVE  \E k \in Keys : \E answer :
           /\ Latest(proc[q].payout, k)
           /\ proc' = [proc EXCEPT ![q] = Polling(q, k, answer)]
PROOF
<1>1. CASE Poll(q)
  <2>1. PICK k \in Keys :
          /\ Latest(proc[q].payout, k)
          /\ LET status == transfer[Polled(proc[q], k)]
                 answer == IF status = None THEN "error" ELSE status
             IN  proc' = [proc EXCEPT ![q] = Polling(q, k, answer)]
    BY <1>1, Zenon DEF Poll, Polling
  <2> QED BY <2>1, Zenon
<1>2. CASE PollUnreachable(q)
  <2>1. PICK k \in Keys :
          /\ Latest(proc[q].payout, k)
          /\ proc' = [proc EXCEPT ![q] = Polling(q, k, "error")]
    BY <1>2, Zenon DEF PollUnreachable, Polling
  <2> QED BY <2>1, Zenon
<1> QED BY <1>1, <1>2

(* The provider is called for an attempt, hence for a reserved payout.     *)
LEMMA CallReserved ==
  ASSUME ReservationInv, [Next]_vars, NEW q \in Processes,
         \/ SubmitTransfer(q) \/ SubmitUnreachable(q)
         \/ Poll(q) \/ PollUnreachable(q)
  PROVE  ReservationInv'
PROOF
<1> DEFINE r == proc[q]
<1>1. TypeInv /\ TypeInv'
  BY TypeStep DEF ReservationInv
<1>2. r \in Busy /\ r # Idle /\ r.payout \in Payouts
  BY <1>1, BusyType
     DEF SubmitTransfer, SubmitUnreachable, Poll, PollUnreachable, MayPoll, TypeInv, Busy
<1>3. UNCHANGED <<payout, attempt, ledger>>
  BY DEF SubmitTransfer, SubmitUnreachable, Poll, PollUnreachable, dbVars
<1>4. /\ Reserved(r.payout)
      /\ proc'[q].payout = r.payout
      /\ proc'[q].att.payout = r.payout
      /\ proc'[q].row = r.row
      /\ \A o \in Processes \ {q} : proc'[o] = proc[o]
  <2>1. CASE SubmitTransfer(q) \/ SubmitUnreachable(q)
    <3>1. Reserved(r.payout) /\ r.att.payout = r.payout
      BY <1>2, <2>1
         DEF SubmitTransfer, SubmitUnreachable, ReservationInv, ProcessReserved
    <3>2. PICK answer :
            proc' = [proc EXCEPT ![q] = [r EXCEPT !.stage = "called", !.answer = answer]]
      BY <2>1, Zenon DEF SubmitTransfer, SubmitUnreachable
    <3> QED BY <1>1, <1>2, <3>1, <3>2 DEF TypeInv, TypeOK, Busy
  <2>2. CASE Poll(q) \/ PollUnreachable(q)
    <3>1. \E k \in Keys : \E answer :
            /\ Latest(r.payout, k)
            /\ proc' = [proc EXCEPT ![q] = Polling(q, k, answer)]
      BY <2>2, PollsLatest
    <3>2. PICK k \in Keys : \E answer :
            /\ Latest(r.payout, k)
            /\ proc' = [proc EXCEPT ![q] = Polling(q, k, answer)]
      BY <3>1, Zenon
    <3>3. PICK answer : proc' = [proc EXCEPT ![q] = Polling(q, k, answer)]
      BY <3>2, Zenon
    <3>4. attempt[k].payout = r.payout
      BY <3>2 DEF Latest
    <3>5. Reserved(r.payout)
      BY <1>2, <3>4 DEF ReservationInv, AttemptsReserved
    <3>6. /\ Polling(q, k, answer).payout = r.payout
          /\ Polling(q, k, answer).att = attempt[k]
          /\ Polling(q, k, answer).row = r.row
      BY <1>2 DEF Polling, Busy
    <3> QED BY <1>1, <3>3, <3>4, <3>5, <3>6 DEF TypeInv, TypeOK
  <2> QED BY <2>1, <2>2
<1>5. ASSUME NEW o \in Processes PROVE ProcessReserved(o)'
  <2>1. CASE o # q
    BY <1>4, <2>1, OthersReserved
  <2>2. CASE o = q
    BY <1>3, <1>4, <2>2 DEF ProcessReserved, Reserved
  <2> QED BY <2>1, <2>2
<1>6. RowsReserved' /\ AttemptsReserved'
  BY <1>3 DEF ReservationInv, RowsReserved, AttemptsReserved, Reserved
<1>7. TransferredOnReservation'
  <2>1. owner' = owner \/ owner' = [owner EXCEPT ![r.key] = r.payout]
    BY DEF SubmitTransfer, SubmitUnreachable, Poll, PollUnreachable, providerVars
  <2> QED BY <1>1, <1>3, <1>4, <2>1
          DEF ReservationInv, TransferredOnReservation, Reserved, TypeInv, TypeOK
<1> QED BY <1>1, <1>5, <1>6, <1>7 DEF ReservationInv

(* The commit of an answer writes only rows of a reserved payout.          *)
LEMMA SaveReserved ==
  ASSUME ReservationInv, [Next]_vars, NEW q \in Processes, Save(q)
  PROVE  ReservationInv'
PROOF
<1> DEFINE r == proc[q]
<1>1. TypeInv /\ TypeInv'
  BY TypeStep DEF ReservationInv
<1>2. r \in Busy /\ r # Idle /\ r.payout \in Payouts /\ r.key \in Keys
  BY <1>1, BusyType DEF Save, TypeInv, ArgumentsKnown, Busy
<1>3. Reserved(r.payout) /\ r.att.payout = r.payout
  BY <1>2 DEF Save, ReservationInv, ProcessReserved
<1>4. \A o \in Processes : ProcessReserved(o)'
  BY FinishReserved DEF Save
<1>5. \A x \in Payouts : ledger[x] \subseteq ledger'[x]
  BY <1>1, LedgerGrows
<1>6. RowsReserved'
  <2>1. \A x \in Payouts \ {r.payout} : payout'[x] = payout[x]
    BY <1>1, <1>2 DEF Save, TypeInv, TypeOK
  <2> QED BY <1>2, <1>3, <1>5, <2>1 DEF ReservationInv, RowsReserved, Reserved
<1>7. AttemptsReserved'
  <2>1. attempt' = [attempt EXCEPT ![r.key] =
                      IF r.fresh THEN Result(r).att
                      ELSE MergeAttempt(attempt[r.key], r.att, Result(r).att)]
    BY DEF Save
  <2>2. Result(r).att.payout = r.payout
    BY <1>2, <1>3, ResultType DEF ResultShape
  <2>3. MergeAttempt(attempt[r.key], r.att, Result(r).att).payout = attempt[r.key].payout
    BY DEF MergeAttempt
  <2>4. /\ attempt'[r.key].payout \in {r.payout, attempt[r.key].payout}
        /\ \A k \in Keys \ {r.key} : attempt'[k] = attempt[k]
    BY <1>1, <1>2, <2>1, <2>2, <2>3 DEF TypeInv, TypeOK
  <2> QED BY <1>2, <1>3, <1>5, <2>4 DEF ReservationInv, AttemptsReserved, Reserved
<1>8. TransferredOnReservation'
  <2>1. UNCHANGED owner
    BY DEF Save, providerVars
  <2>2. \A x \in Payouts \ {r.payout} : ledger'[x] = ledger[x]
    BY <1>1, <1>2 DEF Save, PostResult, Post, TypeInv, TypeOK
  <2> QED BY <1>2, <1>3, <1>5, <2>1, <2>2
          DEF ReservationInv, TransferredOnReservation, Reserved
<1> QED BY <1>1, <1>4, <1>6, <1>7, <1>8 DEF ReservationInv

(* Every step keeps the reservation invariant: one case per action.        *)
LEMMA ReservationStep == ReservationInv /\ [Next]_vars => ReservationInv'
PROOF
<1> SUFFICES ASSUME ReservationInv, [Next]_vars PROVE ReservationInv'
  OBVIOUS
<1>1. TypeInv /\ TypeInv'
  BY TypeStep DEF ReservationInv
<1>2. ASSUME UNCHANGED <<payout, attempt, owner, ledger, proc>> PROVE ReservationInv'
  BY <1>1, <1>2, QuietReserved, OthersReserved DEF ReservationInv
<1>3. ASSUME NEW q \in Servers, Request(q) PROVE ReservationInv'
  BY <1>3, LoadingReserved DEF Processes
<1>4. ASSUME NEW q \in Workers, NEW p \in Payouts, LoadDue(q, p) PROVE ReservationInv'
  BY <1>4, LoadingReserved DEF Processes
<1>5. ASSUME NEW q \in Processes, Handle(q) PROVE ReservationInv'
  <2>1. CASE RollBack(q)
    <3>1. Finish(q) /\ UNCHANGED <<payout, attempt, owner, ledger>>
      BY <2>1 DEF RollBack, dbVars, providerVars
    <3> QED BY <1>1, <3>1, FinishReserved, QuietReserved DEF ReservationInv
  <2> QED BY <1>5, <2>1, DecisionReserved, StartReserved, CallReserved, SaveReserved
          DEF Handle
<1>6. ASSUME NEW paused \in BOOLEAN, SetTreasuryPause(paused) PROVE ReservationInv'
  BY <1>2, <1>6 DEF SetTreasuryPause, dbVars, providerVars
<1>7. ASSUME NEW k \in Keys, Progress(k) PROVE ReservationInv'
  BY <1>2, <1>7 DEF Progress, dbVars
<1>8. CASE Midnight
  BY <1>2, <1>8 DEF Midnight, dbVars, providerVars
<1>9. CASE UNCHANGED vars
  BY <1>2, <1>9 DEF vars, dbVars, providerVars
<1> QED BY <1>3, <1>4, <1>5, <1>6, <1>7, <1>8, <1>9 DEF Next

(* The provider is asked for a transfer, and the ledger releases or        *)
(* settles an amount, only after the quorum had it reserved, whatever      *)
(* snapshot of the payout the process that does it works on.               *)
THEOREM TransferNeedsReservation == Spec => []TransferredOnReservation
PROOF
<1>1. Init => ReservationInv
  BY TypeInit, NoneAssumption
     DEF Init, ReservationInv, RowsReserved, AttemptsReserved, ProcessReserved,
         TransferredOnReservation, Submittable, NoAttempt
<1>2. ReservationInv => TransferredOnReservation
  BY DEF ReservationInv
<1> QED BY <1>1, <1>2, ReservationStep, PTL DEF Spec

-----------------------------------------------------------------------------
(* A paid claim has a confirmed transfer of its own.  Every reference a    *)
(* row or a process holds is one of the payout's keys; when clients do not *)
(* use a key for two payouts, the transfer behind it is the payout's.      *)

DisjointKeys ==
  \A p, x \in Payouts : p # x => KeysFor[p] \cap KeysFor[x] = {}

TransfersOwned ==
  \A k \in Keys : transfer[k] # None =>
    owner[k] \in Payouts /\ k \in KeysFor[owner[k]]

RowsOwned ==
  /\ \A p \in Payouts : payout[p].ref \in KeysFor[p] \cup {None}
  /\ \A k \in Keys, p \in Payouts : attempt[k].payout = p => k \in KeysFor[p]

ProcessOwned(q) ==
  LET r == proc[q] IN
  r # Idle =>
    /\ r.row.ref \in KeysFor[r.payout] \cup {None}
    /\ r.op = "submit" \/ r.stage # "loaded" => r.key \in KeysFor[r.payout]
    /\ r.answer = "confirmed" => /\ Reference(r) \in KeysFor[r.payout]
                                 /\ transfer[Reference(r)] = "confirmed"
    /\ r.row.claim = "paid" => payout[r.payout].claim = "paid"

TransferInv ==
  /\ ReservationInv
  /\ TransfersOwned
  /\ RowsOwned
  /\ \A q \in Processes : ProcessOwned(q)
  /\ PaidWasTransferred

(* What no step undoes: a confirmed transfer, its owner, a paid claim.     *)
Lasting ==
  /\ \A k \in Keys : transfer[k] # None => owner'[k] = owner[k]
  /\ \A k \in Keys : transfer[k] = "confirmed" => transfer'[k] = "confirmed"
  /\ \A p \in Payouts : payout[p].claim = "paid" => payout'[p].claim = "paid"

(* What is true of a process stays true in a step that leaves the process  *)
(* alone and keeps confirmed transfers confirmed.                          *)
LEMMA OthersOwned ==
  ASSUME TransferInv, Lasting,
         NEW q \in Processes, proc'[q] = proc[q] \/ proc'[q] = Idle
  PROVE  ProcessOwned(q)'
PROOF
<1>1. TypeInv /\ ProcessOwned(q)
  BY DEF TransferInv, ReservationInv
<1>2. CASE proc'[q] = Idle
  BY <1>2 DEF ProcessOwned
<1>3. CASE proc'[q] = proc[q] /\ proc[q] # Idle
  <2> DEFINE r == proc[q]
  <2>1. r \in Busy /\ r.payout \in Payouts
    BY <1>1, <1>3 DEF TypeInv, TypeOK, Busy
  <2>2. KeysFor[r.payout] \subseteq Keys
    BY <2>1, PolicyAssumption
  <2>3. Reference(r)' = Reference(r)
    BY <1>3 DEF Reference, Polled
  <2> QED BY <1>1, <1>3, <2>1, <2>2, <2>3 DEF ProcessOwned, Lasting
<1> QED BY <1>2, <1>3

(* A step that leaves the rows and the provider alone keeps the rest.      *)
LEMMA QuietOwned ==
  ASSUME TransferInv, TypeInv', [Next]_vars,
         UNCHANGED <<attempt, transfer, owner>>,
         \A p \in Payouts : /\ payout'[p].ref = payout[p].ref
                            /\ payout'[p].claim = payout[p].claim,
         \A p \in Payouts : "settlement" \in ledger'[p] <=> "settlement" \in ledger[p]
  PROVE  TransfersOwned' /\ RowsOwned' /\ PaidWasTransferred' /\ Lasting
BY DEF TransferInv, TransfersOwned, RowsOwned, PaidWasTransferred, Lasting

(* A process that has only loaded a row knows what the row knows.          *)
LEMMA LoadingOwned ==
  ASSUME TransferInv, [Next]_vars, NEW q \in Processes,
         \/ Request(q)
         \/ \E p \in Payouts : LoadDue(q, p)
  PROVE  TransferInv'
PROOF
<1>1. TypeInv /\ ReservationInv' /\ TypeInv'
  BY ReservationStep DEF TransferInv, ReservationInv
<1>2. UNCHANGED <<payout, attempt, owner, transfer, ledger>>
  BY DEF Request, LoadDecision, LoadSubmission, LoadReconciliation, LoadDue,
         dbVars, providerVars
<1>3. PICK p \in Payouts, op \in {"approve", "reject", "submit", "reconcile"},
           u \in Users \cup {None}, k \in Keys \cup {None} :
        Load(q, op, p, u, k) /\ (op = "submit" => k \in KeysFor[p])
  <2>1. CASE \E p \in Payouts, k \in Keys : LoadSubmission(q, p, k)
    BY <2>1, Zenon DEF LoadSubmission
  <2>2. CASE \/ \E p \in Payouts, u \in Users, op \in {"approve", "reject"} :
                 LoadDecision(q, op, p, u)
             \/ \E p \in Payouts : LoadReconciliation(q, p) \/ LoadDue(q, p)
    BY <2>2 DEF LoadDecision, LoadReconciliation, LoadDue
  <2> QED BY <2>1, <2>2 DEF Request
<1>4. TransfersOwned' /\ RowsOwned' /\ PaidWasTransferred' /\ Lasting
  BY <1>1, <1>2, QuietOwned
<1>5. ASSUME NEW o \in Processes PROVE ProcessOwned(o)'
  <2>1. CASE o # q
    <3>1. proc'[o] = proc[o]
      BY <1>1, <1>3, <2>1 DEF Load, TypeInv, TypeOK
    <3> QED BY <1>4, <3>1, OthersOwned
  <2>2. CASE o = q
    <3>1. /\ proc'[q].stage = "loaded" /\ proc'[q].op = op
          /\ proc'[q].row = payout[p] /\ proc'[q].payout = p
          /\ proc'[q].key = k /\ proc'[q].answer = None
      BY <1>1, <1>3 DEF Load, TypeInv, TypeOK
    <3>2. None # "confirmed"
      BY NoneAssumption
    <3> QED BY <1>2, <1>3, <2>2, <3>1, <3>2 DEF ProcessOwned, TransferInv, RowsOwned
  <2> QED BY <2>1, <2>2
<1> QED BY <1>1, <1>4, <1>5 DEF TransferInv

(* A process that ends claims nothing about a transfer.                    *)
LEMMA FinishOwned ==
  ASSUME TransferInv, Lasting, NEW q \in Processes, Finish(q)
  PROVE  \A o \in Processes : ProcessOwned(o)'
PROOF
<1>1. TypeInv
  BY DEF TransferInv, ReservationInv
<1>2. ASSUME NEW o \in Processes PROVE proc'[o] = proc[o] \/ proc'[o] = Idle
  BY <1>1 DEF Finish, TypeInv, TypeOK
<1> QED BY <1>2, OthersOwned

(* Treasury decisions touch no reference, no claim and no settlement.      *)
LEMMA DecisionOwned ==
  ASSUME TransferInv, [Next]_vars, NEW q \in Processes,
         RecordApproval(q) \/ Authorize(q) \/ Reject(q)
  PROVE  TransferInv'
PROOF
<1> DEFINE p == proc[q].payout
<1>1. TypeInv /\ ReservationInv' /\ TypeInv'
  BY ReservationStep DEF TransferInv, ReservationInv
<1>2. p \in Payouts
  BY <1>1, BusyType
     DEF RecordApproval, Authorize, Reject, MayApprove, MayDecide, TypeInv, Busy
<1>3. payout[p] \in PayoutRow
  BY <1>1, <1>2 DEF TypeInv, TypeOK
<1>4. PICK s : payout' = payout \/ payout' = [payout EXCEPT ![p].state = s]
  BY Zenon DEF RecordApproval, Authorize, Reject
<1>5. \A x \in Payouts : /\ payout'[x].ref = payout[x].ref
                         /\ payout'[x].claim = payout[x].claim
  <2> DEFINE row == [payout[p] EXCEPT !.state = s]
  <2>1. payout' = payout \/ payout' = [payout EXCEPT ![p] = row]
    BY <1>4, Zenon
  <2>2. row.ref = payout[p].ref /\ row.claim = payout[p].claim
    BY <1>3 DEF PayoutRow
  <2> HIDE DEF row
  <2> QED BY <1>1, <1>2, <2>1, <2>2 DEF TypeInv, TypeOK
<1>6. \A x \in Payouts : "settlement" \in ledger'[x] <=> "settlement" \in ledger[x]
  BY <1>1, <1>2 DEF RecordApproval, Authorize, Reject, Post, TypeInv, TypeOK
<1>7. UNCHANGED <<attempt, transfer, owner>>
  BY DEF RecordApproval, Authorize, Reject, providerVars
<1>8. TransfersOwned' /\ RowsOwned' /\ PaidWasTransferred' /\ Lasting
  BY <1>1, <1>5, <1>6, <1>7, QuietOwned
<1>9. \A o \in Processes : ProcessOwned(o)'
  BY <1>8, FinishOwned DEF RecordApproval, Authorize, Reject
<1> QED BY <1>1, <1>8, <1>9 DEF TransferInv

(* Starting or reusing an attempt claims nothing new about a transfer.     *)
LEMMA StartOwned ==
  ASSUME TransferInv, [Next]_vars, NEW q \in Processes,
         StartAttempt(q) \/ ReuseAttempt(q)
  PROVE  TransferInv'
PROOF
<1> DEFINE r == proc[q]
<1>1. TypeInv /\ ReservationInv' /\ TypeInv'
  BY ReservationStep DEF TransferInv, ReservationInv
<1>2. r \in Busy /\ r # Idle /\ r.op = "submit" /\ r.payout \in Payouts
  BY <1>1, BusyType DEF StartAttempt, ReuseAttempt, Submits, TypeInv, Busy
<1>3. UNCHANGED <<payout, attempt, transfer, owner, ledger>>
  BY DEF StartAttempt, ReuseAttempt, dbVars, providerVars
<1>4. TransfersOwned' /\ RowsOwned' /\ PaidWasTransferred' /\ Lasting
  BY <1>1, <1>3, QuietOwned
<1>5. /\ proc'[q].op = r.op /\ proc'[q].payout = r.payout
      /\ proc'[q].key = r.key /\ proc'[q].answer = r.answer
      /\ proc'[q].row.ref = r.row.ref /\ proc'[q].row.claim = r.row.claim
  <2>1. r.row \in PayoutRow
    BY <1>2 DEF Busy
  <2>2. CASE StartAttempt(q)
    BY <1>1, <1>2, <2>1, <2>2 DEF StartAttempt, TypeInv, TypeOK, Busy, PayoutRow
  <2>3. CASE ReuseAttempt(q)
    BY <1>1, <1>2, <2>1, <2>3 DEF ReuseAttempt, TypeInv, TypeOK, Busy, PayoutRow
  <2> QED BY <2>2, <2>3
<1>6. ASSUME NEW o \in Processes PROVE ProcessOwned(o)'
  <2>1. CASE o # q
    <3>1. proc'[o] = proc[o]
      BY <1>1, <2>1 DEF StartAttempt, ReuseAttempt, TypeInv, TypeOK
    <3> QED BY <1>4, <3>1, OthersOwned
  <2>2. CASE o = q
    <3>1. Reference(proc'[q]) = Reference(r) /\ Reference(r) = r.key
      BY <1>2, <1>5 DEF Reference
    <3> QED BY <1>2, <1>3, <1>5, <2>2, <3>1 DEF ProcessOwned, TransferInv
  <2> QED BY <2>1, <2>2
<1> QED BY <1>1, <1>4, <1>6 DEF TransferInv

(* An answer of confirmed is the provider's, for a transfer of this        *)
(* payout.                                                                 *)
LEMMA CallOwned ==
  ASSUME TransferInv, [Next]_vars, NEW q \in Processes,
         \/ SubmitTransfer(q) \/ SubmitUnreachable(q)
         \/ Poll(q) \/ PollUnreachable(q)
  PROVE  TransferInv'
PROOF
<1> DEFINE r == proc[q]
<1>1. TypeInv /\ ReservationInv' /\ TypeInv'
  BY ReservationStep DEF TransferInv, ReservationInv
<1>2. /\ r \in Busy /\ r # Idle /\ r.payout \in Payouts
      /\ KeysFor[r.payout] \subseteq Keys
  BY <1>1, BusyType, PolicyAssumption
     DEF SubmitTransfer, SubmitUnreachable, Poll, PollUnreachable, MayPoll, TypeInv, Busy
<1>3. UNCHANGED <<payout, attempt, ledger>>
  BY DEF SubmitTransfer, SubmitUnreachable, Poll, PollUnreachable, dbVars
<1>4. /\ proc'[q].payout = r.payout /\ proc'[q].row = r.row
      /\ proc'[q].key \in KeysFor[r.payout]
      /\ proc'[q].answer = "confirmed" =>
           /\ Reference(proc'[q]) \in KeysFor[r.payout]
           /\ transfer'[Reference(proc'[q])] = "confirmed"
      /\ \A o \in Processes \ {q} : proc'[o] = proc[o]
  <2>1. CASE SubmitTransfer(q) \/ SubmitUnreachable(q)
    <3>1. r.op = "submit" /\ r.key \in KeysFor[r.payout]
      BY <1>2, <2>1 DEF SubmitTransfer, SubmitUnreachable, TransferInv, ProcessOwned
    <3>2. PICK answer :
            /\ proc' = [proc EXCEPT ![q] = [r EXCEPT !.stage = "called", !.answer = answer]]
            /\ answer \in {transfer'[r.key], "error"}
      <4>1. CASE SubmitTransfer(q)
        <5>1. PICK answer \in {transfer'[r.key]} \cup
                              (IF "timeout" \in Faults THEN {"error"} ELSE {}) :
                proc' = [proc EXCEPT ![q].stage = "called", ![q].answer = answer]
          BY <4>1, Zenon DEF SubmitTransfer
        <5>2. answer \in {transfer'[r.key], "error"}
          OBVIOUS
        <5> QED BY <5>1, <5>2, Zenon
      <4>2. CASE SubmitUnreachable(q)
        BY <4>2, Zenon DEF SubmitUnreachable
      <4> QED BY <2>1, <4>1, <4>2
    <3> DEFINE called == [r EXCEPT !.stage = "called", !.answer = answer]
    <3>3. /\ called.op = "submit" /\ called.payout = r.payout /\ called.row = r.row
          /\ called.key = r.key /\ called.answer = answer
      BY <1>2, <3>1 DEF Busy
    <3>4. proc' = [proc EXCEPT ![q] = called]
      BY <3>2
    <3> HIDE DEF called
    <3>5. proc'[q] = called /\ \A o \in Processes \ {q} : proc'[o] = proc[o]
      BY <1>1, <3>4 DEF TypeInv, TypeOK
    <3>6. Reference(called) = r.key
      BY <3>3 DEF Reference
    <3> QED BY <3>1, <3>2, <3>3, <3>5, <3>6
  <2>2. CASE Poll(q) \/ PollUnreachable(q)
    <3>1. UNCHANGED transfer /\ r.op = "reconcile"
      BY <2>2 DEF Poll, PollUnreachable, MayPoll, providerVars
    <3>2. \E k \in Keys : \E answer :
            /\ Latest(r.payout, k)
            /\ proc' = [proc EXCEPT ![q] = Polling(q, k, answer)]
            /\ answer \in {transfer[Polled(r, k)], "error"}
      <4>1. CASE Poll(q)
        <5>1. PICK k \in Keys :
                /\ Latest(r.payout, k)
                /\ LET status == transfer[Polled(r, k)]
                       answer == IF status = None THEN "error" ELSE status
                   IN  proc' = [proc EXCEPT ![q] = Polling(q, k, answer)]
          BY <4>1, Zenon DEF Poll, Polling
        <5> DEFINE status == transfer[Polled(r, k)]
                   answer == IF status = None THEN "error" ELSE status
        <5>2. answer \in {status, "error"}
          OBVIOUS
        <5> QED BY <5>1, <5>2, Zenon
      <4>2. CASE PollUnreachable(q)
        <5>1. PICK k \in Keys :
                /\ Latest(r.payout, k)
                /\ proc' = [proc EXCEPT ![q] = Polling(q, k, "error")]
          BY <4>2, Zenon DEF PollUnreachable, Polling
        <5>2. "error" \in {transfer[Polled(r, k)], "error"}
          OBVIOUS
        <5> QED BY <5>1, <5>2, Zenon
      <4> QED BY <2>2, <4>1, <4>2
    <3>3. PICK k \in Keys : \E answer :
            /\ Latest(r.payout, k)
            /\ proc' = [proc EXCEPT ![q] = Polling(q, k, answer)]
            /\ answer \in {transfer[Polled(r, k)], "error"}
      BY <3>2, Zenon
    <3>4. PICK answer :
            /\ proc' = [proc EXCEPT ![q] = Polling(q, k, answer)]
            /\ answer \in {transfer[Polled(r, k)], "error"}
      BY <3>3, Zenon
    <3>5. /\ Polling(q, k, answer).payout = r.payout
          /\ Polling(q, k, answer).row = r.row
          /\ Polling(q, k, answer).op = "reconcile"
          /\ Polling(q, k, answer).key = k
          /\ Polling(q, k, answer).answer = answer
      BY <1>2, <3>1 DEF Polling, Busy
    <3>6. k \in KeysFor[r.payout]
      BY <1>2, <3>3 DEF Latest, TransferInv, RowsOwned
    <3>7. Polled(r, k) \in KeysFor[r.payout]
      BY <1>2, <3>6 DEF Polled, TransferInv, ProcessOwned
    <3>8. Reference(Polling(q, k, answer)) = Polled(r, k)
      BY <3>5 DEF Reference, Polled
    <3>9. /\ proc'[q] = Polling(q, k, answer)
          /\ \A o \in Processes \ {q} : proc'[o] = proc[o]
      BY <1>1, <3>4 DEF TypeInv, TypeOK
    <3> QED BY <3>1, <3>4, <3>5, <3>6, <3>7, <3>8, <3>9
  <2> QED BY <2>1, <2>2
<1>5. /\ TransfersOwned'
      /\ \A k \in Keys : transfer[k] # None =>
           owner'[k] = owner[k] /\ transfer'[k] = transfer[k]
  <2>1. \/ UNCHANGED <<transfer, owner>>
        \/ /\ transfer[r.key] = None /\ r.key \in KeysFor[r.payout]
           /\ owner' = [owner EXCEPT ![r.key] = r.payout]
           /\ \E s \in TransferStatus : transfer' = [transfer EXCEPT ![r.key] = s]
    BY <1>2 DEF SubmitTransfer, SubmitUnreachable, Poll, PollUnreachable,
                providerVars, TransferInv, ProcessOwned
  <2> QED BY <1>1, <1>2, <2>1 DEF TransferInv, TransfersOwned, TypeInv, TypeOK
<1>6. Lasting
  BY <1>3, <1>5, NoneAssumption DEF Lasting
<1>7. RowsOwned' /\ PaidWasTransferred'
  <2>1. \A k \in Keys : transfer[k] = "confirmed" =>
          owner'[k] = owner[k] /\ transfer'[k] = "confirmed"
    BY <1>5, NoneAssumption
  <2> QED BY <1>3, <2>1 DEF TransferInv, RowsOwned, PaidWasTransferred
<1>8. ASSUME NEW o \in Processes PROVE ProcessOwned(o)'
  <2>1. CASE o # q
    BY <1>4, <1>6, <2>1, OthersOwned
  <2>2. CASE o = q
    BY <1>2, <1>3, <1>4, <2>2 DEF ProcessOwned, TransferInv
  <2> QED BY <2>1, <2>2
<1> QED BY <1>1, <1>5, <1>7, <1>8 DEF TransferInv

(* The commit that pays a claim also settles it, on a confirmed transfer.  *)
LEMMA SaveOwned ==
  ASSUME DisjointKeys, TransferInv, [Next]_vars, NEW q \in Processes, Save(q)
  PROVE  TransferInv'
PROOF
<1> DEFINE r == proc[q]
           p == r.payout
<1>1. TypeInv /\ ReservationInv' /\ TypeInv'
  BY ReservationStep DEF TransferInv, ReservationInv
<1>2. r \in Busy /\ r # Idle /\ p \in Payouts /\ r.key \in Keys
  BY <1>1, BusyType DEF Save, TypeInv, ArgumentsKnown, Busy
<1>3. /\ r.key \in KeysFor[p] /\ r.row.ref \in KeysFor[p] \cup {None}
      /\ r.row.claim = "paid" => payout[p].claim = "paid"
      /\ r.answer = "confirmed" => /\ Reference(r) \in KeysFor[p]
                                   /\ transfer[Reference(r)] = "confirmed"
      /\ r.att.payout = p
  BY <1>2 DEF Save, TransferInv, ProcessOwned, ReservationInv, ProcessReserved
<1>4. ResultShape(r, Result(r))
  BY <1>2, ResultType
<1>5. Reference(r) \in KeysFor[p]
  BY <1>3 DEF Reference, Polled
<1>6. /\ payout'[p] = Written(r)
      /\ \A x \in Payouts \ {p} : payout'[x] = payout[x]
      /\ UNCHANGED <<transfer, owner>>
  BY <1>1, <1>2 DEF Save, TypeInv, TypeOK, providerVars
<1>7. /\ Written(r).ref \in {payout[p].ref, r.row.ref, Reference(r)}
      /\ Written(r).claim = IF r.answer = "confirmed" THEN "paid" ELSE payout[p].claim
  <2>1. payout[p] \in PayoutRow
    BY <1>1, <1>2 DEF TypeInv, TypeOK
  <2>2. Stored(r).ref = payout[p].ref /\ Stored(r).claim = payout[p].claim
    BY <2>1 DEF Stored, PayoutRow
  <2>3. /\ Written(r).ref = Column(Stored(r).ref, r.row.ref, Result(r).row.ref)
        /\ Written(r).claim = Column(Stored(r).claim, r.row.claim, Result(r).row.claim)
    BY DEF Written, MergePayout
  <2> QED BY <1>3, <1>4, <2>2, <2>3 DEF Column, ResultShape
<1>8. RowsOwned'
  <2>1. payout'[p].ref \in KeysFor[p] \cup {None}
    BY <1>2, <1>3, <1>5, <1>6, <1>7 DEF TransferInv, RowsOwned
  <2>2. attempt' = [attempt EXCEPT ![r.key] =
                      IF r.fresh THEN Result(r).att
                      ELSE MergeAttempt(attempt[r.key], r.att, Result(r).att)]
    BY DEF Save
  <2>3. /\ Result(r).att.payout = p
        /\ MergeAttempt(attempt[r.key], r.att, Result(r).att).payout = attempt[r.key].payout
    BY <1>3, <1>4 DEF ResultShape, MergeAttempt
  <2>4. /\ attempt'[r.key].payout \in {p, attempt[r.key].payout}
        /\ \A k \in Keys \ {r.key} : attempt'[k] = attempt[k]
    BY <1>1, <1>2, <2>2, <2>3 DEF TypeInv, TypeOK
  <2> QED BY <1>2, <1>3, <1>6, <2>1, <2>4 DEF TransferInv, RowsOwned
<1>9. Lasting
  BY <1>2, <1>6, <1>7 DEF Lasting
<1>10. PaidWasTransferred'
  <2>1. \A x \in Payouts \ {p} : ledger'[x] = ledger[x]
    BY <1>1, <1>2 DEF Save, PostResult, Post, TypeInv, TypeOK
  <2>2. CASE r.answer = "confirmed"
    <3>1. "settlement" \in ledger'[p]
      BY <1>1, <1>2, <1>4, <2>2, NoneAssumption
         DEF Save, PostResult, Post, ResultShape, TypeInv, TypeOK
    <3>2. owner[Reference(r)] = p
      BY <1>2, <1>3, <2>2, PolicyAssumption, NoneAssumption
         DEF DisjointKeys, TransferInv, TransfersOwned
    <3>3. Reference(r) \in Keys
      BY <1>2, <1>5, PolicyAssumption
    <3> QED BY <1>2, <1>3, <1>6, <1>7, <2>1, <2>2, <3>1, <3>2, <3>3
            DEF TransferInv, PaidWasTransferred
  <2>3. CASE r.answer # "confirmed"
    <3>1. Result(r).entry \in {"release", None}
      BY <1>4, <2>3 DEF ResultShape
    <3>2. "settlement" \in ledger'[p] <=> "settlement" \in ledger[p]
      BY <1>1, <1>2, <3>1 DEF Save, PostResult, Post, TypeInv, TypeOK
    <3> QED BY <1>2, <1>6, <1>7, <2>1, <2>3, <3>2 DEF TransferInv, PaidWasTransferred
  <2> QED BY <2>2, <2>3
<1>11. TransfersOwned'
  BY <1>6 DEF TransferInv, TransfersOwned
<1>12. \A o \in Processes : ProcessOwned(o)'
  BY <1>9, FinishOwned DEF Save
<1> QED BY <1>1, <1>8, <1>10, <1>11, <1>12 DEF TransferInv

(* Every step keeps the transfer invariant: one case per action.           *)
LEMMA TransferStep == DisjointKeys /\ TransferInv /\ [Next]_vars => TransferInv'
PROOF
<1> SUFFICES ASSUME DisjointKeys, TransferInv, [Next]_vars PROVE TransferInv'
  OBVIOUS
<1>1. TypeInv /\ ReservationInv' /\ TypeInv'
  BY ReservationStep DEF TransferInv, ReservationInv
<1>2. ASSUME UNCHANGED <<payout, attempt, transfer, owner, ledger, proc>>
      PROVE  TransferInv'
  BY <1>1, <1>2, QuietOwned, OthersOwned DEF TransferInv
<1>3. ASSUME NEW q \in Servers, Request(q) PROVE TransferInv'
  BY <1>3, LoadingOwned DEF Processes
<1>4. ASSUME NEW q \in Workers, NEW p \in Payouts, LoadDue(q, p) PROVE TransferInv'
  BY <1>4, LoadingOwned DEF Processes
<1>5. ASSUME NEW q \in Processes, Handle(q) PROVE TransferInv'
  <2>1. CASE RollBack(q)
    <3>1. Finish(q) /\ UNCHANGED <<payout, attempt, transfer, owner, ledger>>
      BY <2>1 DEF RollBack, dbVars, providerVars
    <3> QED BY <1>1, <3>1, FinishOwned, QuietOwned DEF TransferInv
  <2> QED BY <1>5, <2>1, DecisionOwned, StartOwned, CallOwned, SaveOwned DEF Handle
<1>6. ASSUME NEW paused \in BOOLEAN, SetTreasuryPause(paused) PROVE TransferInv'
  BY <1>2, <1>6 DEF SetTreasuryPause, dbVars, providerVars
<1>7. ASSUME NEW k \in Keys, Progress(k) PROVE TransferInv'
  <2>1. UNCHANGED <<payout, attempt, owner, ledger, proc>>
    BY <1>7 DEF Progress, dbVars
  <2>2. /\ \A x \in Keys : transfer[x] = None <=> transfer'[x] = None
        /\ \A x \in Keys : transfer[x] = "confirmed" => transfer'[x] = "confirmed"
    BY <1>1, <1>7, NoneAssumption DEF Progress, TransferStatus, TypeInv, TypeOK
  <2>3. Lasting
    BY <2>1, <2>2 DEF Lasting
  <2>4. TransfersOwned' /\ RowsOwned' /\ PaidWasTransferred'
    BY <2>1, <2>2 DEF TransferInv, TransfersOwned, RowsOwned, PaidWasTransferred
  <2> QED BY <1>1, <2>1, <2>3, <2>4, OthersOwned DEF TransferInv
<1>8. CASE Midnight
  BY <1>2, <1>8 DEF Midnight, dbVars, providerVars
<1>9. CASE UNCHANGED vars
  BY <1>2, <1>9 DEF vars, dbVars, providerVars
<1> QED BY <1>3, <1>4, <1>5, <1>6, <1>7, <1>8, <1>9 DEF Next

(* When clients do not use a key for two payouts, a claim is marked paid   *)
(* and settled in the ledger only if the provider holds a confirmed        *)
(* transfer for its payout: no stale copy, repeated reference, lost answer *)
(* or crash settles a payout that was not paid.                            *)
THEOREM PaymentsBacked ==
  ASSUME DisjointKeys
  PROVE  Spec => []PaidWasTransferred
PROOF
<1>1. Init => TransferInv
  <2> SUFFICES ASSUME Init PROVE TransferInv
    OBVIOUS
  <2>1. ReservationInv
    BY TypeInit, NoneAssumption
       DEF Init, ReservationInv, RowsReserved, AttemptsReserved, ProcessReserved,
           TransferredOnReservation, Submittable, NoAttempt
  <2>2. TransfersOwned /\ RowsOwned /\ PaidWasTransferred
    BY NoneAssumption
       DEF Init, TransfersOwned, RowsOwned, PaidWasTransferred, NoAttempt
  <2>3. \A q \in Processes : ProcessOwned(q)
    BY DEF Init, ProcessOwned
  <2> QED BY <2>1, <2>2, <2>3 DEF TransferInv
<1>2. TransferInv => PaidWasTransferred
  BY DEF TransferInv
<1>3. TransferInv /\ [Next]_vars => TransferInv'
  BY TransferStep
<1> QED BY <1>1, <1>2, <1>3, PTL DEF Spec

-----------------------------------------------------------------------------
(* The refinement.  Requests of one payout take turns, and a client sends  *)
(* one key for it; requests of different payouts overlap as they like.     *)
(* Then a copy is what is stored, and a payout's state tells which entries *)
(* its ledger has and what its attempt has come to.                        *)

OneKeyEach == \A p \in Payouts : \A j, k \in KeysFor[p] : j = k

TakesTurns ==
  \A q, o \in Processes :
    (proc[q] # Idle /\ proc[o] # Idle /\ proc[q].payout = proc[o].payout) => q = o

Trying == Unresolved \cup {"submitted"}

EntriesOf(s) == IF s \in {"created", "cancelled"} THEN {}
                ELSE IF s = "confirmed" THEN {"reservation", "settlement"}
                ELSE IF s = "failed" THEN {"reservation", "release"}
                ELSE {"reservation"}
AttemptsOf(s) == IF s \in Trying THEN {s}
                 ELSE IF s = "confirmed" THEN {"submitted"}
                 ELSE IF s = "failed" THEN {"failed", "submitted"}
                 ELSE {}

RowInStep(p) ==
  /\ ledger[p] = EntriesOf(payout[p].state)
  /\ \A k \in Keys : attempt[k].payout = p =>
       k \in KeysFor[p] /\ attempt[k].state \in AttemptsOf(payout[p].state)
  /\ payout[p].state = "failed" => \E k \in Keys : attempt[k].payout = p

(* A process that inserted an attempt alone knows of it.                   *)
Fresh(q) == proc[q] # Idle /\ proc[q].fresh

CopyInStep(q) ==
  LET r == proc[q] IN
  r # Idle =>
    /\ r.op = "submit" => r.key \in KeysFor[r.payout]
    /\ r.row.state = IF Fresh(q) THEN "submitting" ELSE payout[r.payout].state
    /\ Fresh(q) => /\ r.op = "submit" /\ r.stage # "loaded"
                   /\ attempt[r.key] = NoAttempt
                   /\ payout[r.payout].state = "authorized"
    /\ r.stage # "loaded" =>
         /\ r.att.payout = r.payout /\ r.att.state = r.row.state
         /\ r.row.state \in Trying
         /\ Fresh(q) \/ /\ attempt[r.key].payout = r.payout
                        /\ attempt[r.key].state = r.att.state

FreshApart ==
  \A q, o \in Processes : Fresh(q) /\ Fresh(o) /\ proc[q].key = proc[o].key => q = o

PromiseInv == /\ TypeInv
              /\ \A p \in Payouts : RowInStep(p)
              /\ \A q \in Processes : CopyInStep(q)
              /\ FreshApart

Phases == [p \in Payouts |-> Phase(p)]
PromiseKept == [Promise!Next]_<<Phases, balance.available>>

(* The fresh database is in step, and an open promise.                     *)
LEMMA PromiseStarts == Init => PromiseInv /\ Promise!Init
PROOF
<1> SUFFICES ASSUME Init PROVE PromiseInv /\ Promise!Init
  OBVIOUS
<1>1. TypeInv
  BY TypeInit
<1>2. \A p \in Payouts : RowInStep(p)
  BY NoneAssumption DEF Init, RowInStep, EntriesOf, AttemptsOf, Trying, Unresolved, NoAttempt
<1>3. FreshApart /\ \A q \in Processes : CopyInStep(q)
  BY DEF Init, CopyInStep, FreshApart, Fresh
<1>4. Promise!Init
  BY DEF Init, Promise!Init, Phase
<1> QED BY <1>1, <1>2, <1>3, <1>4 DEF PromiseInv

(* What a handler makes of an answer keeps attempt and payout in step, and *)
(* releases exactly when it fails and settles exactly when it confirms.    *)
LEMMA ResultInStep ==
  ASSUME NEW r \in Busy, r.key \in Keys,
         r.att.state = r.row.state, r.row.state \in Trying
  PROVE  LET s == Result(r) IN
         /\ s.att.state \in AttemptsOf(s.row.state)
         /\ \/ s.row.state \in Trying /\ s.entry = None
            \/ s.row.state = "failed" /\ s.entry = "release"
            \/ s.row.state = "confirmed" /\ s.entry = "settlement"
PROOF
<1> DEFINE Goal(s) == /\ s.att.state \in AttemptsOf(s.row.state)
                      /\ \/ s.row.state \in Trying /\ s.entry = None
                         \/ s.row.state = "failed" /\ s.entry = "release"
                         \/ s.row.state = "confirmed" /\ s.entry = "settlement"
<1>1. /\ r.row \in PayoutRow /\ r.att \in AttemptRow
      /\ Referred(r).row \in PayoutRow /\ Referred(r).att \in AttemptRow
  BY ReferredType DEF Busy
<1>2. Referred(r).row.state = r.row.state /\ Referred(r).att.state = r.att.state
  BY <1>1 DEF Referred, PayoutRow, AttemptRow
<1>3. Goal(OnPending(r))
  BY <1>2 DEF OnPending, AttemptsOf
<1>4. Goal(OnError(r))
  <2> DEFINE state == IF GivesUp(r) THEN "failed" ELSE "unknown"
             row == [r.row EXCEPT !.state = state]
             att == [r.att EXCEPT !.state = state, !.tries = @ + 1]
  <2>1. row.state = state /\ att.state = state
    BY <1>1 DEF PayoutRow, AttemptRow
  <2>2. CASE r.att.state \notin Unresolved
    BY <2>2 DEF OnError, AttemptsOf
  <2>3. CASE r.att.state \in Unresolved
    <3>1. /\ OnError(r).row = row /\ OnError(r).att = att
          /\ OnError(r).entry = IF GivesUp(r) THEN "release" ELSE None
      BY <2>3 DEF OnError
    <3> HIDE DEF row, att
    <3> QED BY <2>1, <3>1 DEF AttemptsOf, Trying, Unresolved
  <2> QED BY <2>2, <2>3
<1>5. Goal(OnFailed(r))
  BY <1>1, <1>2 DEF OnFailed, AttemptsOf, Trying, Unresolved, PayoutRow, AttemptRow
<1>6. /\ Goal(OnSubmitted(r)) /\ OnSubmitted(r).att.state = "submitted"
      /\ OnSubmitted(r).row \in PayoutRow
  <2>1. CASE r.att.state \notin Unresolved
    BY <1>1, <1>2, <1>3, <2>1 DEF OnSubmitted, OnPending, Trying
  <2>2. CASE r.att.state \in Unresolved
    <3>1. Hash(r) \in Keys \cup {None}
      BY HashType
    <3> QED BY <1>1, <1>2, <2>2, <3>1
            DEF OnSubmitted, AttemptsOf, Trying, PayoutRow, AttemptRow, PayoutState
  <2> QED BY <2>1, <2>2
<1>7. Goal(OnConfirmed(r))
  BY <1>6 DEF OnConfirmed, AttemptsOf, Trying, Unresolved, PayoutRow
<1> HIDE DEF Goal
<1>8. Goal(Result(r))
  BY <1>3, <1>4, <1>5, <1>6, <1>7 DEF Result
<1> QED BY <1>8 DEF Goal

-----------------------------------------------------------------------------
(* A step that changes no table leaves the promise and the rows.           *)
LEMMA QuietInStep ==
  ASSUME PromiseInv, UNCHANGED <<payout, attempt, ledger, balance>>
  PROVE  /\ PromiseKept
         /\ \A p \in Payouts : RowInStep(p)'
PROOF
<1>1. \A p \in Payouts : RowInStep(p)'
  BY DEF PromiseInv, RowInStep
<1>2. UNCHANGED <<Phases, balance.available>>
  BY DEF Phases, Phase
<1> QED BY <1>1, <1>2 DEF PromiseKept

(* A copy stays in step when nobody writes what it is a copy of.           *)
LEMMA OthersInStep ==
  ASSUME PromiseInv, NEW q \in Processes, proc'[q] = proc[q] \/ proc'[q] = Idle,
         proc[q] # Idle => payout'[proc[q].payout] = payout[proc[q].payout],
         proc[q] # Idle /\ proc[q].stage # "loaded" =>
           attempt'[proc[q].key] = attempt[proc[q].key]
  PROVE  CopyInStep(q)'
PROOF
<1>1. CASE proc'[q] = Idle
  BY <1>1 DEF CopyInStep
<1>2. CASE proc'[q] = proc[q] /\ proc[q] # Idle
  BY <1>2 DEF PromiseInv, CopyInStep, Fresh
<1> QED BY <1>1, <1>2

(* Nobody but who inserts an attempt becomes fresh.                        *)
LEMMA FreshStays ==
  ASSUME PromiseInv, NEW q \in Processes,
         \A o \in Processes \ {q} : proc'[o] = proc[o],
         Fresh(q)' => Fresh(q) /\ proc'[q].key = proc[q].key
  PROVE  FreshApart'
PROOF
<1>1. \A o \in Processes : Fresh(o)' => Fresh(o) /\ proc'[o].key = proc[o].key
  BY DEF Fresh
<1> QED BY <1>1 DEF PromiseInv, FreshApart

(* The steps of one process that change no table: only its own copy is new.*)
LEMMA CopyStep ==
  ASSUME PromiseInv, TypeInv', NEW q \in Processes,
         UNCHANGED <<payout, attempt, ledger, balance>>,
         \A o \in Processes \ {q} : proc'[o] = proc[o],
         CopyInStep(q)', FreshApart'
  PROVE  PromiseInv' /\ PromiseKept
PROOF
<1>1. ASSUME NEW o \in Processes \ {q} PROVE CopyInStep(o)'
  <2>1. proc'[o] = proc[o] /\ o \in Processes
    OBVIOUS
  <2>2. /\ payout'[proc[o].payout] = payout[proc[o].payout]
        /\ attempt'[proc[o].key] = attempt[proc[o].key]
    OBVIOUS
  <2> QED BY <2>1, <2>2, OthersInStep
<1> QED BY <1>1, QuietInStep DEF PromiseInv

(* Loading copies what is stored.                                          *)
LEMMA LoadingInStep ==
  ASSUME PromiseInv, [Next]_vars, NEW q \in Processes,
         \/ Request(q)
         \/ \E p \in Payouts : LoadDue(q, p)
  PROVE  PromiseInv' /\ PromiseKept
PROOF
<1>1. TypeInv /\ TypeInv'
  BY TypeStep DEF PromiseInv
<1>2. UNCHANGED <<payout, attempt, ledger, balance>>
  BY DEF Request, LoadDecision, LoadSubmission, LoadReconciliation, LoadDue, dbVars
<1>3. PICK p \in Payouts, op \in {"approve", "reject", "submit", "reconcile"},
           u \in Users \cup {None}, k \in Keys \cup {None} :
             Load(q, op, p, u, k) /\ (op = "submit" => k \in KeysFor[p])
  BY Zenon DEF Request, LoadDecision, LoadSubmission, LoadReconciliation, LoadDue
<1>4. /\ proc'[q].stage = "loaded" /\ proc'[q].fresh = FALSE
      /\ proc'[q].op = op /\ proc'[q].key = k
      /\ proc'[q].payout = p /\ proc'[q].row = payout[p]
      /\ \A o \in Processes \ {q} : proc'[o] = proc[o]
  BY <1>1, <1>3 DEF Load, TypeInv, TypeOK
<1>5. CopyInStep(q)' /\ ~Fresh(q)'
  BY <1>2, <1>3, <1>4 DEF CopyInStep, Fresh
<1> QED BY <1>1, <1>2, <1>4, <1>5, FreshStays, CopyStep

(* A first attempt is started from an authorized payout, because a failed  *)
(* one has had its attempt.                                                *)
LEMMA StartInStep ==
  ASSUME OneKeyEach, PromiseInv, [Next]_vars, NEW q \in Processes, StartAttempt(q)
  PROVE  PromiseInv' /\ PromiseKept
PROOF
<1> DEFINE r == proc[q]
<1>1. TypeInv /\ TypeInv'
  BY TypeStep DEF PromiseInv
<1>2. /\ r \in Busy /\ r # Idle /\ r.payout \in Payouts /\ r.key \in Keys
      /\ r.op = "submit" /\ r.stage = "loaded"
      /\ attempt[r.key] = NoAttempt /\ r.row.state \in Submittable
  BY <1>1, BusyType DEF StartAttempt, Submits, TypeInv, ArgumentsKnown, Busy
<1>3. UNCHANGED <<payout, attempt, ledger, balance>>
  BY DEF StartAttempt, dbVars
<1>4. r.key \in KeysFor[r.payout] /\ r.row.state = payout[r.payout].state
  BY <1>2 DEF PromiseInv, CopyInStep
<1>5. attempt[r.key].payout = None /\ None \notin Payouts
  BY <1>2, NoneAssumption DEF NoAttempt
<1>6. payout[r.payout].state = "authorized"
  <2> SUFFICES ASSUME payout[r.payout].state = "failed" PROVE FALSE
    BY <1>2, <1>4 DEF Submittable
  <2>1. PICK k \in Keys : attempt[k].payout = r.payout
    BY <1>2 DEF PromiseInv, RowInStep
  <2>2. k \in KeysFor[r.payout]
    BY <1>2, <2>1 DEF PromiseInv, RowInStep
  <2>3. k = r.key
    BY <1>2, <1>4, <2>2 DEF OneKeyEach
  <2> QED BY <1>2, <1>5, <2>1, <2>3
<1>7. /\ proc'[q].op = "submit" /\ proc'[q].stage = "started"
      /\ proc'[q].fresh = TRUE
      /\ proc'[q].payout = r.payout /\ proc'[q].key = r.key
      /\ proc'[q].row.state = "submitting"
      /\ proc'[q].att.payout = r.payout /\ proc'[q].att.state = "submitting"
      /\ \A o \in Processes \ {q} : proc'[o] = proc[o]
  <2>1. r.row \in PayoutRow
    BY <1>2 DEF Busy
  <2> QED BY <1>1, <1>2, <2>1 DEF StartAttempt, TypeInv, TypeOK, Busy, PayoutRow
<1>8. CopyInStep(q)'
  BY <1>2, <1>3, <1>4, <1>5, <1>6, <1>7 DEF CopyInStep, Fresh, Trying, Unresolved
<1>9. FreshApart'
  <2>1. ASSUME NEW o \in Processes \ {q}, Fresh(o)', proc'[o].key = r.key
        PROVE  FALSE
    <3>1. Fresh(o) /\ proc[o].key = r.key
      BY <1>7, <2>1 DEF Fresh
    <3>2. proc[o].op = "submit" /\ proc[o].fresh
      BY <3>1 DEF PromiseInv, CopyInStep, Fresh
    <3> QED BY <3>1, <3>2 DEF StartAttempt, InsertedElsewhere
  <2>2. \A o \in Processes \ {q} : Fresh(o)' => Fresh(o) /\ proc'[o].key = proc[o].key
    BY <1>7 DEF Fresh
  <2>3. proc'[q].key = r.key
    BY <1>7
  <2> QED BY <2>1, <2>2, <2>3 DEF PromiseInv, FreshApart
<1> QED BY <1>1, <1>3, <1>7, <1>8, <1>9, CopyStep

(* An unresolved attempt is reused only while its payout is in its state.  *)
LEMMA ReuseInStep ==
  ASSUME PromiseInv, [Next]_vars, NEW q \in Processes, ReuseAttempt(q)
  PROVE  PromiseInv' /\ PromiseKept
PROOF
<1> DEFINE r == proc[q]
<1>1. TypeInv /\ TypeInv'
  BY TypeStep DEF PromiseInv
<1>2. /\ r \in Busy /\ r # Idle /\ r.payout \in Payouts /\ r.key \in Keys
      /\ r.op = "submit" /\ r.stage = "loaded"
      /\ attempt[r.key].payout = r.payout /\ attempt[r.key].state \in Unresolved
  BY <1>1, BusyType DEF ReuseAttempt, Submits, TypeInv, ArgumentsKnown, Busy
<1>3. UNCHANGED <<payout, attempt, ledger, balance>>
  BY DEF ReuseAttempt, dbVars
<1>4. /\ ~Fresh(q) /\ r.key \in KeysFor[r.payout]
      /\ r.row.state = payout[r.payout].state
  BY <1>2 DEF PromiseInv, CopyInStep
<1>5. /\ payout[r.payout].state = attempt[r.key].state
      /\ attempt[r.key].state \in Trying
  <2>1. attempt[r.key].state \in AttemptsOf(payout[r.payout].state)
    BY <1>2 DEF PromiseInv, RowInStep
  <2> QED BY <1>2, <2>1 DEF AttemptsOf, Trying, Unresolved
<1>6. /\ proc'[q].op = r.op /\ proc'[q].stage = "started"
      /\ proc'[q].fresh = r.fresh
      /\ proc'[q].payout = r.payout /\ proc'[q].key = r.key
      /\ proc'[q].row = r.row /\ proc'[q].att = attempt[r.key]
      /\ \A o \in Processes \ {q} : proc'[o] = proc[o]
  BY <1>1, <1>2 DEF ReuseAttempt, TypeInv, TypeOK, Busy
<1>7. ~Fresh(q)'
  BY <1>2, <1>4, <1>6 DEF Fresh
<1>8. CopyInStep(q)'
  BY <1>2, <1>3, <1>4, <1>5, <1>6, <1>7 DEF CopyInStep
<1> QED BY <1>1, <1>3, <1>6, <1>7, <1>8, FreshStays, CopyStep

(* A call of the provider changes the answer alone; a reconciliation then  *)
(* has the attempt of its payout.                                          *)
LEMMA CallInStep ==
  ASSUME PromiseInv, [Next]_vars, NEW q \in Processes,
         \/ SubmitTransfer(q) \/ SubmitUnreachable(q)
         \/ Poll(q) \/ PollUnreachable(q)
  PROVE  PromiseInv' /\ PromiseKept
PROOF
<1> DEFINE r == proc[q]
<1>1. TypeInv /\ TypeInv'
  BY TypeStep DEF PromiseInv
<1>2. /\ r \in Busy /\ r # Idle /\ r.payout \in Payouts
      /\ CopyInStep(q)
  BY <1>1, BusyType
     DEF SubmitTransfer, SubmitUnreachable, Poll, PollUnreachable, MayPoll,
         TypeInv, Busy, PromiseInv
<1>3. UNCHANGED <<payout, attempt, ledger, balance>>
  BY DEF SubmitTransfer, SubmitUnreachable, Poll, PollUnreachable, dbVars
<1>4. CASE SubmitTransfer(q) \/ SubmitUnreachable(q)
  <2>1. r.op = "submit" /\ r.stage = "started"
    BY <1>4 DEF SubmitTransfer, SubmitUnreachable
  <2>2. PICK answer :
          proc' = [proc EXCEPT ![q] = [r EXCEPT !.stage = "called", !.answer = answer]]
    BY <1>4, Zenon DEF SubmitTransfer, SubmitUnreachable
  <2>3. /\ proc'[q].op = r.op /\ proc'[q].stage = "called"
        /\ proc'[q].fresh = r.fresh
        /\ proc'[q].payout = r.payout /\ proc'[q].key = r.key
        /\ proc'[q].row = r.row /\ proc'[q].att = r.att
        /\ \A o \in Processes \ {q} : proc'[o] = proc[o]
    BY <1>1, <1>2, <2>2 DEF TypeInv, TypeOK, Busy
  <2>4. Fresh(q)' => Fresh(q)
    BY <1>2, <2>3 DEF Fresh
  <2>5. CopyInStep(q)'
    BY <1>2, <1>3, <2>1, <2>3 DEF CopyInStep, Fresh
  <2> QED BY <1>1, <1>3, <2>3, <2>4, <2>5, FreshStays, CopyStep
<1>5. CASE Poll(q) \/ PollUnreachable(q)
  <2>1. r.op = "reconcile" /\ r.stage = "loaded" /\ r.row.state \in Trying
    BY <1>5 DEF Poll, PollUnreachable, MayPoll, Trying
  <2>2. ~Fresh(q) /\ r.row.state = payout[r.payout].state
    BY <1>2, <2>1 DEF CopyInStep
  <2>3. \E k \in Keys : \E answer :
          /\ Latest(r.payout, k)
          /\ proc' = [proc EXCEPT ![q] = Polling(q, k, answer)]
    BY <1>5, PollsLatest
  <2>4. PICK k \in Keys : \E answer :
          /\ Latest(r.payout, k)
          /\ proc' = [proc EXCEPT ![q] = Polling(q, k, answer)]
    BY <2>3, Zenon
  <2>5. PICK answer : proc' = [proc EXCEPT ![q] = Polling(q, k, answer)]
    BY <2>4, Zenon
  <2>6. /\ attempt[k].payout = r.payout
        /\ attempt[k].state = payout[r.payout].state
    <3>1. attempt[k].payout = r.payout
      BY <2>4 DEF Latest
    <3>2. attempt[k].state \in AttemptsOf(payout[r.payout].state)
      BY <1>2, <3>1 DEF PromiseInv, RowInStep
    <3> QED BY <2>1, <2>2, <3>1, <3>2 DEF AttemptsOf
  <2>7. /\ proc'[q].op = r.op /\ proc'[q].stage = "called"
        /\ proc'[q].fresh = r.fresh
        /\ proc'[q].payout = r.payout /\ proc'[q].key = k
        /\ proc'[q].row = r.row /\ proc'[q].att = attempt[k]
        /\ \A o \in Processes \ {q} : proc'[o] = proc[o]
    BY <1>1, <1>2, <2>5 DEF Polling, TypeInv, TypeOK, Busy
  <2>8. ~Fresh(q)'
    BY <1>2, <2>2, <2>7 DEF Fresh
  <2>9. CopyInStep(q)'
    BY <1>3, <2>1, <2>2, <2>6, <2>7, <2>8 DEF CopyInStep
  <2> QED BY <1>1, <1>3, <2>7, <2>8, <2>9, FreshStays, CopyStep
<1> QED BY <1>4, <1>5

-----------------------------------------------------------------------------
(* A process that ends writes the rows of its own payout.  No other works  *)
(* on them, and no other attempt has its key, so everything else stays in  *)
(* step.                                                                   *)
LEMMA EndInStep ==
  ASSUME PromiseInv, TypeInv', TakesTurns,
         NEW q \in Processes, proc[q] # Idle, Finish(q),
         NEW p \in Payouts, p = proc[q].payout,
         \A x \in Payouts \ {p} : payout'[x] = payout[x] /\ ledger'[x] = ledger[x],
         \A k \in Keys : attempt'[k] # attempt[k] =>
           /\ proc[q].stage # "loaded" /\ k = proc[q].key
           /\ attempt'[k].payout = p,
         RowInStep(p)'
  PROVE  PromiseInv'
PROOF
<1>1. proc'[q] = Idle /\ \A o \in Processes \ {q} : proc'[o] = proc[o]
  BY DEF Finish, PromiseInv, TypeInv, TypeOK
<1>2. CopyInStep(q) /\ None \notin Payouts
  BY NoneAssumption DEF PromiseInv
<1>3. ASSUME NEW k \in Keys, attempt'[k] # attempt[k]
      PROVE  attempt[k].payout = IF Fresh(q) THEN None ELSE p
  BY <1>2, <1>3 DEF CopyInStep, NoAttempt
<1>4. ASSUME NEW x \in Payouts \ {p} PROVE RowInStep(x)'
  <2>1. \A k \in Keys : attempt'[k].payout = x \/ attempt[k].payout = x =>
                           attempt'[k] = attempt[k]
    BY <1>2, <1>3
  <2>2. RowInStep(x) /\ payout'[x] = payout[x] /\ ledger'[x] = ledger[x]
    BY DEF PromiseInv
  <2> QED BY <2>1, <2>2 DEF RowInStep
<1>5. ASSUME NEW o \in Processes PROVE CopyInStep(o)'
  <2>1. CASE o = q
    BY <1>1, <2>1 DEF CopyInStep
  <2>2. CASE o # q /\ proc[o] # Idle
    <3>1. proc'[o] = proc[o]
      BY <1>1, <2>2
    <3>2. proc[o].payout \in Payouts \ {p}
      BY <2>2 DEF TakesTurns, PromiseInv, TypeInv, TypeOK, Busy
    <3>3. ASSUME proc[o].stage # "loaded"
          PROVE  attempt'[proc[o].key] = attempt[proc[o].key]
      <4> SUFFICES ASSUME attempt'[proc[o].key] # attempt[proc[o].key] PROVE FALSE
        OBVIOUS
      <4>1. proc[o].key \in Keys
        BY <2>2, <3>3 DEF PromiseInv, TypeInv, ArgumentsKnown
      <4>2. /\ proc[o].key = proc[q].key
            /\ attempt[proc[o].key].payout = IF Fresh(q) THEN None ELSE p
        BY <1>3, <4>1
      <4>3. attempt[proc[o].key].payout = IF Fresh(o) THEN None ELSE proc[o].payout
        BY <2>2, <3>3 DEF PromiseInv, CopyInStep, NoAttempt
      <4>4. Fresh(q) /\ Fresh(o)
        BY <1>2, <3>2, <4>2, <4>3
      <4> QED BY <2>2, <4>2, <4>4 DEF PromiseInv, FreshApart
    <3>4. payout'[proc[o].payout] = payout[proc[o].payout]
      BY <3>2
    <3> QED BY <3>1, <3>3, <3>4, OthersInStep
  <2>3. CASE o # q /\ proc[o] = Idle
    BY <1>1, <2>3 DEF CopyInStep
  <2> QED BY <2>1, <2>2, <2>3
<1>6. ~Fresh(q)'
  BY <1>1 DEF Fresh
<1>7. FreshApart'
  BY <1>1, <1>6, FreshStays
<1> QED BY <1>4, <1>5, <1>7 DEF PromiseInv

(* Only the phase of the payout that is written moves.                     *)
LEMMA PhaseMoves ==
  ASSUME NEW p \in Payouts, \A x \in Payouts \ {p} : payout'[x] = payout[x],
         NEW new, Phase(p)' = new
  PROVE  Phases' = [Phases EXCEPT ![p] = new]
PROOF
<1>1. \A x \in Payouts \ {p} : Phase(x)' = Phase(x)
  BY DEF Phase
<1> QED BY <1>1 DEF Phases

(* A treasury decision reserves an open payout or refuses it.              *)
LEMMA DecisionInStep ==
  ASSUME PromiseInv, TakesTurns, [Next]_vars, NEW q \in Processes,
         Authorize(q) \/ Reject(q)
  PROVE  PromiseInv' /\ PromiseKept
PROOF
<1>1. TypeInv /\ TypeInv'
  BY TypeStep DEF PromiseInv
<1>2. /\ proc[q] \in Busy /\ proc[q] # Idle /\ proc[q].op # "submit"
      /\ proc[q].row.state = "created" /\ Finish(q) /\ UNCHANGED attempt
  BY <1>1, BusyType
     DEF Authorize, Reject, MayApprove, MayDecide, TypeInv
<1>3. PICK p \in Payouts : p = proc[q].payout
  BY <1>2 DEF Busy
<1>4. payout[p].state = "created" /\ payout[p] \in PayoutRow
  BY <1>1, <1>2, <1>3 DEF PromiseInv, CopyInStep, Fresh, TypeInv, TypeOK
<1>5. ledger[p] = {} /\ ledger \in [Payouts -> SUBSET EntryType]
  BY <1>1, <1>2, <1>4 DEF PromiseInv, RowInStep, EntriesOf, TypeInv, TypeOK
<1>6. \A k \in Keys : attempt[k].payout # p
  BY <1>2, <1>4 DEF PromiseInv, RowInStep, AttemptsOf, Trying, Unresolved
<1>7. CASE Authorize(q)
  <2>1. /\ payout' = [payout EXCEPT ![p] = [payout[p] EXCEPT !.state = "authorized"]]
        /\ Post(p, "reservation") /\ balance.available >= Amount[p]
    BY <1>3, <1>7, Zenon DEF Authorize, Affordable
  <2>2. /\ payout'[p].state = "authorized"
        /\ \A x \in Payouts \ {p} : payout'[x] = payout[x]
    BY <1>1, <1>2, <1>4, <2>1 DEF TypeInv, TypeOK, PayoutRow
  <2>3. ledger' = [ledger EXCEPT ![p] = {"reservation"}]
    BY <1>5, <2>1 DEF Post
  <2>4. balance'.available = balance.available - Amount[p]
    BY <1>1, <1>2, <1>5, <2>1, PostAvailable DEF EntryType
  <2>5. RowInStep(p)'
    BY <1>2, <1>5, <1>6, <2>2, <2>3 DEF RowInStep, EntriesOf
  <2>6. PromiseInv'
    BY <1>1, <1>2, <1>3, <1>5, <2>2, <2>3, <2>5, EndInStep
  <2>7. Phases' = [Phases EXCEPT ![p] = "reserved"]
    BY <1>2, <2>2, PhaseMoves DEF Phase
  <2>8. Promise!Reserve(p)
    BY <1>2, <1>4, <2>1, <2>4, <2>7 DEF Promise!Reserve, Phases, Phase
  <2> QED BY <1>2, <2>6, <2>8 DEF PromiseKept, Promise!Next
<1>8. CASE Reject(q)
  <2>1. /\ payout' = [payout EXCEPT ![p] = [payout[p] EXCEPT !.state = "cancelled"]]
        /\ UNCHANGED <<ledger, balance>>
    BY <1>3, <1>5, <1>8, Zenon DEF Reject
  <2>2. /\ payout'[p].state = "cancelled"
        /\ \A x \in Payouts \ {p} : payout'[x] = payout[x]
    BY <1>1, <1>2, <1>4, <2>1 DEF TypeInv, TypeOK, PayoutRow
  <2>3. RowInStep(p)'
    BY <1>2, <1>5, <1>6, <2>1, <2>2 DEF RowInStep, EntriesOf
  <2>4. PromiseInv'
    BY <1>1, <1>2, <1>3, <2>1, <2>2, <2>3, EndInStep
  <2>5. Phases' = [Phases EXCEPT ![p] = "closed"]
    BY <1>2, <2>2, PhaseMoves DEF Phase
  <2>6. Promise!Refuse(p)
    BY <1>2, <1>4, <2>1, <2>5 DEF Promise!Refuse, Phases, Phase
  <2> QED BY <1>2, <2>4, <2>6 DEF PromiseKept, Promise!Next
<1> QED BY <1>7, <1>8

(* An approval that does not complete the quorum, and a rolled back        *)
(* request, leave the rows.                                                *)
LEMMA LeaveInStep ==
  ASSUME PromiseInv, TakesTurns, [Next]_vars, NEW q \in Processes,
         RecordApproval(q) \/ RollBack(q)
  PROVE  PromiseInv' /\ PromiseKept
PROOF
<1>1. TypeInv /\ TypeInv'
  BY TypeStep DEF PromiseInv
<1>2. UNCHANGED <<payout, attempt, ledger, balance>> /\ Finish(q)
  BY DEF RecordApproval, RollBack, dbVars
<1>3. proc[q] # Idle
  BY <1>1, BusyType DEF RecordApproval, MayApprove, MayDecide, RollBack, TypeInv
<1>4. PICK p \in Payouts : p = proc[q].payout
  BY <1>1, <1>3 DEF TypeInv, TypeOK, Busy
<1>5. PromiseKept /\ RowInStep(p)'
  BY <1>2, QuietInStep
<1> QED BY <1>1, <1>2, <1>3, <1>4, <1>5, EndInStep

(* What a commit makes of the rows of a payout in flight: its state and    *)
(* its attempt's are the ones the handler computed.                        *)
LEMMA SaveWrites ==
  ASSUME OneKeyEach, PromiseInv, NEW q \in Processes, Save(q),
         NEW p \in Payouts, p = proc[q].payout
  PROVE  LET s == Result(proc[q]) IN
         /\ proc[q] # Idle /\ proc[q].stage # "loaded"
         /\ payout[p].state \in {"authorized"} \cup Trying
         /\ payout'[p].state = s.row.state
         /\ \A x \in Payouts \ {p} : payout'[x] = payout[x]
         /\ s.att.state \in AttemptsOf(s.row.state)
         /\ \A k \in Keys : attempt'[k] # attempt[k] =>
              k = proc[q].key /\ attempt'[k].payout = p
         /\ \A k \in Keys : attempt'[k].payout = p =>
              k \in KeysFor[p] /\ attempt'[k].state = s.att.state
         /\ \E k \in Keys : attempt'[k].payout = p
PROOF
<1> DEFINE r == proc[q]
           s == Result(r)
<1>1. TypeInv
  BY DEF PromiseInv
<1>2. /\ r \in Busy /\ r # Idle /\ r.payout = p /\ r.key \in Keys
      /\ r.stage # "loaded" /\ r.row \in PayoutRow
  BY <1>1, BusyType DEF Save, TypeInv, ArgumentsKnown, Busy
<1>3. /\ r.row.state = IF Fresh(q) THEN "submitting" ELSE payout[p].state
      /\ Fresh(q) => r.op = "submit" /\ payout[p].state = "authorized"
      /\ r.op = "submit" => r.key \in KeysFor[p]
      /\ r.att.payout = p /\ r.att.state = r.row.state
      /\ r.row.state \in Trying
      /\ Fresh(q) \/ /\ attempt[r.key].payout = p
                     /\ attempt[r.key].state = r.att.state
  BY <1>2 DEF PromiseInv, CopyInStep
<1>4. payout[p].state \in {"authorized"} \cup Trying
  BY <1>3
<1>5. /\ s.att.payout = p
      /\ s.att.state \in AttemptsOf(s.row.state)
  BY <1>2, <1>3, ResultType, ResultInStep DEF ResultShape
<1> HIDE DEF s
<1>6. /\ payout'[p] = Written(r)
      /\ \A x \in Payouts \ {p} : payout'[x] = payout[x]
  BY <1>1, <1>2 DEF Save, TypeInv, TypeOK
<1>7. Written(r).state = s.row.state
  <2>1. payout[p] \in PayoutRow
    BY <1>1 DEF TypeInv, TypeOK
  <2>2. Stored(r).state = r.row.state
    BY <1>2, <1>3, <2>1 DEF Stored, PayoutRow, Fresh
  <2>3. Written(r).state = Column(Stored(r).state, r.row.state, s.row.state)
    BY DEF Written, MergePayout, s
  <2> QED BY <2>2, <2>3 DEF Column
<1>8. /\ attempt'[r.key].payout = p /\ attempt'[r.key].state = s.att.state
      /\ \A k \in Keys \ {r.key} : attempt'[k] = attempt[k]
  <2>1. attempt' = [attempt EXCEPT ![r.key] =
                      IF r.fresh THEN s.att
                      ELSE MergeAttempt(attempt[r.key], r.att, s.att)]
    BY DEF Save, s
  <2>2. ~r.fresh =>
          /\ MergeAttempt(attempt[r.key], r.att, s.att).payout = p
          /\ MergeAttempt(attempt[r.key], r.att, s.att).state = s.att.state
    BY <1>2, <1>3 DEF MergeAttempt, Column, Fresh
  <2> QED BY <1>1, <1>2, <1>5, <2>1, <2>2 DEF TypeInv, TypeOK
<1>9. r.key \in KeysFor[p] /\ \A k \in Keys : attempt[k].payout = p => k = r.key
  <2>1. \A k \in Keys : attempt[k].payout = p => k \in KeysFor[p] /\ ~Fresh(q)
    BY <1>3 DEF PromiseInv, RowInStep, AttemptsOf, Trying, Unresolved
  <2> QED BY <1>2, <1>3, <2>1 DEF OneKeyEach
<1> QED BY <1>2, <1>4, <1>5, <1>6, <1>7, <1>8, <1>9 DEF s

(* The commit of an answer pays a reserved payout, returns its money, or   *)
(* leaves it reserved.                                                     *)
LEMMA SaveInStep ==
  ASSUME OneKeyEach, PromiseInv, TakesTurns, [Next]_vars, NEW q \in Processes, Save(q)
  PROVE  PromiseInv' /\ PromiseKept
PROOF
<1>1. TypeInv /\ TypeInv'
  BY TypeStep DEF PromiseInv
<1>2. /\ proc[q] \in Busy /\ proc[q] # Idle /\ proc[q].key \in Keys /\ Finish(q)
      /\ proc[q].stage # "loaded"
  BY <1>1, BusyType DEF Save, TypeInv, ArgumentsKnown
<1>3. PICK p \in Payouts : p = proc[q].payout
  BY <1>2 DEF Busy
<1> DEFINE s == Result(proc[q])
<1>4. /\ payout[p].state \in {"authorized"} \cup Trying
      /\ payout'[p].state = s.row.state
      /\ \A x \in Payouts \ {p} : payout'[x] = payout[x]
      /\ s.att.state \in AttemptsOf(s.row.state)
      /\ \A k \in Keys : attempt'[k] # attempt[k] =>
           k = proc[q].key /\ attempt'[k].payout = p
      /\ \A k \in Keys : attempt'[k].payout = p =>
           k \in KeysFor[p] /\ attempt'[k].state = s.att.state
      /\ \E k \in Keys : attempt'[k].payout = p
  BY <1>3, SaveWrites
<1>5. \/ s.row.state \in Trying /\ s.entry = None
      \/ s.row.state = "failed" /\ s.entry = "release"
      \/ s.row.state = "confirmed" /\ s.entry = "settlement"
  BY <1>2, ResultInStep DEF PromiseInv, CopyInStep
<1>6. PostResult(p, s.entry)
  BY <1>3 DEF Save
<1> HIDE DEF s
<1>7. ledger[p] = {"reservation"} /\ Phase(p) = "reserved"
  BY <1>4 DEF PromiseInv, RowInStep, EntriesOf, Phase, Trying, Unresolved
<1>8. ledger \in [Payouts -> SUBSET EntryType] /\ Amount[p] \in Int
  BY <1>1, PolicyAssumption DEF TypeInv, TypeOK
<1>9. ASSUME NEW entries, ledger' = [ledger EXCEPT ![p] = entries],
             entries = EntriesOf(s.row.state)
      PROVE  PromiseInv'
  <2>1. \A x \in Payouts \ {p} : ledger'[x] = ledger[x]
    BY <1>8, <1>9
  <2>2. RowInStep(p)'
    BY <1>4, <1>8, <1>9 DEF RowInStep
  <2> QED BY <1>1, <1>2, <1>3, <1>4, <2>1, <2>2, EndInStep
<1>10. CASE s.row.state \in Trying /\ s.entry = None
  <2>1. UNCHANGED <<ledger, balance>>
    BY <1>6, <1>10 DEF PostResult
  <2>2. ledger' = [ledger EXCEPT ![p] = {"reservation"}]
    BY <1>7, <1>8, <2>1
  <2>3. PromiseInv'
    BY <1>9, <1>10, <2>2 DEF EntriesOf, Trying, Unresolved
  <2>4. Phases' = [Phases EXCEPT ![p] = "reserved"]
    BY <1>4, <1>10, PhaseMoves DEF Phase, Trying, Unresolved
  <2>5. UNCHANGED <<Phases, balance.available>>
    BY <1>7, <2>1, <2>4 DEF Phases
  <2> QED BY <2>3, <2>5 DEF PromiseKept
<1>11. CASE s.row.state = "failed" /\ s.entry = "release"
  <2>1. Post(p, "release")
    BY <1>6, <1>7, <1>11, NoneAssumption DEF PostResult
  <2>2. /\ ledger' = [ledger EXCEPT ![p] = {"reservation", "release"}]
        /\ balance'.available = balance.available + Amount[p]
    BY <1>1, <1>7, <1>8, <2>1 DEF Post, Delta, TypeInv, TypeOK
  <2>3. PromiseInv'
    BY <1>9, <1>11, <2>2 DEF EntriesOf
  <2>4. Phases' = [Phases EXCEPT ![p] = "closed"]
    BY <1>4, <1>11, PhaseMoves DEF Phase
  <2>5. Promise!Return(p)
    BY <1>7, <2>2, <2>4 DEF Promise!Return, Phases
  <2> QED BY <2>3, <2>5 DEF PromiseKept, Promise!Next
<1>12. CASE s.row.state = "confirmed" /\ s.entry = "settlement"
  <2>1. Post(p, "settlement")
    BY <1>6, <1>12, NoneAssumption DEF PostResult
  <2>2. /\ ledger' = [ledger EXCEPT ![p] = {"reservation", "settlement"}]
        /\ balance'.available = balance.available
    BY <1>1, <1>7, <1>8, <2>1 DEF Post, Delta, TypeInv, TypeOK
  <2>3. PromiseInv'
    BY <1>9, <1>12, <2>2 DEF EntriesOf
  <2>4. Phases' = [Phases EXCEPT ![p] = "paid"]
    BY <1>4, <1>12, PhaseMoves DEF Phase
  <2>5. Promise!Pay(p)
    BY <1>7, <2>2, <2>4 DEF Promise!Pay, Phases
  <2> QED BY <2>3, <2>5 DEF PromiseKept, Promise!Next
<1> QED BY <1>5, <1>10, <1>11, <1>12

(* Attempts are written by the commit of an answer alone.                  *)
LEMMA AttemptWriters ==
  ASSUME [Next]_vars, attempt' # attempt
  PROVE  \E q \in Processes : Save(q)
BY DEF Next, Request, Handle, LoadDecision, LoadSubmission, LoadReconciliation, LoadDue,
       RecordApproval, Authorize, Reject, StartAttempt, ReuseAttempt, SubmitTransfer,
       SubmitUnreachable, Poll, PollUnreachable, RollBack, SetTreasuryPause, Progress,
       Midnight, vars, dbVars

(* Every step keeps everything in step and the promise: one case per       *)
(* action.                                                                 *)
LEMMA PromiseStep ==
  ASSUME OneKeyEach
  PROVE  PromiseInv /\ TakesTurns /\ [Next]_vars => PromiseInv' /\ PromiseKept
PROOF
<1> SUFFICES ASSUME PromiseInv, TakesTurns, [Next]_vars
             PROVE  PromiseInv' /\ PromiseKept
  OBVIOUS
<1>1. TypeInv /\ TypeInv'
  BY TypeStep DEF PromiseInv
<1>2. ASSUME UNCHANGED <<payout, attempt, ledger, balance, proc>>
      PROVE  PromiseInv' /\ PromiseKept
  <2>1. ASSUME NEW q \in Processes PROVE CopyInStep(q)'
    <3>1. /\ proc'[q] = proc[q]
          /\ payout'[proc[q].payout] = payout[proc[q].payout]
          /\ attempt'[proc[q].key] = attempt[proc[q].key]
      BY <1>2
    <3> QED BY <3>1, OthersInStep
  <2>2. FreshApart'
    BY <1>2 DEF PromiseInv, FreshApart, Fresh
  <2> QED BY <1>1, <1>2, <2>1, <2>2, QuietInStep DEF PromiseInv
<1>3. ASSUME NEW q \in Servers, Request(q) PROVE PromiseInv' /\ PromiseKept
  BY <1>3, LoadingInStep DEF Processes
<1>4. ASSUME NEW q \in Workers, NEW p \in Payouts, LoadDue(q, p)
      PROVE  PromiseInv' /\ PromiseKept
  BY <1>4, LoadingInStep DEF Processes
<1>5. ASSUME NEW q \in Processes, Handle(q) PROVE PromiseInv' /\ PromiseKept
  BY <1>5, DecisionInStep, LeaveInStep, StartInStep, ReuseInStep, CallInStep, SaveInStep
     DEF Handle
<1>6. ASSUME NEW paused \in BOOLEAN, SetTreasuryPause(paused)
      PROVE  PromiseInv' /\ PromiseKept
  BY <1>2, <1>6 DEF SetTreasuryPause, dbVars
<1>7. ASSUME NEW k \in Keys, Progress(k) PROVE PromiseInv' /\ PromiseKept
  BY <1>2, <1>7 DEF Progress, dbVars
<1>8. CASE Midnight
  BY <1>2, <1>8 DEF Midnight, dbVars
<1>9. CASE UNCHANGED vars
  BY <1>2, <1>9 DEF vars, dbVars
<1> QED BY <1>3, <1>4, <1>5, <1>6, <1>7, <1>8, <1>9 DEF Next

(* When requests of one payout take turns and a client sends one key for   *)
(* it, the handlers together implement TreasuryPromise, for any number of  *)
(* payouts and processes and any faults: whatever the requests of other    *)
(* payouts do meanwhile, each is reserved once, and paid from that         *)
(* reservation or returned.                                                *)
THEOREM PromiseIsKept ==
  ASSUME OneKeyEach
  PROVE  Spec /\ []TakesTurns => KeepsPromise
PROOF
<1>1. Init => PromiseInv /\ Promise!Init
  BY PromiseStarts
<1>2. PromiseInv /\ TakesTurns /\ [Next]_vars => PromiseInv' /\ PromiseKept
  BY PromiseStep
<1>3. PromiseKept => [Promise!Next]_<<[p \in Payouts |-> Phase(p)], balance.available>>
  BY DEF PromiseKept, Phases
<1> QED BY <1>1, <1>2, <1>3, PTL DEF Spec, KeepsPromise, Promise!Spec

(* Under the same condition the ledger never releases and settles one      *)
(* reservation; retry_after_release shows what a second key does to this.  *)
THEOREM SettledOrReleased ==
  ASSUME OneKeyEach
  PROVE  Spec /\ []TakesTurns => []SettledFromReservation
PROOF
<1>1. Init => PromiseInv
  BY PromiseStarts
<1>2. PromiseInv /\ TakesTurns /\ [Next]_vars => PromiseInv'
  BY PromiseStep
<1>3. PromiseInv => SettledFromReservation
  BY DEF PromiseInv, RowInStep, EntriesOf, SettledFromReservation
<1> QED BY <1>1, <1>2, <1>3, PTL DEF Spec

(* An attempt that ended is never written again when requests of one       *)
(* payout take turns: the listener's comparison with the loaded copy is    *)
(* then one with the row.                                                  *)
THEOREM EndedAttemptsKept ==
  ASSUME OneKeyEach
  PROVE  Spec /\ []TakesTurns => TerminalAttemptsImmutable
PROOF
<1> DEFINE Kept == \A k \in Keys : attempt[k].state \in {"submitted", "failed"} =>
                                   attempt'[k] = attempt[k]
<1>1. Init => PromiseInv
  BY PromiseStarts
<1>2. PromiseInv /\ TakesTurns /\ [Next]_vars => PromiseInv'
  BY PromiseStep
<1>3. ASSUME PromiseInv, [Next]_vars PROVE [Kept]_attempt
  <2> SUFFICES ASSUME attempt' # attempt PROVE Kept
    OBVIOUS
  <2>1. PICK q \in Processes : Save(q)
    BY <1>3, AttemptWriters
  <2>2. /\ proc[q] \in Busy /\ proc[q].key \in Keys /\ proc[q].stage # "loaded"
        /\ CopyInStep(q) /\ proc[q] # Idle
    BY <1>3, <2>1, BusyType DEF Save, PromiseInv, TypeInv, ArgumentsKnown
  <2> DEFINE r == proc[q]
  <2>3. attempt' = [attempt EXCEPT ![r.key] =
                      IF r.fresh THEN Result(r).att
                      ELSE MergeAttempt(attempt[r.key], r.att, Result(r).att)]
    BY <2>1 DEF Save
  <2>4. ASSUME attempt[r.key].state \in {"submitted", "failed"}
        PROVE  attempt'[r.key] = attempt[r.key]
    <3>1. ~r.fresh /\ r.att.state = attempt[r.key].state
      BY <2>2, <2>4 DEF CopyInStep, Fresh, NoAttempt
    <3>2. Result(r).att = r.att
      BY <2>1, <2>4, <3>1 DEF Save, Raises, ChangesTerminal
    <3>3. attempt[r.key] \in AttemptRow
      BY <1>3, <2>2 DEF PromiseInv, TypeInv, TypeOK
    <3>4. MergeAttempt(attempt[r.key], r.att, r.att) = attempt[r.key]
      BY <3>3 DEF MergeAttempt, Column, AttemptRow
    <3> QED BY <1>3, <2>2, <2>3, <3>1, <3>2, <3>4 DEF PromiseInv, TypeInv, TypeOK
  <2>5. \A k \in Keys \ {r.key} : attempt'[k] = attempt[k]
    BY <1>3, <2>3 DEF PromiseInv, TypeInv, TypeOK
  <2> QED BY <2>4, <2>5
<1>4. PromiseInv /\ [Next]_vars => [Kept]_attempt
  BY <1>3
<1> QED BY <1>1, <1>2, <1>4, PTL DEF Spec, TerminalAttemptsImmutable

-----------------------------------------------------------------------------
(* Retries with one key *)

(* A submission has one of the keys that clients use for its payout.       *)
KeysOwned ==
  \A q \in Processes :
    proc[q] # Idle /\ proc[q].op = "submit" => proc[q].key \in KeysFor[proc[q].payout]

KeyInv == TypeInv /\ TransfersOwned /\ KeysOwned

(* A process that works on keeps its payout and its key.                   *)
LEMMA KeysOwnedStep == KeyInv /\ [Next]_vars => KeysOwned'
PROOF
<1> SUFFICES ASSUME KeyInv, [Next]_vars PROVE KeysOwned'
  OBVIOUS
<1>1. TypeOK /\ KeysOwned
  BY DEF KeyInv, TypeInv
<1>2. ASSUME NEW q \in Processes, NEW r, proc' = [proc EXCEPT ![q] = r],
             r # Idle /\ r.op = "submit" => r.key \in KeysFor[r.payout]
      PROVE  KeysOwned'
  BY <1>1, <1>2 DEF KeysOwned, TypeOK
<1>3. CASE UNCHANGED proc
  BY <1>1, <1>3 DEF KeysOwned
<1>4. ASSUME NEW q \in Processes, NEW op, NEW p \in Payouts, NEW u, NEW k,
             Load(q, op, p, u, k), op = "submit" => k \in KeysFor[p]
      PROVE  KeysOwned'
  <2> DEFINE r == [op |-> op, stage |-> "loaded", payout |-> p, user |-> u, key |-> k,
                   row |-> payout[p], active |-> active, att |-> NoAttempt,
                   fresh |-> FALSE, answer |-> None]
  <2>1. proc' = [proc EXCEPT ![q] = r]
    BY <1>4 DEF Load
  <2>2. r.op = op /\ r.key = k /\ r.payout = p
    OBVIOUS
  <2> HIDE DEF r
  <2> QED BY <1>2, <1>4, <2>1, <2>2
<1>5. ASSUME NEW q \in Processes, Request(q) \/ \E p \in Payouts : LoadDue(q, p)
      PROVE  KeysOwned'
  BY <1>4, <1>5 DEF Request, LoadDecision, LoadSubmission, LoadReconciliation, LoadDue
<1>6. ASSUME NEW q \in Processes, Finish(q) PROVE KeysOwned'
  BY <1>2, <1>6 DEF Finish
<1>7. ASSUME NEW q \in Processes,
             StartAttempt(q) \/ ReuseAttempt(q) \/ SubmitTransfer(q) \/ SubmitUnreachable(q)
      PROVE  KeysOwned'
  <2>1. /\ proc[q] \in Busy /\ proc[q].op = "submit"
        /\ proc[q].key \in KeysFor[proc[q].payout]
    BY <1>1, <1>7, BusyType
    DEF StartAttempt, ReuseAttempt, SubmitTransfer, SubmitUnreachable, Submits, KeysOwned
  <2>2. \E r : /\ proc' = [proc EXCEPT ![q] = r]
               /\ r.key = proc[q].key /\ r.payout = proc[q].payout
    <3>1. CASE StartAttempt(q)
      <4> DEFINE number == 1 + Cardinality({k \in Keys : attempt[k].payout = proc[q].payout})
                 att == [payout |-> proc[q].payout, number |-> number,
                         state |-> "submitting", ref |-> None, tries |-> 0]
                 row == [proc[q].row EXCEPT !.state = "submitting"]
                 r == [proc[q] EXCEPT !.stage = "started", !.fresh = TRUE,
                                      !.row = row, !.att = att]
      <4>1. proc' = [proc EXCEPT ![q] = r]
        BY <3>1 DEF StartAttempt
      <4> HIDE DEF att, row
      <4>2. r.key = proc[q].key /\ r.payout = proc[q].payout
        BY <2>1 DEF Busy
      <4> QED BY <4>1, <4>2
    <3>2. CASE ReuseAttempt(q)
      <4> DEFINE r == [proc[q] EXCEPT !.stage = "started", !.att = attempt[proc[q].key]]
      <4>1. proc' = [proc EXCEPT ![q] = r]
        BY <3>2 DEF ReuseAttempt
      <4>2. r.key = proc[q].key /\ r.payout = proc[q].payout
        BY <2>1 DEF Busy
      <4> QED BY <4>1, <4>2
    <3>3. CASE SubmitTransfer(q) \/ SubmitUnreachable(q)
      <4>1. PICK answer :
              proc' = [proc EXCEPT ![q].stage = "called", ![q].answer = answer]
        BY <3>3 DEF SubmitTransfer, SubmitUnreachable
      <4> DEFINE r == [proc[q] EXCEPT !.stage = "called", !.answer = answer]
      <4>2. proc' = [proc EXCEPT ![q] = r]
        BY <4>1
      <4>3. r.key = proc[q].key /\ r.payout = proc[q].payout
        BY <2>1 DEF Busy
      <4> QED BY <4>2, <4>3
    <3> QED BY <1>7, <3>1, <3>2, <3>3
  <2> QED BY <1>2, <2>1, <2>2
<1>8. ASSUME NEW q \in Processes, Poll(q) \/ PollUnreachable(q) PROVE KeysOwned'
  <2>1. proc[q] \in Busy /\ proc[q].op = "reconcile"
    BY <1>1, <1>8, BusyType DEF Poll, PollUnreachable, MayPoll
  <2>2. PICK k, answer :
          proc' = [proc EXCEPT ![q].stage = "called", ![q].key = k,
                               ![q].att = attempt[k], ![q].answer = answer]
    BY <1>8 DEF Poll, PollUnreachable
  <2> DEFINE r == [proc[q] EXCEPT !.stage = "called", !.key = k,
                                  !.att = attempt[k], !.answer = answer]
  <2>3. proc' = [proc EXCEPT ![q] = r]
    BY <2>2
  <2>4. r.op = "reconcile"
    BY <2>1 DEF Busy
  <2> HIDE DEF r
  <2> QED BY <1>2, <2>3, <2>4
<1>9. ASSUME NEW q \in Processes, Handle(q) PROVE KeysOwned'
  BY <1>6, <1>7, <1>8, <1>9
  DEF Handle, RecordApproval, Authorize, Reject, Save, RollBack
<1> QED BY <1>3, <1>5, <1>9
        DEF Next, vars, Processes, SetTreasuryPause, Progress, Midnight

(* A transfer is made with the key of the submission that asks for it.     *)
LEMMA TransfersOwnedStep == KeyInv /\ [Next]_vars => TransfersOwned'
PROOF
<1> SUFFICES ASSUME KeyInv, [Next]_vars PROVE TransfersOwned'
  OBVIOUS
<1>1. TypeOK /\ TransfersOwned /\ KeysOwned
  BY DEF KeyInv, TypeInv
<1>2. CASE UNCHANGED providerVars
  BY <1>1, <1>2 DEF TransfersOwned, providerVars
<1>3. ASSUME NEW k \in Keys, Progress(k) PROVE TransfersOwned'
  <2>1. PICK s : transfer' = [transfer EXCEPT ![k] = s] /\ owner' = owner
    BY <1>3 DEF Progress
  <2>2. transfer[k] # None
    BY <1>3, NoneAssumption DEF Progress
  <2> QED BY <1>1, <2>1, <2>2 DEF TransfersOwned, TypeOK
<1>4. ASSUME NEW q \in Processes, SubmitTransfer(q) PROVE TransfersOwned'
  <2>1. /\ proc[q] \in Busy /\ proc[q] # Idle /\ proc[q].op = "submit"
    BY <1>1, <1>4, BusyType DEF SubmitTransfer
  <2>2. proc[q].payout \in Payouts /\ proc[q].key \in KeysFor[proc[q].payout]
    BY <1>1, <2>1 DEF Busy, KeysOwned
  <2>3. CASE transfer[proc[q].key] = None
    <3>1. PICK s : /\ transfer' = [transfer EXCEPT ![proc[q].key] = s]
                   /\ owner' = [owner EXCEPT ![proc[q].key] = proc[q].payout]
      BY <1>4, <2>3 DEF SubmitTransfer
    <3> QED BY <1>1, <2>2, <3>1 DEF TransfersOwned, TypeOK
  <2>4. CASE transfer[proc[q].key] # None
    BY <1>2, <1>4, <2>4 DEF SubmitTransfer
  <2> QED BY <2>3, <2>4
<1>5. \/ UNCHANGED providerVars
      \/ \E k \in Keys : Progress(k)
      \/ \E q \in Processes : SubmitTransfer(q)
  BY DEF Next, vars, Request, LoadDecision, LoadSubmission, LoadReconciliation, LoadDue,
         Handle, RecordApproval, Authorize, Reject, StartAttempt, ReuseAttempt,
         SubmitUnreachable, Poll, PollUnreachable, Save, RollBack,
         SetTreasuryPause, Midnight
<1> QED BY <1>2, <1>3, <1>4, <1>5

(* backend/README.md is right about retries with the same key: whatever    *)
(* requests, crashes and lost answers overlap, a payout for which clients  *)
(* use one key has one transfer.  The run second_transfer needs two.       *)
THEOREM OneTransferPerKey ==
  ASSUME OneKeyEach
  PROVE  Spec => []TransferredOnce
PROOF
<1>1. Init => KeyInv
  BY TypeInit DEF KeyInv, TransfersOwned, KeysOwned, Init
<1>2. KeyInv /\ [Next]_vars => KeyInv'
  BY TypeStep, TransfersOwnedStep, KeysOwnedStep DEF KeyInv
<1>3. KeyInv => TransferredOnce
  BY NoneAssumption DEF KeyInv, TransfersOwned, OneKeyEach, TransferredOnce, Moving
<1> QED BY <1>1, <1>2, <1>3, PTL DEF Spec
=============================================================================
