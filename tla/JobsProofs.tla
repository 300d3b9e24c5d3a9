------------------------------ MODULE JobsProofs ------------------------------
(***************************************************************************)
(* Theorems about two queues of background jobs: AIReviews, for any number *)
(* of requests, workers, messages, crashes and days, and any policies,     *)
(* providers and models tried; Notifications, for any number of events,    *)
(* recipients, channels, overlapping dispatchers and lost batches.         *)
(***************************************************************************)
EXTENDS MCJobs, FiniteSetTheorems, SequenceTheorems, TLAPS

Days == 0..MaxAIDays

(* An executor that holds its review's row lock. *)
Holds(e) == run[e] # Idle /\ run[e].stage # "waiting"
Using(e) == run[e] # Idle /\ run[e].stage \in {"reserved", "calling"}

(* The calls an executor may still make on the slot it reserved.           *)
Tickets(p, d) ==
  {x \in Executors \X (1..AITries[p]) :
     /\ Using(x[1]) /\ run[x[1]].tries < x[2]
     /\ run[x[1]].provider = p /\ run[x[1]].day = d}

RunsKnown == \A e \in Executors : run[e] # Idle => run[e].review \in DOMAIN review

TypeInv == AITypeOK /\ RunsKnown

(* Only one executor holds a review, and it is still pending.              *)
Exclusive ==
  /\ \A e \in Executors : Holds(e) => review[run[e].review].status = "pending"
  /\ \A e, f \in Executors :
       Holds(e) /\ Holds(f) /\ run[e].review = run[f].review => e = f

(* A review that may go out was allowed to, to the provider it names.      *)
Cleared ==
  /\ \A r \in DOMAIN review : review[r].status = "pending" =>
       Allowed(review[r].policy, review[r].provider, review[r].private)
  /\ \A e \in Executors : Using(e) =>
       /\ run[e].provider = review[run[e].review].provider
       /\ run[e].day \in Days
  /\ \A e \in Executors : run[e] # Idle /\ ~Using(e) => run[e].tries = 0

(* A day's slots with a provider pay for the calls made and still to come. *)
Paid(p, d) ==
  /\ IsFiniteSet(Tickets(p, d))
  /\ quota.calls[p][d] + Cardinality(Tickets(p, d)) <= quota.used[p][d] * AITries[p]
  /\ quota.used[p][d] <= AIDailyLimit

AllPaid == \A p \in AIProviders, d \in Days : Paid(p, d)
AIInv == TypeInv /\ Exclusive /\ Cleared /\ AllPaid

-----------------------------------------------------------------------------
(* The records of the unions are told apart by their fields.               *)
LEMMA Records ==
  /\ \A S : \A x \in {Idle} \cup Draft \cup [manual : S] :
       /\ "source" \in DOMAIN x => x \in Draft
       /\ "manual" \in DOMAIN x => x \in [manual : S]
  /\ \A x \in Execution : x # Idle
PROOF
BY DEF Idle, Draft, Execution

(* What the types say of the rows in use.                                  *)
LEMMA RowTypes ==
  ASSUME TypeInv
  PROVE  /\ DOMAIN review = 1..Len(review) /\ Len(review) \in Nat
         /\ \A r \in DOMAIN review : review[r] \in Review
         /\ \A e \in Executors : run[e] # Idle =>
              run[e] \in Execution /\ run[e].review \in DOMAIN review
         /\ quota.day \in Days
         /\ \A p \in AIProviders, d \in Days :
              quota.used[p][d] \in Nat /\ quota.calls[p][d] \in Nat
         /\ quota \in [day : Days, used : Tally, calls : Tally, faults : 0..MaxAIFaults]
PROOF
<1>1. /\ DOMAIN review = 1..Len(review) /\ Len(review) \in Nat
      /\ \A r \in DOMAIN review : review[r] \in Review
  BY DEF TypeInv, AITypeOK
<1>2. \A e \in Executors : run[e] # Idle =>
        run[e] \in Execution /\ run[e].review \in DOMAIN review
  BY DEF TypeInv, AITypeOK, RunsKnown
<1>3. quota \in [day : Days, used : Tally, calls : Tally, faults : 0..MaxAIFaults]
  BY DEF TypeInv, AITypeOK, Days
<1>4. /\ quota.day \in Days
      /\ \A p \in AIProviders, d \in Days :
           quota.used[p][d] \in Nat /\ quota.calls[p][d] \in Nat
  BY <1>3 DEF Tally, Days
<1> QED BY <1>1, <1>2, <1>3, <1>4

(* Slots times tries: the arithmetic of Paid.                              *)
LEMMA Times ==
  ASSUME NEW a \in Nat, NEW b \in Nat, NEW n \in Nat
  PROVE  /\ a * n \in Nat /\ (a + 1) * n = a * n + n
         /\ a <= b => a * n <= b * n
PROOF
OBVIOUS

(* Fewer tickets at the same prices are paid for too.                      *)
LEMMA FewerTickets ==
  ASSUME AIInv, NEW p \in AIProviders, NEW d \in Days,
         Tickets(p, d)' \subseteq Tickets(p, d),
         quota'.used[p][d] = quota.used[p][d], quota'.calls[p][d] = quota.calls[p][d]
  PROVE  Paid(p, d)'
PROOF
<1>1. Paid(p, d) /\ AITries[p] \in Nat
  BY AIAssumption DEF AIInv, AllPaid
<1>2. /\ IsFiniteSet(Tickets(p, d)')
      /\ Cardinality(Tickets(p, d)') <= Cardinality(Tickets(p, d))
      /\ Cardinality(Tickets(p, d)') \in Nat /\ Cardinality(Tickets(p, d)) \in Nat
  BY <1>1, FS_Subset, FS_CardinalityType DEF Paid
<1>3. quota.calls[p][d] \in Nat /\ quota.used[p][d] * AITries[p] \in Nat
  BY <1>1, RowTypes, Times DEF AIInv
<1> QED BY <1>1, <1>2, <1>3 DEF Paid

(* Nothing is requested at first.                                          *)
LEMMA AIStart == AIInit => AIInv
PROOF
<1> SUFFICES ASSUME AIInit PROVE AIInv
  OBVIOUS
<1>1. /\ quota.day = 0 /\ quota.faults = 0
      /\ quota = [day |-> 0, used |-> quota.used, calls |-> quota.calls, faults |-> 0]
      /\ quota.used \in Tally /\ quota.calls \in Tally
      /\ \A p \in AIProviders, d \in Days : quota.used[p][d] = 0 /\ quota.calls[p][d] = 0
  BY DEF AIInit, Tally, Days
<1>2. TypeInv
  BY <1>1, AIAssumption DEF AIInit, TypeInv, AITypeOK, RunsKnown, Source
<1>3. Exclusive /\ Cleared
  BY DEF AIInit, Exclusive, Cleared, Holds, Using
<1>4. ASSUME NEW p \in AIProviders, NEW d \in Days PROVE Paid(p, d)
  <2>1. Tickets(p, d) = {}
    BY DEF AIInit, Tickets, Using
  <2>2. 0 * AITries[p] = 0
    BY AIAssumption
  <2> QED BY <1>1, <2>1, <2>2, FS_EmptySet, AIAssumption DEF Paid
<1> QED BY <1>2, <1>3, <1>4 DEF AIInv, AllPaid

(* Reviews stay as they are, but for new ones that their policy allowed or *)
(* that are not pending.                                                   *)
ReviewsKept ==
  /\ \A r \in DOMAIN review : r \in DOMAIN review' /\ review'[r] = review[r]
  /\ \A r \in DOMAIN review' \ DOMAIN review :
       review'[r].status = "pending" =>
         Allowed(review'[r].policy, review'[r].provider, review'[r].private)

(* A step in which nobody takes a lock or a slot, or records an outcome.   *)
LEMMA IdleStep ==
  ASSUME AIInv, TypeInv', ReviewsKept,
         \A e \in Executors : run'[e] = run[e] \/ run'[e] = Idle
                                \/ (~Holds(e)' /\ run'[e].tries = 0),
         quota'.used = quota.used, quota'.calls = quota.calls
  PROVE  AIInv'
PROOF
<1>1. \A e \in Executors : Holds(e)' => Holds(e) /\ run'[e] = run[e]
  BY DEF Holds
<1>2. \A e \in Executors : run[e] # Idle => review'[run[e].review] = review[run[e].review]
  BY DEF AIInv, TypeInv, RunsKnown, ReviewsKept
<1>3. Exclusive'
  BY <1>1, <1>2 DEF AIInv, Exclusive, Holds
<1>4. Cleared'
  <2>1. \A e \in Executors : run'[e] # Idle /\ ~Using(e)' => run'[e].tries = 0
    BY DEF AIInv, Cleared, Using
  <2> QED BY <1>1, <1>2, <2>1 DEF AIInv, Cleared, ReviewsKept, Holds, Using, Allowed
<1>5. ASSUME NEW p \in AIProviders, NEW d \in Days PROVE Paid(p, d)'
  <2>1. Tickets(p, d)' \subseteq Tickets(p, d)
    BY <1>1 DEF Tickets, Using, Holds
  <2> QED BY <2>1, FewerTickets
<1> QED BY <1>3, <1>4, <1>5 DEF AIInv, AllPaid

-----------------------------------------------------------------------------
(* Policies, configuration, midnight and the dispatcher. *)
LEMMA WorldStep ==
  ASSUME AIInv,
         \/ GetAIPolicy \/ Midnight \/ DispatchPending
         \/ \E i \in AIInputs \cup {None} : Analyse(i)
         \/ \E pol \in AIPolicies : PutAIPolicy(pol)
         \/ \E p \in AIProviders : Reconfigure(p)
         \/ \E private \in BOOLEAN : SyncRepository(private)
  PROVE  AIInv' /\ UNCHANGED review
PROOF
<1>1. UNCHANGED <<review, asking, run>>
  BY DEF GetAIPolicy, Midnight, DispatchPending, Analyse, PutAIPolicy, Reconfigure,
         SyncRepository
<1>2. source' \in Source /\ configured' \in AIProviders
  BY AIAssumption DEF GetAIPolicy, Midnight, DispatchPending, Analyse, PutAIPolicy,
     Reconfigure, SyncRepository, AIInv, TypeInv, AITypeOK, Source
<1>3. sent' \subseteq DOMAIN review
  BY DEF GetAIPolicy, Midnight, DispatchPending, Analyse, PutAIPolicy,
     Reconfigure, SyncRepository, AIInv, TypeInv, AITypeOK
<1>4. /\ quota' \in [day : Days, used : Tally, calls : Tally, faults : 0..MaxAIFaults]
      /\ quota'.used = quota.used /\ quota'.calls = quota.calls
  <2>1. quota \in [day : Days, used : Tally, calls : Tally, faults : 0..MaxAIFaults]
    BY RowTypes DEF AIInv
  <2>2. CASE Midnight
    <3>1. quota.day + 1 \in Days /\ quota' = [quota EXCEPT !.day = quota.day + 1]
      BY <2>1, <2>2, AIAssumption DEF Midnight, Days
    <3> QED BY <2>1, <3>1
  <2>3. CASE ~Midnight
    BY <2>1, <2>3
       DEF GetAIPolicy, DispatchPending, Analyse, PutAIPolicy, Reconfigure,
           SyncRepository
  <2> QED BY <2>2, <2>3
<1>5. TypeInv'
  BY <1>1, <1>2, <1>3, <1>4 DEF AIInv, TypeInv, AITypeOK, RunsKnown, Days
<1> QED BY <1>1, <1>4, <1>5, IdleStep DEF ReviewsKept

(* A new execution waits for its review's lock.                            *)
LEMMA WaitingType ==
  ASSUME AITypeOK, NEW r \in Nat
  PROVE  /\ Waiting(r) \in Execution /\ Waiting(r).stage = "waiting"
         /\ Waiting(r).review = r /\ Waiting(r).tries = 0
PROOF
BY DEF Waiting, Execution, AITypeOK

(* After its commit a request has sent its review or not, executes it      *)
(* itself or not.                                                          *)
LEMMA HandedStep ==
  ASSUME TypeInv, NEW q \in AIRequests, NEW r \in DOMAIN review', NEW status,
         review' \in Seq(Review), DOMAIN review \subseteq DOMAIN review',
         Handed(q, r, status)
  PROVE  /\ sent' \subseteq DOMAIN review'
         /\ run' \in [Executors -> {Idle} \cup Execution]
         /\ RunsKnown'
         /\ \A e \in Executors : run'[e] = run[e] \/ run'[e] = Idle
                                \/ (~Holds(e)' /\ run'[e].tries = 0)
PROOF
<1>1. r \in Nat
  BY DEF TypeInv
<1>2. /\ Waiting(r) \in Execution /\ Waiting(r).stage = "waiting"
      /\ Waiting(r).review = r /\ Waiting(r).tries = 0
  BY <1>1, WaitingType DEF TypeInv
<1>3. run' = run \/ run' = [run EXCEPT ![q] = Waiting(r)]
  BY DEF Handed
<1>4. sent' \subseteq DOMAIN review'
  BY DEF Handed, TypeInv, AITypeOK
<1>5. q \in Executors
  BY DEF Executors
<1>6. run' \in [Executors -> {Idle} \cup Execution]
  BY <1>2, <1>3 DEF TypeInv, AITypeOK
<1>7. \A e \in Executors : run'[e] = run[e] \/ run'[e] = Waiting(r)
  BY <1>3, <1>5 DEF TypeInv, AITypeOK
<1>8. RunsKnown'
  BY <1>2, <1>7 DEF TypeInv, RunsKnown
<1> QED BY <1>2, <1>4, <1>6, <1>7, <1>8 DEF Holds

-----------------------------------------------------------------------------
(* Requests insert a review, find one or give up.                          *)
LEMMA RequestStep ==
  ASSUME AIInv, NEW q \in AIRequests,
         \/ InsertReview(q) \/ DropRequest(q)
         \/ \E force \in BOOLEAN : AskForReview(q, force)
         \/ \E r \in DOMAIN review : FindReview(q, r) \/ LoadPending(q, r)
  PROVE  AIInv' /\ \A r \in DOMAIN review : review'[r] = review[r]
PROOF
<1> DEFINE Asking == [AIRequests -> {Idle} \cup Draft \cup [manual : DOMAIN review]]
<1> USE RowTypes DEF AIInv
<1>1. ASSUME NEW force \in BOOLEAN, AskForReview(q, force) PROVE AIInv' /\ UNCHANGED review
  <2> DEFINE same == Cardinality(SameInput(Snapshot(source, configured)))
             draft == [source |-> source, provider |-> configured, force |-> force,
                       same |-> same]
  <2>1. /\ asking' = [asking EXCEPT ![q] = draft]
        /\ UNCHANGED <<source, configured, review, sent, run, quota>>
    BY <1>1 DEF AskForReview
  <2>2. same \in Nat
    <3>1. IsFiniteSet(DOMAIN review)
      BY FS_Interval DEF TypeInv, AITypeOK
    <3>2. SameInput(Snapshot(source, configured)) \in SUBSET DOMAIN review
      BY DEF SameInput
    <3> QED BY <3>1, <3>2, FS_Subset, FS_CardinalityType
  <2>3. draft \in Draft
    BY <2>2 DEF Draft, TypeInv, AITypeOK
  <2> HIDE DEF draft
  <2>4. TypeInv'
    BY <2>1, <2>3 DEF TypeInv, AITypeOK, RunsKnown
  <2> QED BY <2>1, <2>4, IdleStep DEF ReviewsKept
<1>2. CASE DropRequest(q)
  <2>1. /\ asking' = [asking EXCEPT ![q] = Idle]
        /\ UNCHANGED <<source, configured, review, sent, run, quota>>
    BY <1>2 DEF DropRequest
  <2>2. TypeInv'
    BY <2>1 DEF TypeInv, AITypeOK, RunsKnown
  <2> QED BY <2>1, <2>2, IdleStep DEF ReviewsKept
<1>3. ASSUME NEW r \in DOMAIN review, LoadPending(q, r) PROVE AIInv' /\ UNCHANGED review
  <2>1. /\ asking' = [asking EXCEPT ![q] = [manual |-> r]]
        /\ UNCHANGED <<source, configured, review, sent, run, quota>>
    BY <1>3 DEF LoadPending
  <2>2. TypeInv'
    BY <2>1 DEF TypeInv, AITypeOK, RunsKnown
  <2> QED BY <2>1, <2>2, IdleStep DEF ReviewsKept
<1>4. ASSUME NEW row \in Review, FinishRequest(q, row)
      PROVE  /\ source' \in Source /\ UNCHANGED <<configured, quota>>
             /\ asking' \in Asking
  <2>1. Written(source.policy, asking[q].source.policy, row.policy)
          \in AIPolicies \cup {None}
    BY <1>4 DEF Written, Review, TypeInv, AITypeOK, Source
  <2> QED BY <1>4, <2>1 DEF FinishRequest, Source, TypeInv, AITypeOK
<1>5. ASSUME NEW r \in DOMAIN review, FindReview(q, r) PROVE AIInv' /\ UNCHANGED review
  <2>1. /\ UNCHANGED review /\ FinishRequest(q, review[r])
        /\ Handed(q, r, review[r].status) /\ review[r] \in Review
    BY <1>5 DEF FindReview
  <2>2. /\ source' \in Source /\ UNCHANGED <<configured, quota>>
        /\ asking' \in Asking
    BY <1>4, <2>1
  <2>3. review' \in Seq(Review)
    BY <2>1 DEF TypeInv, AITypeOK
  <2>4. /\ sent' \subseteq DOMAIN review'
        /\ run' \in [Executors -> {Idle} \cup Execution]
        /\ RunsKnown'
        /\ \A e \in Executors : run'[e] = run[e] \/ run'[e] = Idle
                                \/ (~Holds(e)' /\ run'[e].tries = 0)
    BY <2>1, <2>3, HandedStep
  <2>5. TypeInv'
    BY <2>1, <2>2, <2>4 DEF TypeInv, AITypeOK
  <2> QED BY <2>1, <2>2, <2>4, <2>5, IdleStep DEF ReviewsKept
<1>6. CASE InsertReview(q)
  <2> DEFINE row == NewReview(asking[q])
             n == Len(review) + 1
  <2>1. /\ review' = Append(review, row) /\ FinishRequest(q, row)
        /\ Handed(q, n, row.status) /\ "source" \in DOMAIN asking[q]
    BY <1>6 DEF InsertReview
  <2>2. asking[q] \in Draft
    BY <2>1, Records DEF TypeInv, AITypeOK
  <2>3. /\ row \in Review
        /\ row.status = "pending" => Allowed(row.policy, row.provider, row.private)
    <3>1. asking[q].source \in Source /\ asking[q].provider \in AIProviders
            /\ asking[q].same + 1 \in Nat
      BY <2>2 DEF Draft
    <3>2. PolicyOf(asking[q].source) \in AIPolicies
      BY <3>1, AIAssumption DEF PolicyOf, Source
    <3>3. Snapshot(asking[q].source, asking[q].provider) \in AIInputs \cup {None}
      BY <3>1 DEF Snapshot, Source
    <3>4. asking[q].source.private \in BOOLEAN
      BY <3>1 DEF Source
    <3> QED BY <3>1, <3>2, <3>3, <3>4 DEF NewReview, Review, AIStatus
  <2> HIDE DEF row
  <2>4. /\ review' \in Seq(Review) /\ DOMAIN review' = DOMAIN review \cup {n}
        /\ n \notin DOMAIN review /\ review'[n] = row
        /\ \A r \in DOMAIN review : review'[r] = review[r]
    BY <2>1, <2>3 DEF TypeInv, AITypeOK
  <2>5. /\ source' \in Source /\ UNCHANGED <<configured, quota>>
        /\ asking' \in Asking
    BY <1>4, <2>1, <2>3
  <2>6. asking' \in [AIRequests -> {Idle} \cup Draft \cup [manual : DOMAIN review']]
    BY <2>4, <2>5
  <2>7. /\ sent' \subseteq DOMAIN review'
        /\ run' \in [Executors -> {Idle} \cup Execution]
        /\ RunsKnown'
        /\ \A e \in Executors : run'[e] = run[e] \/ run'[e] = Idle
                                \/ (~Holds(e)' /\ run'[e].tries = 0)
    BY <2>1, <2>4, HandedStep
  <2>8. TypeInv'
    BY <2>4, <2>5, <2>6, <2>7 DEF TypeInv, AITypeOK
  <2>9. ReviewsKept
    BY <2>3, <2>4 DEF ReviewsKept
  <2> QED BY <2>4, <2>5, <2>7, <2>8, <2>9, IdleStep
<1> QED BY <1>1, <1>2, <1>3, <1>5, <1>6

-----------------------------------------------------------------------------
(* Executions *)

(* Taking a message takes no lock.                                         *)
LEMMA TakeStep ==
  ASSUME AIInv, NEW w \in AIWorkers, NEW r \in sent, TakeMessage(w, r)
  PROVE  AIInv' /\ UNCHANGED review
PROOF
<1> USE RowTypes DEF AIInv
<1>1. /\ run' = [run EXCEPT ![w] = Waiting(r)]
      /\ UNCHANGED <<source, configured, review, sent, asking, quota>>
  BY DEF TakeMessage
<1>2. r \in DOMAIN review /\ r \in Nat /\ w \in Executors
  BY DEF TypeInv, AITypeOK, Executors
<1>3. /\ Waiting(r) \in Execution /\ Waiting(r).stage = "waiting"
      /\ Waiting(r).review = r /\ Waiting(r).tries = 0
  BY <1>2, WaitingType DEF TypeInv
<1>4. TypeInv'
  BY <1>1, <1>2, <1>3 DEF TypeInv, AITypeOK, RunsKnown
<1>5. \A e \in Executors : run'[e] = run[e] \/ run'[e] = Idle
                                \/ (~Holds(e)' /\ run'[e].tries = 0)
  BY <1>1, <1>2, <1>3 DEF TypeInv, AITypeOK, Holds
<1> QED BY <1>1, <1>4, <1>5, IdleStep DEF ReviewsKept

(* An execution that finds its review ended, or fails, leaves it as it is. *)
LEMMA LeaveStep ==
  ASSUME AIInv, NEW e \in Executors, FindEnded(e) \/ ExecutorFails(e)
  PROVE  AIInv' /\ UNCHANGED review
PROOF
<1> USE RowTypes DEF AIInv
<1>1. /\ run' = [run EXCEPT ![e] = Idle] /\ sent' \subseteq sent
      /\ UNCHANGED <<source, configured, review, asking>>
  BY DEF FindEnded, ExecutorFails, Return, Acknowledge
<1>2. /\ quota' \in [day : Days, used : Tally, calls : Tally, faults : 0..MaxAIFaults]
      /\ quota'.used = quota.used /\ quota'.calls = quota.calls
  <2>1. quota \in [day : Days, used : Tally, calls : Tally, faults : 0..MaxAIFaults]
    BY DEF TypeInv, AITypeOK, Days
  <2>2. CASE FindEnded(e)
    BY <2>1, <2>2 DEF FindEnded
  <2>3. CASE ExecutorFails(e)
    <3>1. /\ quota.faults + 1 \in 0..MaxAIFaults
          /\ quota' = [quota EXCEPT !.faults = quota.faults + 1]
      BY <2>1, <2>3, AIAssumption DEF ExecutorFails
    <3> QED BY <2>1, <3>1
  <2> QED BY <2>2, <2>3
<1>3. TypeInv'
  BY <1>1, <1>2 DEF TypeInv, AITypeOK, RunsKnown, Days
<1>4. \A f \in Executors : run'[f] = run[f] \/ run'[f] = Idle
  BY <1>1 DEF TypeInv, AITypeOK, Holds
<1> QED BY <1>1, <1>2, <1>3, <1>4, IdleStep DEF ReviewsKept

(* An executor that takes a free lock is the only holder.                  *)
LEMMA LockStep ==
  ASSUME AIInv, NEW e \in Executors, LockPending(e)
  PROVE  AIInv' /\ UNCHANGED review
PROOF
<1> USE RowTypes DEF AIInv
<1> DEFINE locked == [run[e] EXCEPT !.stage = "locked", !.provider = configured]
<1>1. /\ run' = [run EXCEPT ![e] = locked]
      /\ UNCHANGED <<source, configured, review, sent, asking, quota>>
      /\ run[e] # Idle /\ run[e].stage = "waiting" /\ LockFree(run[e].review)
      /\ review[run[e].review].status = "pending"
  BY DEF LockPending
<1>2. /\ locked \in Execution /\ locked.review = run[e].review
      /\ locked.stage = "locked" /\ locked # Idle /\ locked.tries = run[e].tries
  BY <1>1, Records DEF Execution, TypeInv, AITypeOK
<1>3. locked.tries = 0
  BY <1>1, <1>2 DEF Cleared, Using
<1> HIDE DEF locked
<1>4. run'[e] = locked /\ \A f \in Executors : f # e => run'[f] = run[f]
  BY <1>1 DEF TypeInv, AITypeOK
<1>5. TypeInv'
  BY <1>1, <1>2 DEF TypeInv, AITypeOK, RunsKnown
<1>6. \A f \in Executors : f # e /\ Holds(f)' =>
        Holds(f) /\ run'[f] = run[f] /\ run[f].review # run[e].review
  BY <1>1, <1>4 DEF Holds, LockFree, LockHolders
<1>7. Exclusive'
  BY <1>1, <1>2, <1>4, <1>6 DEF Exclusive
<1>8. ~Using(e)' /\ \A f \in Executors : f # e => (Using(f)' <=> Using(f))
  BY <1>2, <1>4 DEF Using
<1>9. Cleared'
  BY <1>1, <1>3, <1>4, <1>8 DEF Cleared, Allowed
<1>10. ASSUME NEW p \in AIProviders, NEW d \in Days PROVE Paid(p, d)'
  <2>1. Tickets(p, d)' \subseteq Tickets(p, d)
    BY <1>4, <1>8 DEF Tickets
  <2> QED BY <1>1, <2>1, FewerTickets
<1> QED BY <1>1, <1>5, <1>7, <1>9, <1>10 DEF AllPaid

(* A holder that goes on to another stage with its lock.                   *)
LEMMA StageStep ==
  ASSUME AIInv, NEW e \in Executors, NEW next \in Execution, Holds(e),
         run' = [run EXCEPT ![e] = next],
         next.stage \in {"reserved", "calling"}, next.day \in Days,
         next.review = run[e].review, next.provider = run[e].provider,
         run[e].provider = review[run[e].review].provider,
         UNCHANGED <<source, configured, review, sent, asking>>,
         quota' \in [day : Days, used : Tally, calls : Tally, faults : 0..MaxAIFaults]
  PROVE  /\ TypeInv' /\ Exclusive' /\ Cleared'
         /\ run'[e] = next /\ Using(e)'
         /\ \A f \in Executors : f # e => run'[f] = run[f] /\ (Using(f)' <=> Using(f))
PROOF
<1> USE RowTypes DEF AIInv
<1>1. next # Idle
  BY Records
<1>2. run'[e] = next /\ \A f \in Executors : f # e => run'[f] = run[f]
  BY DEF TypeInv, AITypeOK
<1>3. TypeInv'
  BY DEF TypeInv, AITypeOK, RunsKnown, Days, Holds
<1>4. \A f \in Executors : Holds(f)' => Holds(f) /\ run'[f].review = run[f].review
  BY <1>2 DEF Holds
<1>5. Exclusive'
  BY <1>4 DEF Exclusive
<1>6. Using(e)' /\ \A f \in Executors : f # e => (Using(f)' <=> Using(f))
  BY <1>1, <1>2 DEF Using
<1>7. Cleared'
  BY <1>2, <1>6 DEF Cleared, Allowed
<1> QED BY <1>2, <1>3, <1>5, <1>6, <1>7

(* One more on one tally; the stages of an execution.                      *)
LEMMA CountedOnce ==
  ASSUME NEW tally \in Tally, NEW q \in AIProviders, NEW today \in Days
  PROVE  LET more == [tally EXCEPT ![q][today] = @ + 1]
         IN  /\ more \in Tally /\ more[q][today] = tally[q][today] + 1
             /\ \A p \in AIProviders, d \in Days :
                  p # q \/ d # today => more[p][d] = tally[p][d]
PROOF
<1> DEFINE days == [tally[q] EXCEPT ![today] = @ + 1]
<1>1. tally \in [AIProviders -> [Days -> Nat]] /\ tally[q] \in [Days -> Nat]
  BY DEF Tally, Days
<1>2. /\ days \in [Days -> Nat] /\ days[today] = tally[q][today] + 1
      /\ \A d \in Days : d # today => days[d] = tally[q][d]
  BY <1>1
<1> HIDE DEF days
<1> DEFINE more == [tally EXCEPT ![q] = days]
<1>3. /\ more \in [AIProviders -> [Days -> Nat]] /\ more[q] = days
      /\ \A p \in AIProviders : p # q => more[p] = tally[p]
  BY <1>1, <1>2
<1>4. more = [tally EXCEPT ![q][today] = @ + 1]
  BY DEF days
<1> HIDE DEF more
<1> QED BY <1>2, <1>3, <1>4 DEF Tally, Days

LEMMA Reserving ==
  ASSUME NEW x \in Execution, NEW day \in Days
  PROVE  LET next == [x EXCEPT !.stage = "reserved", !.day = day]
         IN  /\ next \in Execution /\ next.stage = "reserved" /\ next.day = day
             /\ next.review = x.review /\ next.provider = x.provider
             /\ next.tries = x.tries
PROOF
<1>1. day \in Nat
  BY AIAssumption DEF Days
<1> QED BY <1>1 DEF Execution

LEMMA Calling ==
  ASSUME NEW x \in Execution, NEW tries \in Nat
  PROVE  LET next == [x EXCEPT !.stage = "calling", !.tries = tries]
         IN  /\ next \in Execution /\ next.stage = "calling" /\ next.day = x.day
             /\ next.review = x.review /\ next.provider = x.provider
             /\ next.tries = tries
PROOF
BY DEF Execution

(* A slot is taken below the limit and pays for its executor's tickets.    *)
LEMMA SlotStep ==
  ASSUME AIInv, NEW e \in Executors, ReserveSlot(e)
  PROVE  AIInv' /\ UNCHANGED review
PROOF
<1>0. PICK q \in AIProviders, today \in Days : q = run[e].provider /\ today = quota.day
  BY RowTypes DEF ReserveSlot, AIInv, Execution
<1> DEFINE used == [quota.used EXCEPT ![q][today] = @ + 1]
           next == [run[e] EXCEPT !.stage = "reserved", !.day = today]
<1>1. /\ quota' = [quota EXCEPT !.used = used] /\ run' = [run EXCEPT ![e] = next]
      /\ UNCHANGED <<source, configured, review, sent, asking>>
      /\ Holds(e) /\ run[e].stage = "locked" /\ ~Using(e)
      /\ run[e].provider = review[run[e].review].provider
      /\ quota.used[q][today] < AIDailyLimit
  BY <1>0 DEF ReserveSlot, SameProvider, SlotFree, Holds, Using
<1>2. /\ run[e] \in Execution /\ run[e].tries = 0
      /\ quota \in [day : Days, used : Tally, calls : Tally, faults : 0..MaxAIFaults]
      /\ quota.calls[q][today] \in Nat /\ quota.used[q][today] \in Nat
  BY <1>1, RowTypes DEF AIInv, Holds, Cleared
<1>3. /\ used \in Tally /\ used[q][today] = quota.used[q][today] + 1
      /\ \A p \in AIProviders, d \in Days :
           p # q \/ d # today => used[p][d] = quota.used[p][d]
  BY <1>2, CountedOnce
<1>4. /\ next \in Execution /\ next.stage = "reserved" /\ next.day = today
      /\ next.review = run[e].review /\ next.provider = run[e].provider
      /\ next.tries = 0
  <2>1. run[e] \in Execution
    BY <1>2
  <2>2. /\ next \in Execution /\ next.stage = "reserved" /\ next.day = today
        /\ next.review = run[e].review /\ next.provider = run[e].provider
        /\ next.tries = run[e].tries
    BY <2>1, Reserving, Zenon
  <2> QED BY <1>2, <2>2
<1> HIDE DEF used, next
<1>5. /\ quota' \in [day : Days, used : Tally, calls : Tally, faults : 0..MaxAIFaults]
      /\ quota'.used = used /\ quota'.calls = quota.calls
  BY <1>1, <1>2, <1>3
<1>6. /\ TypeInv' /\ Exclusive' /\ Cleared' /\ run'[e] = next /\ Using(e)'
      /\ \A f \in Executors : f # e => run'[f] = run[f] /\ (Using(f)' <=> Using(f))
  BY <1>1, <1>2, <1>4, <1>5, StageStep
<1>7. ASSUME NEW p \in AIProviders, NEW d \in Days, p # q \/ d # today
      PROVE  Paid(p, d)'
  <2>1. Tickets(p, d)' \subseteq Tickets(p, d)
    BY <1>0, <1>4, <1>6, <1>7 DEF Tickets
  <2>2. quota'.used[p][d] = quota.used[p][d] /\ quota'.calls[p][d] = quota.calls[p][d]
    BY <1>3, <1>5, <1>7
  <2> QED BY <2>1, <2>2, FewerTickets
<1>8. Paid(q, today)'
  <2>0. PICK n \in Nat \ {0} : n = AITries[q]
    BY AIAssumption
  <2> DEFINE new == {e} \X (1..n)
             before == Tickets(q, today)
             after == Tickets(q, today)'
  <2>1. after = before \cup new
    <3>1. ASSUME NEW x \in Executors \X (1..n)
          PROVE  x \in after <=> x \in before \/ x \in new
      <4>1. x[1] \in Executors /\ x[2] \in 1..n /\ x = <<x[1], x[2]>>
        OBVIOUS
      <4>2. CASE x[1] = e
        <5>1. x \in after /\ x \in new
          BY <1>0, <1>4, <1>6, <2>0, <4>1, <4>2 DEF Tickets
        <5> QED BY <5>1
      <4>3. CASE x[1] # e
        <5>1. /\ run'[x[1]] = run[x[1]] /\ (Using(x[1])' <=> Using(x[1]))
              /\ x \notin new
          BY <1>6, <4>1, <4>3
        <5> QED BY <2>0, <5>1 DEF Tickets
      <4> QED BY <4>2, <4>3
    <3>2. /\ before \subseteq Executors \X (1..n)
          /\ after \subseteq Executors \X (1..n)
          /\ new \subseteq Executors \X (1..n)
      BY <2>0 DEF Tickets
    <3> HIDE DEF before, after, new
    <3> QED BY <3>1, <3>2
  <2>2. before \cap new = {}
    BY <1>1 DEF Tickets
  <2>3. IsFiniteSet(new) /\ Cardinality(new) = n
    <3>1. IsFiniteSet(1..n) /\ Cardinality(1..n) = n
      BY FS_Interval
    <3>2. IsFiniteSet({e}) /\ Cardinality({e}) = 1
      BY FS_Singleton
    <3>3. IsFiniteSet(new) /\ Cardinality(new) = Cardinality({e}) * Cardinality(1..n)
      BY <3>1, <3>2, FS_Product
    <3> QED BY <3>1, <3>2, <3>3
  <2>4. /\ IsFiniteSet(before)
        /\ quota.calls[q][today] + Cardinality(before) <= quota.used[q][today] * n
    BY <2>0 DEF AIInv, AllPaid, Paid
  <2> HIDE DEF before, new
  <2>5. /\ IsFiniteSet(after) /\ Cardinality(before) \in Nat
        /\ Cardinality(after) = Cardinality(before) + n
    <3>1. Cardinality(before \cap new) = 0
      BY <2>2, FS_EmptySet
    <3>2. /\ IsFiniteSet(before \cup new)
          /\ Cardinality(before \cup new) =
               Cardinality(before) + Cardinality(new) - Cardinality(before \cap new)
      BY <2>3, <2>4, FS_Union
    <3>3. Cardinality(before) \in Nat
      BY <2>4, FS_CardinalityType
    <3> HIDE DEF after
    <3> QED BY <2>1, <2>3, <3>1, <3>2, <3>3
  <2>6. /\ quota'.calls[q][today] = quota.calls[q][today]
        /\ quota'.used[q][today] = quota.used[q][today] + 1
    BY <1>3, <1>5
  <2>7. /\ quota.used[q][today] * n \in Nat
        /\ (quota.used[q][today] + 1) * n = quota.used[q][today] * n + n
    BY <1>2, Times
  <2>8. quota'.used[q][today] <= AIDailyLimit
    BY <1>1, <1>2, <2>6, AIAssumption
  <2>9. quota'.calls[q][today] + Cardinality(after) <= quota'.used[q][today] * n
    <3>1. quota'.used[q][today] * n = quota.used[q][today] * n + n
      BY <2>6, <2>7
    <3> HIDE DEF after
    <3> QED BY <1>2, <2>4, <2>5, <2>6, <2>7, <3>1
  <2> QED BY <2>0, <2>5, <2>8, <2>9 DEF Paid
<1>9. \A p \in AIProviders, d \in Days : Paid(p, d)'
  BY <1>7, <1>8
<1> QED BY <1>1, <1>6, <1>9 DEF AIInv, AllPaid

(* A call is paid for by the next ticket of its executor.                  *)
LEMMA CallStep ==
  ASSUME AIInv, NEW e \in Executors, CallProvider(e)
  PROVE  AIInv' /\ UNCHANGED review
PROOF
<1>0. PICK q \in AIProviders, day \in Days, t \in Nat :
        q = run[e].provider /\ day = run[e].day /\ t = run[e].tries
  BY RowTypes DEF CallProvider, AIInv, Cleared, Using, Execution
<1> DEFINE calls == [quota.calls EXCEPT ![q][day] = @ + 1]
           next == [run[e] EXCEPT !.stage = "calling", !.tries = t + 1]
<1>1. /\ quota' = [quota EXCEPT !.calls = calls] /\ run' = [run EXCEPT ![e] = next]
      /\ UNCHANGED <<source, configured, review, sent, asking>>
      /\ Holds(e) /\ Using(e) /\ t < AITries[q]
  BY <1>0 DEF CallProvider, Holds, Using
<1>2. /\ run[e] \in Execution
      /\ run[e].provider = review[run[e].review].provider
      /\ quota \in [day : Days, used : Tally, calls : Tally, faults : 0..MaxAIFaults]
      /\ quota.calls[q][day] \in Nat /\ quota.used[q][day] \in Nat
  BY <1>1, RowTypes DEF AIInv, Holds, Cleared
<1>3. /\ calls \in Tally /\ calls[q][day] = quota.calls[q][day] + 1
      /\ \A p \in AIProviders, d \in Days :
           p # q \/ d # day => calls[p][d] = quota.calls[p][d]
  BY <1>2, CountedOnce
<1>4. /\ next \in Execution /\ next.stage = "calling" /\ next.day = day
      /\ next.review = run[e].review /\ next.provider = run[e].provider
      /\ next.tries = t + 1
  <2>1. run[e] \in Execution /\ t + 1 \in Nat
    BY <1>2
  <2>2. /\ next \in Execution /\ next.stage = "calling" /\ next.day = run[e].day
        /\ next.review = run[e].review /\ next.provider = run[e].provider
        /\ next.tries = t + 1
    BY <2>1, Calling, Zenon
  <2> QED BY <1>0, <2>2
<1> HIDE DEF calls, next
<1>5. /\ quota' \in [day : Days, used : Tally, calls : Tally, faults : 0..MaxAIFaults]
      /\ quota'.calls = calls /\ quota'.used = quota.used
  BY <1>1, <1>2, <1>3
<1>6. /\ TypeInv' /\ Exclusive' /\ Cleared' /\ run'[e] = next /\ Using(e)'
      /\ \A f \in Executors : f # e => run'[f] = run[f] /\ (Using(f)' <=> Using(f))
  BY <1>1, <1>2, <1>4, <1>5, StageStep
<1>7. ASSUME NEW p \in AIProviders, NEW d \in Days, p # q \/ d # day
      PROVE  Paid(p, d)'
  <2>1. Tickets(p, d)' \subseteq Tickets(p, d)
    BY <1>0, <1>4, <1>6, <1>7 DEF Tickets
  <2>2. quota'.used[p][d] = quota.used[p][d] /\ quota'.calls[p][d] = quota.calls[p][d]
    BY <1>3, <1>5, <1>7
  <2> QED BY <2>1, <2>2, FewerTickets
<1>8. Paid(q, day)'
  <2>0. PICK n \in Nat : n = AITries[q]
    BY AIAssumption
  <2> DEFINE ticket == <<e, t + 1>>
             before == Tickets(q, day)
             after == Tickets(q, day)'
  <2>1. ticket \in before
    BY <1>0, <1>1, <2>0 DEF Tickets
  <2>2. after = before \ {ticket}
    <3>1. ASSUME NEW x \in Executors \X (1..n)
          PROVE  x \in after <=> x \in before /\ x # ticket
      <4>1. x[1] \in Executors /\ x[2] \in 1..n /\ x = <<x[1], x[2]>>
        OBVIOUS
      <4>2. CASE x[1] = e
        <5>1. x \in after <=> t + 1 < x[2]
          BY <1>0, <1>4, <1>6, <2>0, <4>1, <4>2 DEF Tickets
        <5>2. x \in before <=> t < x[2]
          BY <1>0, <1>1, <2>0, <4>1, <4>2 DEF Tickets
        <5>3. x = ticket <=> x[2] = t + 1
          BY <4>1, <4>2
        <5> QED BY <4>1, <5>1, <5>2, <5>3
      <4>3. CASE x[1] # e
        <5>1. /\ run'[x[1]] = run[x[1]] /\ (Using(x[1])' <=> Using(x[1]))
              /\ x # ticket
          BY <1>6, <4>1, <4>3
        <5> QED BY <2>0, <5>1 DEF Tickets
      <4> QED BY <4>2, <4>3
    <3>2. before \subseteq Executors \X (1..n) /\ after \subseteq Executors \X (1..n)
      BY <2>0 DEF Tickets
    <3> HIDE DEF before, after, ticket
    <3> QED BY <3>1, <3>2
  <2>3. /\ IsFiniteSet(before) /\ quota.used[q][day] <= AIDailyLimit
        /\ quota.calls[q][day] + Cardinality(before) <= quota.used[q][day] * n
    BY <2>0 DEF AIInv, AllPaid, Paid
  <2> HIDE DEF before, ticket
  <2>4. /\ IsFiniteSet(after) /\ Cardinality(before) \in Nat
        /\ Cardinality(after) = Cardinality(before) - 1
    BY <2>1, <2>2, <2>3, FS_RemoveElement, FS_CardinalityType
  <2>5. /\ quota'.calls[q][day] = quota.calls[q][day] + 1
        /\ quota'.used[q][day] = quota.used[q][day]
    BY <1>3, <1>5
  <2>6. quota'.calls[q][day] + Cardinality(after) <= quota'.used[q][day] * n
    <3>1. quota.used[q][day] * n \in Nat
      BY <1>2, Times
    <3> HIDE DEF after
    <3> QED BY <1>2, <2>3, <2>4, <2>5, <3>1
  <2> QED BY <2>0, <2>3, <2>4, <2>5, <2>6 DEF Paid
<1>9. \A p \in AIProviders, d \in Days : Paid(p, d)'
  BY <1>7, <1>8
<1> QED BY <1>1, <1>6, <1>9 DEF AIInv, AllPaid

(* A review's holder ends it and lets go of it.                            *)
LEMMA EndStep ==
  ASSUME AIInv, NEW e \in Executors, NEW status \in {"complete", "failed"},
         Holds(e), Ends(e, status), UNCHANGED quota
  PROVE  AIInv' /\ \A r \in DOMAIN review :
           review[r].status # "pending" => review'[r] = review[r]
PROOF
<1> USE RowTypes DEF AIInv
<1> DEFINE m == run[e].review
           row == [review[m] EXCEPT !.status = status]
<1>1. /\ review' = [review EXCEPT ![m] = row] /\ run' = [run EXCEPT ![e] = Idle]
      /\ sent' \subseteq sent /\ UNCHANGED <<source, configured, asking, quota>>
  BY DEF Ends, Return, Acknowledge
<1>2. m \in DOMAIN review /\ review[m].status = "pending"
  BY DEF Holds, Exclusive
<1>3. row \in Review /\ row.status = status
  BY <1>2 DEF Review, AIStatus
<1> HIDE DEF row
<1>4. /\ review' \in Seq(Review) /\ DOMAIN review' = DOMAIN review
      /\ review'[m] = row /\ \A r \in DOMAIN review : r # m => review'[r] = review[r]
  BY <1>1, <1>2, <1>3 DEF TypeInv, AITypeOK
<1>5. \A f \in Executors : run'[f] # Idle => f # e /\ run'[f] = run[f]
  BY <1>1 DEF TypeInv, AITypeOK
<1>6. TypeInv'
  <2>1. run' \in [Executors -> {Idle} \cup Execution]
    BY <1>1 DEF TypeInv, AITypeOK
  <2> QED BY <1>1, <1>4, <1>5, <2>1 DEF TypeInv, AITypeOK, RunsKnown
<1>7. \A f \in Executors : Holds(f)' =>
        Holds(f) /\ run'[f] = run[f] /\ review'[run[f].review] = review[run[f].review]
  BY <1>4, <1>5 DEF Holds, Exclusive
<1>8. Exclusive'
  BY <1>7 DEF Exclusive
<1>9. Cleared'
  <2>1. \A f \in Executors : Using(f)' => Using(f) /\ run'[f] = run[f]
    BY <1>5 DEF Using
  <2>2. \A f \in Executors : run'[f] # Idle /\ ~Using(f)' => run'[f].tries = 0
    BY <1>5 DEF Cleared, Using
  <2>3. \A r \in DOMAIN review' : review'[r].status = "pending" =>
          review'[r] = review[r]
    BY <1>3, <1>4
  <2> QED BY <1>4, <1>7, <2>1, <2>2, <2>3 DEF Cleared, Using, Holds, Allowed
<1>10. ASSUME NEW p \in AIProviders, NEW d \in Days PROVE Paid(p, d)'
  <2>1. Tickets(p, d)' \subseteq Tickets(p, d)
    BY <1>5 DEF Tickets, Using
  <2> QED BY <1>1, <2>1, FewerTickets
<1> QED BY <1>2, <1>4, <1>6, <1>8, <1>9, <1>10 DEF AllPaid

(* A manual outcome finds a pending review that nobody holds.              *)
LEMMA PostStep ==
  ASSUME AIInv, NEW q \in AIRequests, NEW status \in {"complete", "failed"},
         PostOutcome(q, status)
  PROVE  AIInv' /\ \A r \in DOMAIN review :
           review[r].status # "pending" => review'[r] = review[r]
PROOF
<1> USE RowTypes DEF AIInv
<1> DEFINE m == asking[q].manual
           row == [review[m] EXCEPT !.status = status]
<1>1. /\ review' = [review EXCEPT ![m] = row] /\ asking' = [asking EXCEPT ![q] = Idle]
      /\ UNCHANGED <<source, configured, sent, run, quota>>
      /\ review[m].status = "pending" /\ LockFree(m) /\ "manual" \in DOMAIN asking[q]
  BY DEF PostOutcome, ProtectedRecord
<1>2. m \in DOMAIN review
  <2>1. asking[q] \in [manual : DOMAIN review]
    BY <1>1, Records DEF TypeInv, AITypeOK
  <2> QED BY <2>1
<1>3. row \in Review /\ row.status = status
  BY <1>2 DEF Review, AIStatus
<1> HIDE DEF row
<1>4. /\ review' \in Seq(Review) /\ DOMAIN review' = DOMAIN review
      /\ review'[m] = row /\ \A r \in DOMAIN review : r # m => review'[r] = review[r]
  BY <1>1, <1>2, <1>3 DEF TypeInv, AITypeOK
<1>5. TypeInv'
  BY <1>1, <1>4 DEF TypeInv, AITypeOK, RunsKnown
<1>6. \A f \in Executors : Holds(f)' =>
        Holds(f) /\ review'[run[f].review] = review[run[f].review]
  BY <1>1, <1>4 DEF Holds, LockFree, LockHolders
<1>7. Exclusive'
  BY <1>1, <1>6 DEF Exclusive
<1>8. Cleared'
  <2>1. \A r \in DOMAIN review' : review'[r].status = "pending" =>
          review'[r] = review[r]
    BY <1>3, <1>4
  <2> QED BY <1>1, <1>4, <1>6, <2>1 DEF Cleared, Using, Holds, Allowed
<1>9. \A p \in AIProviders, d \in Days : Paid(p, d)'
  BY <1>1, FewerTickets DEF Tickets, Using
<1> QED BY <1>1, <1>4, <1>5, <1>7, <1>8, <1>9 DEF AllPaid

-----------------------------------------------------------------------------
(* Every step keeps the invariant and the outcomes.                        *)
LEMMA AIStep ==
  ASSUME AIInv, [AINext]_aiVars
  PROVE  AIInv' /\ \A r \in DOMAIN review :
           review[r].status # "pending" => review'[r] = review[r]
PROOF
<1> DEFINE Kept == \A r \in DOMAIN review :
             review[r].status # "pending" => review'[r] = review[r]
<1>1. CASE UNCHANGED aiVars
  <2>1. ReviewsKept /\ UNCHANGED <<run, quota>>
    BY <1>1 DEF aiVars, ReviewsKept
  <2>2. TypeInv'
    BY <1>1 DEF aiVars, AIInv, TypeInv, AITypeOK, RunsKnown
  <2> QED BY <2>1, <2>2, IdleStep DEF ReviewsKept
<1>2. CASE \/ GetAIPolicy \/ Midnight \/ DispatchPending
           \/ \E i \in AIInputs \cup {None} : Analyse(i)
           \/ \E pol \in AIPolicies : PutAIPolicy(pol)
           \/ \E p \in AIProviders : Reconfigure(p)
           \/ \E private \in BOOLEAN : SyncRepository(private)
  BY <1>2, WorldStep
<1>3. ASSUME NEW q \in AIRequests,
             \/ InsertReview(q) \/ DropRequest(q)
             \/ \E force \in BOOLEAN : AskForReview(q, force)
             \/ \E r \in DOMAIN review : FindReview(q, r) \/ LoadPending(q, r)
      PROVE  AIInv' /\ Kept
  BY <1>3, RequestStep
<1>4. ASSUME NEW q \in AIRequests, NEW status \in {"complete", "failed"},
             PostOutcome(q, status)
      PROVE  AIInv' /\ Kept
  BY <1>4, PostStep
<1>5. ASSUME NEW w \in AIWorkers, NEW r \in sent, TakeMessage(w, r)
      PROVE  AIInv' /\ Kept
  BY <1>5, TakeStep
<1>6. ASSUME NEW e \in Executors, ExecutorGoesOn(e), ~FindEnded(e)
      PROVE  AIInv' /\ Kept
  <2>1. CASE LockPending(e)
    BY <2>1, LockStep
  <2>2. CASE ReserveSlot(e)
    BY <2>2, SlotStep
  <2>3. CASE CallProvider(e)
    BY <2>3, CallStep
  <2>4. CASE RefuseExecution(e)
    <3>1. Holds(e) /\ Ends(e, "failed") /\ UNCHANGED quota
      BY <2>4 DEF RefuseExecution, RefusedStatus, Holds
    <3> QED BY <3>1, EndStep
  <2>5. ASSUME NEW status \in {"complete", "failed"}, ProviderAnswers(e, status)
        PROVE  AIInv' /\ Kept
    <3>1. Holds(e) /\ Ends(e, status) /\ UNCHANGED quota
      BY <2>5 DEF ProviderAnswers, Holds
    <3> QED BY <3>1, EndStep
  <2> QED BY <1>6, <2>1, <2>2, <2>3, <2>4, <2>5 DEF ExecutorGoesOn
<1>7. ASSUME NEW q \in AIRequests,
             \/ InsertReview(q) \/ DropRequest(q)
             \/ \E force \in BOOLEAN : AskForReview(q, force)
             \/ \E r \in DOMAIN review : FindReview(q, r) \/ LoadPending(q, r)
             \/ \E status \in {"complete", "failed"} : PostOutcome(q, status)
      PROVE  AIInv' /\ Kept
  BY <1>3, <1>4, <1>7
<1>8. ASSUME NEW e \in Executors, ExecutorGoesOn(e) \/ ExecutorFails(e)
      PROVE  AIInv' /\ Kept
  <2>1. CASE FindEnded(e) \/ ExecutorFails(e)
    BY <2>1, LeaveStep
  <2>2. CASE ExecutorGoesOn(e) /\ ~FindEnded(e)
    BY <1>6, <2>2
  <2> QED BY <1>8, <2>1, <2>2
<1> QED
  <2>1. CASE \E w \in AIWorkers, r \in sent : TakeMessage(w, r)
    BY <1>5, <2>1
  <2>2. CASE \E e \in Executors : ExecutorGoesOn(e) \/ ExecutorFails(e)
    BY <1>8, <2>2
  <2> QED BY <1>1, <1>2, <1>7, <2>1, <2>2 DEF AINext

(* The invariant holds in every state.                                     *)
LEMMA AIInvariant == AISpec => []AIInv
PROOF
<1>1. AIInv /\ [AINext]_aiVars => AIInv'
  BY AIStep
<1> QED BY <1>1, AIStart, PTL DEF AISpec

(* However often a review's message is sent, whatever crashes: at most one *)
(* executor is between the status check and the commit of its outcome.     *)
THEOREM OneHolder == AISpec => []OneExecutionAtATime
PROOF
<1>1. ASSUME AIInv PROVE OneExecutionAtATime
  <2> SUFFICES ASSUME NEW r \in DOMAIN review
               PROVE  Cardinality(LockHolders(r)) <= 1
    BY DEF OneExecutionAtATime
  <2>1. CASE LockHolders(r) = {}
    BY <2>1, FS_EmptySet
  <2>2. CASE LockHolders(r) # {}
    <3>1. PICK e \in LockHolders(r) : TRUE
      BY <2>2
    <3>2. LockHolders(r) = {e}
      BY <1>1, <3>1 DEF LockHolders, AIInv, Exclusive, Holds
    <3>3. Cardinality({e}) = 1
      BY FS_Singleton
    <3> QED BY <3>2, <3>3
  <2> QED BY <2>1, <2>2
<1> QED BY <1>1, AIInvariant, PTL

(* No duplicate message, retry or manual completion changes a review that  *)
(* ended.                                                                  *)
THEOREM EndedReviewsKept == AISpec => OutcomesFinal
PROOF
<1>1. AIInv /\ [AINext]_aiVars =>
        [\A r \in DOMAIN review :
           review[r].status # "pending" => review'[r] = review[r]]_aiVars
  BY AIStep
<1> QED BY <1>1, AIInvariant, PTL DEF AISpec, OutcomesFinal

(* A slot is reserved, and a provider called, only where the policy allows *)
(* it for the visibility that the request recorded, though policy, provider*)
(* and visibility change meanwhile.                                        *)
THEOREM ProvidersAllowed == AISpec => []PrivacyKept
PROOF
<1>1. ASSUME AIInv PROVE PrivacyKept
  <2> SUFFICES ASSUME NEW e \in Executors, Using(e)
               PROVE  LET row == review[run[e].review]
                      IN Allowed(row.policy, run[e].provider, row.private)
    BY DEF PrivacyKept, Using
  <2>1. /\ run[e].review \in DOMAIN review
        /\ review[run[e].review].status = "pending"
        /\ run[e].provider = review[run[e].review].provider
    BY <1>1 DEF AIInv, TypeInv, RunsKnown, Exclusive, Cleared, Using, Holds
  <2> QED BY <1>1, <2>1 DEF AIInv, Cleared
<1> QED BY <1>1, AIInvariant, PTL

(* A provider is not called more often on a day than the limit's slots, a  *)
(* review's models tried once in each, allow - across crashes, retries,    *)
(* midnight and changes of the provider.                                   *)
THEOREM CallsLimited == AISpec => []DailyLimitKept
PROOF
<1>1. ASSUME AIInv PROVE DailyLimitKept
  <2> SUFFICES ASSUME NEW p \in AIProviders, NEW d \in Days
               PROVE  quota.calls[p][d] <= AIDailyLimit * AITries[p]
    BY DEF DailyLimitKept, Days
  <2>1. Paid(p, d)
    BY <1>1 DEF AIInv, AllPaid
  <2>2. Cardinality(Tickets(p, d)) \in Nat
    BY <2>1, FS_CardinalityType DEF Paid
  <2>3. quota.calls[p][d] \in Nat /\ quota.used[p][d] \in Nat
    BY <1>1, RowTypes DEF AIInv
  <2>4. AIDailyLimit \in Nat /\ AITries[p] \in Nat
    BY AIAssumption
  <2>5. /\ quota.used[p][d] * AITries[p] <= AIDailyLimit * AITries[p]
        /\ quota.used[p][d] * AITries[p] \in Nat
        /\ AIDailyLimit * AITries[p] \in Nat
    BY <2>1, <2>3, <2>4, Times DEF Paid
  <2> QED BY <2>1, <2>2, <2>3, <2>5 DEF Paid
<1> QED BY <1>1, AIInvariant, PTL

-----------------------------------------------------------------------------
(* Privacy while no repository changes its visibility *)

(* What requests loaded and reviews record is what the repository still is.*)
Visible ==
  /\ \A r \in DOMAIN review : review[r].private = source.private
  /\ \A q \in AIRequests :
       "source" \in DOMAIN asking[q] => asking[q].source.private = source.private

(* A step after which no draft is new and reviews say what they said.      *)
LEMMA VisibleStep ==
  ASSUME Visible, source'.private = source.private,
         \A r \in DOMAIN review' : review'[r].private = source.private,
         \A q \in AIRequests : \/ asking'[q] = asking[q]
                               \/ "source" \notin DOMAIN asking'[q]
                               \/ asking'[q].source = source
  PROVE  Visible'
PROOF
BY DEF Visible

(* A request gives up, finishes or loads what there is.                    *)
LEMMA VisibleRequests ==
  ASSUME AIInv, Visible, source'.private = source.private, NEW q \in AIRequests,
         \/ InsertReview(q) \/ DropRequest(q)
         \/ \E force \in BOOLEAN : AskForReview(q, force)
         \/ \E r \in DOMAIN review : FindReview(q, r) \/ LoadPending(q, r)
         \/ \E status \in {"complete", "failed"} : PostOutcome(q, status)
  PROVE  Visible'
PROOF
<1>1. "source" \notin DOMAIN Idle
  BY DEF Idle
<1>2. asking \in [AIRequests -> {Idle} \cup Draft \cup [manual : DOMAIN review]]
  BY DEF AIInv, TypeInv, AITypeOK
<1>3. ASSUME asking' = [asking EXCEPT ![q] = Idle]
      PROVE  \A p \in AIRequests :
               asking'[p] = asking[p] \/ "source" \notin DOMAIN asking'[p]
  BY <1>1, <1>2, <1>3
<1>4. ASSUME UNCHANGED review
      PROVE  \A r \in DOMAIN review' : review'[r].private = source.private
  BY <1>4 DEF Visible
<1>5. CASE DropRequest(q)
  BY <1>3, <1>4, <1>5, VisibleStep DEF DropRequest
<1>6. ASSUME NEW r \in DOMAIN review, FindReview(q, r) PROVE Visible'
  BY <1>3, <1>4, <1>6, VisibleStep DEF FindReview, FinishRequest
<1>7. ASSUME NEW force \in BOOLEAN, AskForReview(q, force) PROVE Visible'
  <2> DEFINE draft == [source |-> source, provider |-> configured, force |-> force,
                       same |-> Cardinality(SameInput(Snapshot(source, configured)))]
  <2>1. asking' = [asking EXCEPT ![q] = draft] /\ draft.source = source
    BY <1>7 DEF AskForReview
  <2> HIDE DEF draft
  <2>2. \A p \in AIRequests : asking'[p] = asking[p] \/ asking'[p].source = source
    BY <1>2, <2>1
  <2>3. UNCHANGED review
    BY <1>7 DEF AskForReview
  <2> QED BY <1>4, <2>2, <2>3, VisibleStep
<1>8. ASSUME NEW r \in DOMAIN review, LoadPending(q, r) PROVE Visible'
  <2>1. asking' = [asking EXCEPT ![q] = [manual |-> r]] /\ UNCHANGED review
    BY <1>8 DEF LoadPending
  <2>2. \A p \in AIRequests : asking'[p] = asking[p] \/ "source" \notin DOMAIN asking'[p]
    BY <1>2, <2>1
  <2> QED BY <1>4, <2>1, <2>2, VisibleStep
<1>9. CASE InsertReview(q)
  <2> DEFINE row == NewReview(asking[q])
  <2>1. /\ review' = Append(review, row) /\ asking' = [asking EXCEPT ![q] = Idle]
        /\ "source" \in DOMAIN asking[q]
    BY <1>9 DEF InsertReview, FinishRequest
  <2>2. row.private = source.private
    BY <2>1 DEF NewReview, Visible
  <2> HIDE DEF row
  <2>3. /\ DOMAIN review' = DOMAIN review \cup {Len(review) + 1}
        /\ review'[Len(review) + 1] = row
        /\ \A r \in DOMAIN review : review'[r] = review[r]
    BY <2>1 DEF AIInv, TypeInv, AITypeOK
  <2>4. \A r \in DOMAIN review' : review'[r].private = source.private
    BY <2>2, <2>3 DEF Visible
  <2> QED BY <1>3, <2>1, <2>4, VisibleStep
<1>10. ASSUME NEW status \in {"complete", "failed"}, PostOutcome(q, status)
       PROVE  Visible'
  <2>1. /\ \E m : review' = [review EXCEPT ![m].status = status]
        /\ asking' = [asking EXCEPT ![q] = Idle]
    BY <1>10 DEF PostOutcome
  <2>2. \A r \in DOMAIN review' : review'[r].private = source.private
    BY <2>1, RowTypes DEF AIInv, Visible, Review
  <2> QED BY <1>3, <2>1, <2>2, VisibleStep
<1> QED BY <1>5, <1>6, <1>7, <1>8, <1>9, <1>10

(* Every step keeps the visibility known if it leaves it as it is.         *)
LEMMA VisibilityKnown ==
  ASSUME AIInv, Visible, [AINext]_aiVars, [source'.private = source.private]_aiVars
  PROVE  Visible'
PROOF
<1>0. source'.private = source.private
  BY DEF aiVars
<1>1. CASE \/ GetAIPolicy \/ Midnight \/ DispatchPending
           \/ \E i \in AIInputs \cup {None} : Analyse(i)
           \/ \E pol \in AIPolicies : PutAIPolicy(pol)
           \/ \E p \in AIProviders : Reconfigure(p)
           \/ \E private \in BOOLEAN : SyncRepository(private)
           \/ \E w \in AIWorkers, r \in sent : TakeMessage(w, r)
           \/ UNCHANGED aiVars
  <2>1. UNCHANGED <<review, asking>>
    BY <1>1 DEF GetAIPolicy, Midnight, DispatchPending, Analyse, PutAIPolicy,
       Reconfigure, SyncRepository, TakeMessage, aiVars
  <2> QED BY <1>0, <2>1 DEF Visible
<1>2. ASSUME NEW e \in Executors, ExecutorGoesOn(e) \/ ExecutorFails(e) PROVE Visible'
  <2>1. UNCHANGED asking
    BY <1>2 DEF ExecutorGoesOn, ExecutorFails, FindEnded, LockPending, ReserveSlot,
       RefuseExecution, CallProvider, ProviderAnswers, Ends
  <2>2. UNCHANGED review \/ \E m, status : review' = [review EXCEPT ![m].status = status]
    BY <1>2 DEF ExecutorGoesOn, ExecutorFails, FindEnded, LockPending, ReserveSlot,
       RefuseExecution, CallProvider, ProviderAnswers, Ends
  <2>3. \A r \in DOMAIN review' : review'[r].private = source.private
    BY <2>2, RowTypes DEF AIInv, Visible, Review
  <2> QED BY <1>0, <2>1, <2>3, VisibleStep
<1>3. ASSUME NEW q \in AIRequests,
             \/ InsertReview(q) \/ DropRequest(q)
             \/ \E force \in BOOLEAN : AskForReview(q, force)
             \/ \E r \in DOMAIN review : FindReview(q, r) \/ LoadPending(q, r)
             \/ \E status \in {"complete", "failed"} : PostOutcome(q, status)
      PROVE  Visible'
  BY <1>0, <1>3, VisibleRequests
<1> QED BY <1>1, <1>2, <1>3 DEF AINext

(* As long as the repository stays public or private, nothing of a private *)
(* one is sent that its policy did not opt in: a change of visibility      *)
(* while a review is pending is all that breaks the promise.               *)
THEOREM NothingPrivateSent ==
  AISpec /\ [][source'.private = source.private]_aiVars => PrivateNeverSent
PROOF
<1>1. AIInit => Visible
  BY DEF AIInit, Visible, Idle
<1>2. AIInv /\ Visible /\ [AINext]_aiVars /\ [source'.private = source.private]_aiVars
        => Visible'
  BY VisibilityKnown
<1>3. AIInv /\ Visible =>
        [\A e \in Executors : CallProvider(e) =>
           Allowed(review[run[e].review].policy, run[e].provider, source.private)]_aiVars
  <2> SUFFICES ASSUME AIInv, Visible, NEW e \in Executors, CallProvider(e)
               PROVE  Allowed(review[run[e].review].policy, run[e].provider, source.private)
    OBVIOUS
  <2>1. Holds(e) /\ Using(e)
    BY DEF CallProvider, Holds, Using
  <2>2. /\ run[e].review \in DOMAIN review
        /\ review[run[e].review].status = "pending"
        /\ run[e].provider = review[run[e].review].provider
    BY <2>1 DEF AIInv, TypeInv, RunsKnown, Exclusive, Cleared, Holds
  <2> QED BY <2>2 DEF AIInv, Cleared, Visible
<1> QED BY <1>1, <1>2, <1>3, AIInvariant, PTL DEF AISpec, PrivateNeverSent

-----------------------------------------------------------------------------
(* Notifications *)

(* A notification whose sending was tried in a batch not yet committed.    *)
Tried(n) == \E x \in Beats : batch[x][n] \in {"sent", "error"}

(* What nobody holds changes hands; what somebody holds is due.            *)
HeldDue ==
  /\ \A x, y \in Beats, n \in Notes : n \in HeldBy(x) /\ n \in HeldBy(y) => x = y
  /\ \A x \in Beats, n \in Notes : n \in HeldBy(x) => n \in Due

(* Notifications come with their event.                                    *)
NotesAnnounced == \A n \in Notes : note[n] # None => n[1] \in announced

(* A message beyond the counted attempts is in a batch, or was in one that *)
(* is lost.                                                                *)
MailBudget ==
  \A n \in Notes : mail[n] <= Counted(n) + (IF Tried(n) THEN 1 ELSE 0) + lost

NoteInv == NotificationsTypeOK /\ HeldDue /\ NotesAnnounced /\ MailBudget

(* What the types say of the rows in use.                                  *)
LEMMA NoteTypes ==
  ASSUME NotificationsTypeOK
  PROVE  /\ note \in [Notes -> NoteRow \cup {None}]
         /\ batch \in [Beats -> [Notes -> Outcome]]
         /\ mail \in [Notes -> Nat] /\ lost \in Nat
         /\ \A n \in Notes : Counted(n) \in Nat
         /\ \A n \in Notes : note[n] # None => note[n] \in NoteRow
PROOF
<1>1. /\ note \in [Notes -> NoteRow \cup {None}]
      /\ batch \in [Beats -> [Notes -> Outcome]]
      /\ mail \in [Notes -> Nat] /\ lost \in Nat
  BY NotificationAssumption DEF NotificationsTypeOK
<1>2. ASSUME NEW n \in Notes PROVE Counted(n) \in Nat
  <2>1. CASE note[n] = None
    BY <2>1 DEF Counted
  <2>2. CASE note[n] # None
    <3>1. note[n] \in NoteRow
      BY <1>1, <2>2
    <3> QED BY <2>2, <3>1 DEF Counted, NoteRow
  <2> QED BY <2>1, <2>2
<1> QED BY <1>1, <1>2

(* Steps of emitters that announce nothing.                                *)
LEMMA EmitterSteps ==
  ASSUME NoteInv, NEW e \in Emitters,
         (\E k \in Events : FindEventNew(e, k)) \/ RollBackEvent(e)
  PROVE  NoteInv'
PROOF
<1>1. UNCHANGED <<policies, announced, note, batch, mail, lost>>
  BY DEF FindEventNew, RollBackEvent
<1>2. emitting' \in [Emitters -> {Idle} \cup Emission]
  <2>1. emitting \in [Emitters -> {Idle} \cup Emission]
    BY DEF NoteInv, NotificationsTypeOK
  <2>2. CASE RollBackEvent(e)
    BY <2>1, <2>2 DEF RollBackEvent
  <2>3. ASSUME NEW k \in Events, FindEventNew(e, k)
        PROVE  emitting' \in [Emitters -> {Idle} \cup Emission]
    <3>1. [event |-> k, new |-> Channels \ policies] \in Emission
      BY DEF Emission
    <3> QED BY <2>1, <2>3, <3>1 DEF FindEventNew
  <2> QED BY <2>2, <2>3
<1> QED BY <1>1, <1>2 DEF NoteInv, NotificationsTypeOK, HeldDue, HeldBy, Due,
           NotesAnnounced, MailBudget, Counted, Tried

(* A new event adds its notifications, and touches no other.               *)
LEMMA CommitEventStep ==
  ASSUME NoteInv, NEW e \in Emitters, CommitEvent(e)
  PROVE  NoteInv'
PROOF
<1> DEFINE k == emitting[e].event
           fresh == [status |-> "pending", attempts |-> 0, retry |-> "now"]
           added == {n \in Notes : n[1] = k /\ n[3] \notin Disabled}
<1>1. /\ emitting[e] # Idle /\ k \notin announced
      /\ announced' = announced \cup {k}
      /\ policies' = policies \cup emitting[e].new
      /\ note' = [n \in Notes |-> IF n \in added THEN fresh ELSE note[n]]
      /\ emitting' = [emitting EXCEPT ![e] = Idle]
      /\ UNCHANGED <<batch, mail, lost>>
  BY DEF CommitEvent
<1>2. NotificationsTypeOK
  BY DEF NoteInv
<1>3. fresh \in NoteRow /\ fresh # None /\ fresh.attempts = 0
  <2>1. fresh \in NoteRow
    BY DEF NoteRow, Retry
  <2> QED BY <2>1, NullAssumption
<1>4. k \in Events /\ emitting[e].new \subseteq Channels
  <2>1. emitting[e] \in Emission
    BY <1>1, <1>2 DEF NotificationsTypeOK
  <2> QED BY <2>1 DEF Emission
<1>5. \A n \in added : note[n] = None /\ n[1] = k
  BY <1>1 DEF NoteInv, NotesAnnounced
<1>6. \A n \in Notes \ added : note'[n] = note[n]
  BY <1>1
<1>7. \A n \in added : note'[n] = fresh
  BY <1>1
<1> HIDE DEF fresh, added, k
<1>8. NotificationsTypeOK'
  <2>1. note' \in [Notes -> NoteRow \cup {None}]
    BY <1>1, <1>2, <1>3 DEF NotificationsTypeOK
  <2> QED BY <1>1, <1>2, <1>4, <2>1 DEF NotificationsTypeOK
<1>9. HeldDue'
  BY <1>1, <1>5, <1>6 DEF NoteInv, HeldDue, HeldBy, Due
<1>10. NotesAnnounced'
  BY <1>1, <1>5, <1>6 DEF NoteInv, NotesAnnounced
<1>11. \A n \in Notes : Counted(n)' = Counted(n)
  BY <1>3, <1>5, <1>6, <1>7 DEF Counted
<1>12. MailBudget'
  BY <1>1, <1>11 DEF NoteInv, MailBudget, Tried
<1> QED BY <1>8, <1>9, <1>10, <1>12 DEF NoteInv

(* A dispatcher locks what is due and nobody else holds.                   *)
LEMMA SelectStep ==
  ASSUME NoteInv, NEW x \in Beats, SelectDue(x)
  PROVE  NoteInv'
PROOF
<1> DEFINE taken == [n \in Notes |-> IF n \in Selectable THEN "unsent" ELSE "free"]
<1>1. /\ HeldBy(x) = {}
      /\ batch' = [batch EXCEPT ![x] = taken]
      /\ UNCHANGED <<policies, announced, note, emitting, mail, lost>>
  BY DEF SelectDue
<1>2. NotificationsTypeOK /\ batch \in [Beats -> [Notes -> Outcome]]
  BY NoteTypes DEF NoteInv
<1>3. /\ taken \in [Notes -> Outcome]
      /\ \A n \in Notes : /\ taken[n] # "free" => n \in Selectable
                          /\ taken[n] \notin {"sent", "error"}
  BY DEF Outcome
<1> HIDE DEF taken
<1>4. batch'[x] = taken /\ \A y \in Beats \ {x} : batch'[y] = batch[y]
  BY <1>1, <1>2
<1>5. NotificationsTypeOK'
  BY <1>1, <1>2, <1>3 DEF NotificationsTypeOK
<1>6. HeldBy(x)' \subseteq Due \ Held
  BY <1>3, <1>4 DEF HeldBy, Selectable
<1>7. \A y \in Beats \ {x} : HeldBy(y)' = HeldBy(y) /\ HeldBy(y) \subseteq Held
  BY <1>4 DEF HeldBy, Held
<1>8. HeldDue'
  BY <1>1, <1>6, <1>7 DEF NoteInv, HeldDue, Due
<1>9. \A n \in Notes : batch[x][n] = "free"
  BY <1>1 DEF HeldBy
<1>10. \A n \in Notes : Tried(n)' <=> Tried(n)
  BY <1>3, <1>4, <1>9 DEF Tried
<1>11. NotesAnnounced' /\ MailBudget'
  BY <1>1, <1>10 DEF NoteInv, NotesAnnounced, MailBudget, Counted
<1> QED BY <1>5, <1>8, <1>11 DEF NoteInv

(* One notification of a batch is sent, once at most.                      *)
LEMMA DeliverStep ==
  ASSUME NoteInv, NEW x \in Beats, NEW n \in Notes, DeliverOnce(x, n)
  PROVE  NoteInv'
PROOF
<1>1. NotificationsTypeOK
  BY DEF NoteInv
<1>2. /\ batch \in [Beats -> [Notes -> Outcome]] /\ mail \in [Notes -> Nat]
      /\ lost \in Nat /\ \A m \in Notes : Counted(m) \in Nat
  BY <1>1, NoteTypes
<1>3. PICK o \in {"sent", "error"} : batch' = [batch EXCEPT ![x][n] = o]
  BY DEF DeliverOnce
<1>4. /\ batch[x][n] = "unsent"
      /\ mail' \in {mail, [mail EXCEPT ![n] = @ + 1]}
      /\ UNCHANGED <<policies, announced, note, emitting, lost>>
  BY DEF DeliverOnce
<1>5. /\ batch'[x][n] = o
      /\ \A m \in Notes \ {n} : batch'[x][m] = batch[x][m]
      /\ \A y \in Beats \ {x} : batch'[y] = batch[y]
      /\ batch' \in [Beats -> [Notes -> Outcome]]
  BY <1>2, <1>3 DEF Outcome
<1>6. \A y \in Beats : HeldBy(y)' = HeldBy(y)
  BY <1>4, <1>5 DEF HeldBy
<1>7. HeldDue' /\ NotesAnnounced'
  BY <1>4, <1>6 DEF NoteInv, HeldDue, Due, NotesAnnounced
<1>8. n \in HeldBy(x)
  BY <1>4 DEF HeldBy
<1>9. ~Tried(n)
  <2> SUFFICES ASSUME NEW y \in Beats, batch[y][n] \in {"sent", "error"} PROVE FALSE
    BY DEF Tried
  <2>1. n \in HeldBy(y)
    BY DEF HeldBy
  <2>2. y = x
    BY <1>8, <2>1 DEF NoteInv, HeldDue
  <2> QED BY <1>4, <2>2
<1>10. Tried(n)' /\ \A m \in Notes \ {n} : Tried(m)' <=> Tried(m)
  BY <1>5 DEF Tried
<1>11. mail' \in [Notes -> Nat] /\ mail'[n] <= mail[n] + 1
       /\ \A m \in Notes \ {n} : mail'[m] = mail[m]
  BY <1>2, <1>4
<1>12. MailBudget'
  <2> SUFFICES ASSUME NEW m \in Notes
               PROVE  mail'[m] <= Counted(m)' + (IF Tried(m)' THEN 1 ELSE 0) + lost'
    BY DEF MailBudget
  <2>1. Counted(m)' = Counted(m) /\ lost' = lost
    BY <1>4 DEF Counted
  <2>2. mail[m] <= Counted(m) + (IF Tried(m) THEN 1 ELSE 0) + lost
    BY DEF NoteInv, MailBudget
  <2>3. CASE m = n
    <3>1. mail[n] <= Counted(n) + lost
      BY <1>2, <1>9, <2>2, <2>3
    <3> QED BY <1>2, <1>10, <1>11, <2>1, <2>3, <3>1
  <2>4. CASE m # n
    BY <1>10, <1>11, <2>1, <2>2, <2>4
  <2> QED BY <2>3, <2>4
<1>13. NotificationsTypeOK'
  BY <1>1, <1>4, <1>5, <1>11 DEF NotificationsTypeOK
<1> QED BY <1>7, <1>12, <1>13 DEF NoteInv

(* A batch let go of holds nothing.                                        *)
LEMMA Freed ==
  ASSUME NotificationsTypeOK, NEW x \in Beats, Free(x)
  PROVE  /\ batch' \in [Beats -> [Notes -> Outcome]]
         /\ HeldBy(x)' = {}
         /\ \A y \in Beats \ {x} : batch'[y] = batch[y] /\ HeldBy(y)' = HeldBy(y)
         /\ \A n \in Notes : Tried(n)' =>
              Tried(n) /\ \E y \in Beats \ {x} : n \in HeldBy(y)
PROOF
<1> DEFINE none == [n \in Notes |-> "free"]
<1>1. batch \in [Beats -> [Notes -> Outcome]] /\ none \in [Notes -> Outcome]
  BY NoteTypes DEF Outcome
<1>2. \A n \in Notes : none[n] = "free"
  OBVIOUS
<1>3. batch' = [batch EXCEPT ![x] = none]
  BY DEF Free
<1> HIDE DEF none
<1>4. batch'[x] = none /\ \A y \in Beats \ {x} : batch'[y] = batch[y]
  BY <1>1, <1>3
<1>5. batch' \in [Beats -> [Notes -> Outcome]]
  BY <1>1, <1>3
<1>6. HeldBy(x)' = {} /\ \A y \in Beats \ {x} : HeldBy(y)' = HeldBy(y)
  BY <1>2, <1>4 DEF HeldBy
<1>7. ASSUME NEW n \in Notes, Tried(n)'
      PROVE  Tried(n) /\ \E y \in Beats \ {x} : n \in HeldBy(y)
  <2>1. PICK y \in Beats : batch'[y][n] \in {"sent", "error"}
    BY <1>7 DEF Tried
  <2>2. y # x
    BY <1>2, <1>4, <2>1
  <2>3. batch[y][n] \in {"sent", "error"}
    BY <1>4, <2>1, <2>2
  <2> QED BY <2>2, <2>3 DEF Tried, HeldBy
<1> QED BY <1>4, <1>5, <1>6, <1>7

(* A committed batch counts every attempt it made.                         *)
LEMMA CommitBatchStep ==
  ASSUME NoteInv, NEW x \in Beats, CommitBatch(x)
  PROVE  NoteInv'
PROOF
<1>1. /\ \A n \in Notes : batch[x][n] # "unsent"
      /\ note' = [n \in Notes |->
           CASE batch[x][n] = "free" -> note[n]
             [] batch[x][n] = "sent" -> Delivered(note[n])
             [] batch[x][n] = "error" -> Failed(note[n])]
      /\ Free(x)
      /\ UNCHANGED <<policies, announced, emitting, mail, lost>>
  BY DEF CommitBatch
<1>2. NotificationsTypeOK
  BY DEF NoteInv
<1>3. /\ note \in [Notes -> NoteRow \cup {None}]
      /\ batch \in [Beats -> [Notes -> Outcome]]
      /\ mail \in [Notes -> Nat] /\ lost \in Nat
      /\ \A n \in Notes : Counted(n) \in Nat
  BY <1>2, NoteTypes
<1>4. ASSUME NEW n \in HeldBy(x)
      PROVE  /\ note[n] # None /\ note'[n] \in NoteRow
             /\ note'[n].attempts = note[n].attempts + 1
  <2>1. n \in Notes /\ note[n] \in NoteRow /\ note[n] # None
    BY <1>3 DEF NoteInv, HeldDue, HeldBy, Due
  <2>2. batch[x][n] \in {"sent", "error"}
    <3>1. batch[x][n] \in Outcome /\ batch[x][n] # "free"
      BY <1>3, <2>1 DEF HeldBy
    <3> QED BY <1>1, <2>1, <3>1 DEF Outcome
  <2>3. note'[n] = Delivered(note[n]) \/ note'[n] = Failed(note[n])
    BY <1>1, <2>1, <2>2
  <2>4. note[n].attempts + 1 \in Nat
    BY <2>1 DEF NoteRow
  <2> QED BY <2>1, <2>3, <2>4 DEF Delivered, Failed, RetryAfter, NoteRow, Retry
<1>5. \A n \in Notes \ HeldBy(x) : note'[n] = note[n]
  BY <1>1 DEF HeldBy
<1>6. /\ batch' \in [Beats -> [Notes -> Outcome]]
      /\ HeldBy(x)' = {} /\ \A y \in Beats \ {x} : HeldBy(y)' = HeldBy(y)
      /\ \A n \in Notes : Tried(n)' =>
           Tried(n) /\ \E y \in Beats \ {x} : n \in HeldBy(y)
  BY <1>1, <1>2, Freed
<1>7. NotificationsTypeOK'
  <2>1. note' \in [Notes -> NoteRow \cup {None}]
    <3> DEFINE After(n) == CASE batch[x][n] = "free" -> note[n]
                              [] batch[x][n] = "sent" -> Delivered(note[n])
                              [] batch[x][n] = "error" -> Failed(note[n])
    <3>1. note' = [n \in Notes |-> After(n)]
      BY <1>1
    <3> HIDE DEF After
    <3>2. \A n \in Notes : note'[n] \in NoteRow \cup {None}
      BY <1>3, <1>4, <1>5
    <3> QED BY <3>1, <3>2
  <2> QED BY <1>1, <1>2, <1>6, <2>1 DEF NotificationsTypeOK
<1>8. \A y \in Beats \ {x} : HeldBy(y) \cap HeldBy(x) = {}
  BY DEF NoteInv, HeldDue, HeldBy
<1>9. HeldDue'
  <2>1. ASSUME NEW y \in Beats \ {x}, NEW n \in HeldBy(y)
        PROVE  n \in Due'
    <3>1. n \in Notes /\ n \notin HeldBy(x)
      BY <1>8 DEF HeldBy
    <3>2. note'[n] = note[n]
      BY <1>5, <3>1
    <3>3. n \in Due
      BY <3>1 DEF NoteInv, HeldDue
    <3> QED BY <3>1, <3>2, <3>3 DEF Due
  <2> QED BY <1>6, <2>1 DEF NoteInv, HeldDue
<1>10. NotesAnnounced'
  BY <1>1, <1>4, <1>5 DEF NoteInv, NotesAnnounced
<1>11. MailBudget'
  <2> SUFFICES ASSUME NEW n \in Notes
               PROVE  mail'[n] <= Counted(n)' + (IF Tried(n)' THEN 1 ELSE 0) + lost'
    BY DEF MailBudget
  <2>1. mail[n] <= Counted(n) + (IF Tried(n) THEN 1 ELSE 0) + lost
    BY DEF NoteInv, MailBudget
  <2>2. CASE n \in HeldBy(x)
    <3>1. note'[n] # None
      BY <1>4, <2>2, NullAssumption
    <3>2. Counted(n)' = Counted(n) + 1
      BY <1>4, <2>2, <3>1 DEF Counted
    <3> QED BY <1>1, <1>3, <2>1, <3>2
  <2>3. CASE n \notin HeldBy(x)
    <3>1. Counted(n)' = Counted(n)
      BY <1>5, <2>3 DEF Counted
    <3>2. Tried(n) => Tried(n)'
      <4> SUFFICES ASSUME NEW y \in Beats, batch[y][n] \in {"sent", "error"}
                   PROVE  Tried(n)'
        BY DEF Tried
      <4>1. y # x
        BY <2>3 DEF HeldBy
      <4>2. batch'[y] = batch[y]
        BY <1>1, <1>2, <4>1, Freed
      <4> QED BY <4>2 DEF Tried
    <3> QED BY <1>1, <1>3, <2>1, <3>1, <3>2
  <2> QED BY <2>2, <2>3
<1> QED BY <1>7, <1>9, <1>10, <1>11 DEF NoteInv

(* A batch that is lost may have sent what it did not count.               *)
LEMMA LoseBatchStep ==
  ASSUME NoteInv, NEW x \in Beats, LoseBatch(x)
  PROVE  NoteInv'
PROOF
<1>1. /\ lost < MaxLostBatches /\ lost' = lost + 1
      /\ Free(x)
      /\ UNCHANGED <<policies, announced, note, emitting, mail>>
  BY DEF LoseBatch
<1>2. NotificationsTypeOK
  BY DEF NoteInv
<1>3. /\ mail \in [Notes -> Nat] /\ lost \in Nat
      /\ \A n \in Notes : Counted(n) \in Nat
  BY <1>2, NoteTypes
<1>4. /\ batch' \in [Beats -> [Notes -> Outcome]]
      /\ HeldBy(x)' = {} /\ \A y \in Beats \ {x} : HeldBy(y)' = HeldBy(y)
  BY <1>1, <1>2, Freed
<1>5. NotificationsTypeOK'
  BY <1>1, <1>2, <1>4, NotificationAssumption DEF NotificationsTypeOK
<1>6. HeldDue' /\ NotesAnnounced'
  BY <1>1, <1>4 DEF NoteInv, HeldDue, Due, NotesAnnounced
<1>7. MailBudget'
  <2> SUFFICES ASSUME NEW n \in Notes
               PROVE  mail'[n] <= Counted(n)' + (IF Tried(n)' THEN 1 ELSE 0) + lost'
    BY DEF MailBudget
  <2>1. mail[n] <= Counted(n) + (IF Tried(n) THEN 1 ELSE 0) + lost
    BY DEF NoteInv, MailBudget
  <2>2. Counted(n)' = Counted(n)
    BY <1>1 DEF Counted
  <2> QED BY <1>1, <1>3, <2>1, <2>2
<1> QED BY <1>5, <1>6, <1>7 DEF NoteInv

(* A notification whose time comes is held by nobody.                      *)
LEMMA RetryStep ==
  ASSUME NoteInv, NEW n \in Notes, RetryTimeComes(n)
  PROVE  NoteInv'
PROOF
<1> DEFINE row == [note[n] EXCEPT !.retry = "now"]
<1>1. /\ note[n] # None /\ note[n].retry = "later"
      /\ note' = [note EXCEPT ![n] = row]
      /\ UNCHANGED <<policies, announced, emitting, batch, mail, lost>>
  BY DEF RetryTimeComes
<1>2. NotificationsTypeOK /\ note \in [Notes -> NoteRow \cup {None}]
  BY NoteTypes DEF NoteInv
<1>3. row \in NoteRow /\ row # None /\ row.attempts = note[n].attempts
  <2>1. note[n] \in NoteRow
    BY <1>1, <1>2
  <2>2. row \in NoteRow /\ row.attempts = note[n].attempts
    BY <2>1 DEF NoteRow, Retry
  <2> QED BY <2>2, NullAssumption
<1> HIDE DEF row
<1>4. /\ note'[n] = row /\ note' \in [Notes -> NoteRow \cup {None}]
      /\ \A m \in Notes \ {n} : note'[m] = note[m]
  BY <1>1, <1>2, <1>3
<1>5. NotificationsTypeOK'
  BY <1>1, <1>2, <1>4 DEF NotificationsTypeOK
<1>6. n \notin Due
  BY <1>1 DEF Due
<1>7. HeldDue'
  BY <1>1, <1>4, <1>6 DEF NoteInv, HeldDue, HeldBy, Due
<1>8. NotesAnnounced'
  BY <1>1, <1>4 DEF NoteInv, NotesAnnounced
<1>9. \A m \in Notes : Counted(m)' = Counted(m)
  BY <1>1, <1>3, <1>4 DEF Counted
<1>10. MailBudget'
  BY <1>1, <1>9 DEF NoteInv, MailBudget, Tried
<1> QED BY <1>5, <1>7, <1>8, <1>10 DEF NoteInv

(* The notifications' invariant is inductive.                              *)
LEMMA NoteInductive ==
  /\ NotificationsInit => NoteInv
  /\ NoteInv /\ [NotificationsNext]_noteVars => NoteInv'
PROOF
<1>1. ASSUME NotificationsInit PROVE NoteInv
  <2>1. NotificationsTypeOK
    BY <1>1, NotificationAssumption DEF NotificationsInit, NotificationsTypeOK, Outcome
  <2>2. HeldDue /\ NotesAnnounced
    BY <1>1 DEF NotificationsInit, HeldDue, HeldBy, NotesAnnounced
  <2>3. MailBudget
    <3> SUFFICES ASSUME NEW n \in Notes
                 PROVE  mail[n] <= Counted(n) + (IF Tried(n) THEN 1 ELSE 0) + lost
      BY DEF MailBudget
    <3>1. mail[n] = 0 /\ Counted(n) = 0 /\ lost = 0
      BY <1>1 DEF NotificationsInit, Counted
    <3> QED BY <3>1
  <2> QED BY <2>1, <2>2, <2>3 DEF NoteInv
<1>2. ASSUME NoteInv, UNCHANGED noteVars PROVE NoteInv'
  BY <1>2 DEF noteVars, NoteInv, NotificationsTypeOK, HeldDue, HeldBy, Due,
              NotesAnnounced, MailBudget, Counted, Tried
<1>3. ASSUME NoteInv, NotificationsNext PROVE NoteInv'
  BY <1>3, EmitterSteps, CommitEventStep, SelectStep, DeliverStep, CommitBatchStep,
     LoseBatchStep, RetryStep DEF NotificationsNext, Dispatch
<1> QED BY <1>1, <1>2, <1>3

(* No notification is in two batches, and every message that left is       *)
(* counted, about to be counted or of a lost batch.                        *)
THEOREM EveryMailAccounted == NotificationsSpec => []MailAccountedFor
PROOF
<1>1. ASSUME NoteInv PROVE MailAccountedFor
  <2> SUFFICES ASSUME NEW n \in Notes
               PROVE  /\ mail[n] <= Counted(n) + Cardinality(InHand(n)) + lost
                      /\ Cardinality(InHand(n)) <= 1
    BY DEF MailAccountedFor
  <2>1. mail[n] <= Counted(n) + (IF Tried(n) THEN 1 ELSE 0) + lost
    BY <1>1 DEF NoteInv, MailBudget
  <2>2. mail[n] \in Nat /\ Counted(n) \in Nat /\ lost \in Nat
    BY <1>1, NoteTypes DEF NoteInv
  <2>3. CASE InHand(n) = {}
    <3>1. ~Tried(n)
      BY <2>3 DEF Tried, InHand, HeldBy
    <3>2. Cardinality(InHand(n)) = 0
      BY <2>3, FS_EmptySet
    <3> QED BY <2>1, <2>2, <3>1, <3>2
  <2>4. CASE InHand(n) # {}
    <3>1. PICK x : x \in InHand(n)
      BY <2>4
    <3>2. InHand(n) = {x}
      BY <1>1, <3>1 DEF InHand, NoteInv, HeldDue
    <3>3. Cardinality(InHand(n)) = 1
      BY <3>2, FS_Singleton
    <3> QED BY <2>1, <2>2, <3>3
  <2> QED BY <2>3, <2>4
<1> QED BY <1>1, NoteInductive, PTL DEF NotificationsSpec

-----------------------------------------------------------------------------
(* The runs' instance *)

(* The type invariant of both components, whichever of them moves.         *)
THEOREM JobsTyped == FairJobs => []JobsTypeOK
PROOF
<1>1. JobsInit => AIInv /\ NoteInv
  BY AIStart, NoteInductive DEF JobsInit
<1>2. AIInv /\ NoteInv /\ [JobsNext]_jobsVars => (AIInv /\ NoteInv)'
  <2> SUFFICES ASSUME AIInv, NoteInv, [JobsNext]_jobsVars PROVE AIInv' /\ NoteInv'
    OBVIOUS
  <2>1. [AINext]_aiVars /\ [NotificationsNext]_noteVars
    BY DEF JobsNext, jobsVars
  <2> QED BY <2>1, AIStep, NoteInductive
<1>3. AIInv /\ NoteInv => JobsTypeOK
  BY DEF AIInv, TypeInv, NoteInv, JobsTypeOK
<1> QED BY <1>1, <1>2, <1>3, PTL DEF FairJobs
=============================================================================
