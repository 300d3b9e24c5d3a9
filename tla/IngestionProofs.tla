-------------------------- MODULE IngestionProofs --------------------------
(***************************************************************************)
(* Theorems about Ingestion for any number of pull requests, deliveries,   *)
(* dispatchers and workers, any number of retries and any faults.          *)
(***************************************************************************)
EXTENDS Ingestion, TLAPS

Target(w) == delivery[worker[w].delivery].pr
Fetching(w) == worker[w].stage \in {"locked", "pull_request", "files"}

(* Whoever works on a delivery, or has a message about it, works on one    *)
(* that is stored.                                                         *)
DeliveriesKnown ==
  /\ \A d \in Deliveries, r \in Retries : BagIn(<<d, r>>, queue) => Exists(d)
  /\ \A w \in Workers : worker[w] # Idle => Exists(worker[w].delivery)
  /\ \A x \in Dispatchers : dispatcher[x] # Idle => Exists(dispatcher[x].delivery)
  /\ latest # None => Exists(latest)

TypeInv == TypeOK /\ DeliveriesKnown

(* One worker at a time fetches and applies a pull request.                *)
Exclusive ==
  \A v, w \in Workers :
    Fetching(v) /\ Fetching(w) /\ Target(v) = Target(w) => v = w

(* GitHub has everything that is stored or that a delivery stands for.     *)
FromGitHub ==
  /\ \A p \in PullRequests : /\ stored[p].head <= github[p]
                             /\ stored[p].files <= github[p]
  /\ \A d \in Deliveries : Exists(d) => delivery[d].since <= github[delivery[d].pr]

(* What a worker has fetched is as new as what is stored and as the        *)
(* delivery it works on, and its files are as new as its head.             *)
Fetched(w) ==
  LET p == Target(w) IN
  /\ worker[w].stage \in {"pull_request", "files"} =>
       /\ stored[p].head <= worker[w].head
       /\ stored[p].files <= worker[w].head
       /\ delivery[worker[w].delivery].since <= worker[w].head
       /\ worker[w].head <= github[p]
  /\ worker[w].stage = "files" =>
       worker[w].head <= worker[w].files /\ worker[w].files <= github[p]

SnapshotInv ==
  /\ TypeInv /\ Exclusive /\ FromGitHub
  /\ \A w \in Workers : Fetched(w)
  /\ FilesAsNewAsHead

(* A delivery that is being processed is locked by a worker or has a       *)
(* message in the queue; one that has an outcome took effect.              *)
Attended(d) ==
  delivery[d].status = "processing" =>
    (\E r \in Retries : BagIn(<<d, r>>, queue)) \/ DeliveryLocked(d)
Effective(d) ==
  delivery[d].status \in {"complete", "incomplete"} =>
    stored[delivery[d].pr].head >= delivery[d].since

StrandInv ==
  /\ SnapshotInv
  /\ \A d \in Deliveries : Exists(d) => Attended(d) /\ Effective(d)
-----------------------------------------------------------------------------
(* The queue *)

(* Sending a message keeps the queue a bag and adds that message only.     *)
LEMMA BagAdding ==
  ASSUME NEW B, IsABag(B), NEW m
  PROVE  /\ IsABag(B (+) SetToBag({m}))
         /\ BagToSet(B (+) SetToBag({m})) = BagToSet(B) \cup {m}
PROOF
<1> DEFINE C == B (+) SetToBag({m})
<1>1. SetToBag({m}) = [e \in {m} |-> 1]
  BY DEF SetToBag
<1>2. DOMAIN C = DOMAIN B \cup {m}
  BY <1>1 DEF (+)
<1>3. \A e \in DOMAIN C : C[e] \in {n \in Nat : n > 0}
  <2> SUFFICES ASSUME NEW e \in DOMAIN B \cup {m} PROVE C[e] \in {n \in Nat : n > 0}
    BY <1>2
  <2>1. C[e] = (IF e \in DOMAIN B THEN B[e] ELSE 0) + (IF e = m THEN 1 ELSE 0)
    BY <1>1 DEF (+)
  <2>2. e \in DOMAIN B => B[e] \in Nat /\ B[e] > 0
    BY DEF IsABag
  <2> HIDE DEF C
  <2> QED BY <2>1, <2>2
<1>4. C = [e \in DOMAIN C |-> C[e]]
  BY DEF (+)
<1> HIDE DEF C
<1> QED BY <1>2, <1>3, <1>4 DEF IsABag, BagToSet, C

(* Taking a message keeps the queue a bag and adds none.                   *)
LEMMA BagTaking ==
  ASSUME NEW B, IsABag(B), NEW m
  PROVE  /\ IsABag(B (-) SetToBag({m}))
         /\ BagToSet(B (-) SetToBag({m})) \subseteq BagToSet(B)
         /\ BagToSet(B) \ {m} \subseteq BagToSet(B (-) SetToBag({m}))
PROOF
<1> DEFINE C == B (-) SetToBag({m})
           left == [e \in DOMAIN B |-> IF e \in {m} THEN B[e] - 1 ELSE B[e]]
<1>1. C = [e \in {d \in DOMAIN left : left[d] > 0} |-> left[e]]
  BY Zenon DEF (-), SetToBag
<1>2. \A e \in DOMAIN B : B[e] \in Nat /\ B[e] > 0
  BY DEF IsABag
<1>3. \A e \in DOMAIN B : left[e] \in Nat /\ (e # m => left[e] > 0)
  BY <1>2
<1> HIDE DEF C
<1> QED BY <1>1, <1>3 DEF IsABag, BagToSet, C

(* What the three uses of the queue do to it.                              *)
LEMMA QueueSteps ==
  ASSUME TypeOK, NEW m \in Deliveries \X Retries
  PROVE  /\ Enqueued(m) => /\ IsABag(queue')
                           /\ BagToSet(queue') = BagToSet(queue) \cup {m}
         /\ Taken(m) => /\ IsABag(queue')
                        /\ BagToSet(queue') \subseteq BagToSet(queue)
                        /\ BagToSet(queue) \ {m} \subseteq BagToSet(queue')
PROOF
<1>1. IsABag(queue)
  BY DEF TypeOK
<1>2. /\ IsABag(queue (+) SetToBag({m}))
      /\ BagToSet(queue (+) SetToBag({m})) = BagToSet(queue) \cup {m}
  BY <1>1, BagAdding
<1>3. /\ IsABag(queue (-) SetToBag({m}))
      /\ BagToSet(queue (-) SetToBag({m})) \subseteq BagToSet(queue)
      /\ BagToSet(queue) \ {m} \subseteq BagToSet(queue (-) SetToBag({m}))
  BY <1>1, BagTaking
<1> QED BY <1>2, <1>3, Zenon DEF Enqueued, Taken

-----------------------------------------------------------------------------
(* Types *)

(* An idle process is none that does something.                            *)
LEMMA IdleIsNoProcess ==
  /\ \A r \in Working : r # Idle /\ r.stage # "idle"
  /\ \A r \in Dispatching : r # Idle /\ r.stage # "idle"
  /\ Idle.stage = "idle"
PROOF
BY DEF Working, Dispatching, Idle

(* The initial state has its types and nothing in it.                      *)
LEMMA TypeInit == Init => TypeInv
PROOF
<1> SUFFICES ASSUME Init PROVE TypeInv
  OBVIOUS
<1>1. IsABag(EmptyBag) /\ BagToSet(EmptyBag) = {}
  BY DEF IsABag, EmptyBag, SetToBag, BagToSet
<1>2. TypeOK
  BY <1>1, IngestionAssumption DEF Init, TypeOK, Snapshot
<1>3. DeliveriesKnown
  BY <1>1 DEF Init, DeliveriesKnown, BagIn
<1> QED BY <1>2, <1>3 DEF TypeInv
(* The records behind the unions of TypeOK.                                *)
LEMMA RecordTypes ==
  ASSUME TypeInv
  PROVE  /\ \A d \in Deliveries : Exists(d) => delivery[d] \in DeliveryRow
         /\ \A w \in Workers : worker[w].stage # "idle" =>
              /\ worker[w] \in Working
              /\ worker[w] # Idle
              /\ Exists(worker[w].delivery)
              /\ delivery[worker[w].delivery] \in DeliveryRow
              /\ Target(w) \in PullRequests
         /\ \A x \in Dispatchers : dispatcher[x] # Idle =>
              /\ dispatcher[x] \in Dispatching
              /\ Exists(dispatcher[x].delivery)
              /\ delivery[dispatcher[x].delivery] \in DeliveryRow
PROOF
<1>1. \A d \in Deliveries : Exists(d) => delivery[d] \in DeliveryRow
  BY DEF TypeInv, TypeOK, Exists
<1>2. ASSUME NEW w \in Workers, worker[w].stage # "idle"
      PROVE  worker[w] \in Working /\ worker[w] # Idle /\ worker[w].delivery \in Deliveries
  BY <1>2, IdleIsNoProcess DEF TypeInv, TypeOK, Working
<1>3. ASSUME NEW w \in Workers, worker[w].stage # "idle"
      PROVE  Exists(worker[w].delivery) /\ Target(w) \in PullRequests
  BY <1>1, <1>2, <1>3 DEF TypeInv, DeliveriesKnown, Target, DeliveryRow
<1>4. ASSUME NEW x \in Dispatchers, dispatcher[x] # Idle
      PROVE  /\ dispatcher[x] \in Dispatching
             /\ dispatcher[x].delivery \in Deliveries
             /\ Exists(dispatcher[x].delivery)
  BY <1>4 DEF TypeInv, TypeOK, Dispatching, DeliveriesKnown
<1> QED BY <1>1, <1>2, <1>3, <1>4

(* The pull request and the version of a stored delivery never change, and *)
(* GitHub's versions only grow.                                            *)
Lasting ==
  /\ \A d \in Deliveries : Exists(d) =>
       /\ Exists(d)' /\ delivery'[d].pr = delivery[d].pr
       /\ delivery'[d].since = delivery[d].since
  /\ \A p \in PullRequests : github[p] <= github'[p]

-----------------------------------------------------------------------------
(* Each step keeps the types and the stored deliveries. *)

(* GitHub and the two routes: a new delivery is about a pull request and   *)
(* leaves the others alone.                                                *)
LEMMA RouteType ==
  ASSUME TypeInv, NEW p \in PullRequests, NEW d \in Deliveries,
         GitHubChanges(p) \/ Receive(p, d) \/ Resync(p, d)
  PROVE  TypeInv' /\ Lasting
PROOF
<1>1. CASE GitHubChanges(p)
  <2>1. github' \in [PullRequests -> Nat] /\ \A o \in PullRequests : github[o] <= github'[o]
    BY <1>1 DEF GitHubChanges, TypeInv, TypeOK
  <2>2. UNCHANGED <<stored, delivery, latest, queue, dispatcher, worker, mishaps>>
    BY <1>1 DEF GitHubChanges
  <2>3. TypeOK'
    BY <2>1, <2>2 DEF TypeInv, TypeOK
  <2>4. DeliveriesKnown'
    BY <2>2 DEF TypeInv, DeliveriesKnown, Exists
  <2> QED BY <2>1, <2>2, <2>3, <2>4 DEF TypeInv, Lasting, Exists
<1>2. CASE Receive(p, d) \/ Resync(p, d)
  <2>1. PICK o \in PullRequests : delivery' = [delivery EXCEPT ![d] = NewDelivery(o)]
    <3>1. CASE Receive(p, d)
      BY <3>1 DEF Receive
    <3>2. CASE Resync(p, d)
      <4>1. latest \in Deliveries /\ Exists(latest)
        BY <3>2 DEF Resync, TypeInv, TypeOK, DeliveriesKnown
      <4>2. delivery[latest].pr \in PullRequests
        BY <4>1, RecordTypes DEF DeliveryRow
      <4> QED BY <3>2, <4>2 DEF Resync
    <3> QED BY <1>2, <3>1, <3>2
  <2>2. NewDelivery(o) \in DeliveryRow
    BY DEF NewDelivery, DeliveryRow, IngestionState, OutboxState, TypeInv, TypeOK
  <2>3. /\ ~Exists(d) /\ latest' = d
        /\ UNCHANGED <<github, stored, queue, dispatcher, worker, mishaps>>
    BY <1>2 DEF Receive, Resync
  <2>4. /\ delivery' \in [Deliveries -> DeliveryRow \cup {None}]
        /\ \A e \in Deliveries \ {d} : delivery'[e] = delivery[e]
        /\ delivery'[d] = NewDelivery(o)
    BY <2>1, <2>2 DEF TypeInv, TypeOK
  <2>5. TypeOK'
    BY <2>3, <2>4 DEF TypeInv, TypeOK
  <2>6. \A e \in Deliveries : Exists(e) => Exists(e)' /\ delivery'[e] = delivery[e]
    BY <2>3, <2>4 DEF Exists
  <2>7. Exists(d)'
    BY <2>2, <2>4, NoneAssumption DEF Exists
  <2>8. DeliveriesKnown'
    BY <2>3, <2>6, <2>7 DEF TypeInv, TypeOK, DeliveriesKnown, Dispatching, Working
  <2> QED BY <2>3, <2>5, <2>6, <2>8 DEF TypeInv, TypeOK, Lasting
<1> QED BY <1>1, <1>2

(* A stored delivery gets another row of the same pull request and version,*)
(* or none does.                                                           *)
RowWritten(d) ==
  \/ UNCHANGED delivery
  \/ \E r \in DeliveryRow : /\ r.pr = delivery[d].pr /\ r.since = delivery[d].since
                            /\ delivery' = [delivery EXCEPT ![d] = r]

(* Writing a row keeps the table a table and every other row.              *)
LEMMA RowWrittenType ==
  ASSUME TypeInv, NEW d \in Deliveries, Exists(d), RowWritten(d), UNCHANGED github
  PROVE  /\ delivery' \in [Deliveries -> DeliveryRow \cup {None}]
         /\ \A e \in Deliveries : Exists(e)' <=> Exists(e)
         /\ \A e \in Deliveries \ {d} : delivery'[e] = delivery[e]
         /\ Lasting
PROOF
<1>1. CASE UNCHANGED delivery
  BY <1>1 DEF TypeInv, TypeOK, Lasting, Exists
<1>2. CASE ~UNCHANGED delivery
  <2>1. PICK r \in DeliveryRow : /\ r.pr = delivery[d].pr
                                 /\ r.since = delivery[d].since
                                 /\ delivery' = [delivery EXCEPT ![d] = r]
    BY <1>2 DEF RowWritten
  <2>2. r # None
    BY NoneAssumption
  <2>3. delivery'[d] = r /\ \A e \in Deliveries \ {d} : delivery'[e] = delivery[e]
    BY <2>1 DEF TypeInv, TypeOK
  <2>4. \A e \in Deliveries : Exists(e)' <=> Exists(e)
    BY <2>2, <2>3 DEF Exists
  <2> QED BY <2>1, <2>3, <2>4 DEF TypeInv, TypeOK, Lasting
<1> QED BY <1>1, <1>2

(* A crash or a failure counts as one more.                                *)
LEMMA MishapType ==
  ASSUME TypeInv, NEW kind, Mishap(kind)
  PROVE  mishaps' \in 0 .. MaxMishaps
PROOF
BY IngestionAssumption DEF Mishap, TypeInv, TypeOK

(* The dispatcher's steps write its delivery's row and send its message.   *)
LEMMA DispatchType ==
  ASSUME TypeInv, NEW x \in Dispatchers, Dispatch(x) \/ DispatcherCrash(x)
  PROVE  TypeInv' /\ Lasting
PROOF
<1>1. ASSUME NEW d \in Deliveries, LockOutbox(x, d)
      PROVE  TypeInv' /\ Lasting
  <2>1. [stage |-> "locked", delivery |-> d] \in Dispatching
    BY DEF Dispatching
  <2>2. /\ Exists(d)
        /\ dispatcher' = [dispatcher EXCEPT ![x] = [stage |-> "locked", delivery |-> d]]
        /\ UNCHANGED <<github, stored, delivery, latest, queue, worker, mishaps>>
    BY <1>1 DEF LockOutbox
  <2>3. TypeOK'
    BY <2>1, <2>2 DEF TypeInv, TypeOK
  <2>4. DeliveriesKnown'
    BY <2>2 DEF TypeInv, TypeOK, DeliveriesKnown, Exists
  <2>5. Lasting
    BY <2>2 DEF Lasting, Exists, TypeInv, TypeOK
  <2> QED BY <2>3, <2>4, <2>5 DEF TypeInv
<1>2. CASE Publish(x) \/ PublishFails(x) \/ CommitPublished(x) \/ DispatcherCrash(x)
  <2> DEFINE d == dispatcher[x].delivery
  <2>1. dispatcher[x] # Idle
    BY <1>2, IdleIsNoProcess
       DEF Publish, PublishFails, CommitPublished, DispatcherCrash
  <2>2. /\ d \in Deliveries /\ Exists(d) /\ delivery[d] \in DeliveryRow
        /\ dispatcher[x] \in Dispatching
    BY <2>1, RecordTypes DEF Dispatching
  <2> HIDE DEF d
  <2>3. RowWritten(d)
    <3>1. CASE PublishFails(x)
      <4>1. delivery' = [delivery EXCEPT ![d] = [delivery[d] EXCEPT !.outbox = "failed"]]
        BY <3>1 DEF PublishFails, d
      <4>2. LET r == [delivery[d] EXCEPT !.outbox = "failed"]
            IN  r \in DeliveryRow /\ r.pr = delivery[d].pr /\ r.since = delivery[d].since
        BY <2>2 DEF DeliveryRow, OutboxState
      <4> QED BY <4>1, <4>2, Zenon DEF RowWritten
    <3>2. CASE CommitPublished(x)
      <4>1. delivery' = [delivery EXCEPT ![d] =
              [delivery[d] EXCEPT !.outbox = "published", !.status = "queued"]]
        BY <2>2, <3>2 DEF CommitPublished, d, TypeInv, TypeOK
      <4>2. LET r == [delivery[d] EXCEPT !.outbox = "published", !.status = "queued"]
            IN  r \in DeliveryRow /\ r.pr = delivery[d].pr /\ r.since = delivery[d].since
        BY <2>2 DEF DeliveryRow, OutboxState, IngestionState
      <4> QED BY <4>1, <4>2, Zenon DEF RowWritten
    <3>3. CASE Publish(x) \/ DispatcherCrash(x)
      BY <3>3 DEF Publish, DispatcherCrash, RowWritten
    <3> QED BY <1>2, <3>1, <3>2, <3>3
  <2>4. UNCHANGED <<github, stored, latest, worker>>
    BY <1>2 DEF Publish, PublishFails, CommitPublished, DispatcherCrash
  <2>5. /\ IsABag(queue') /\ BagToSet(queue') \subseteq BagToSet(queue) \cup {<<d, 0>>}
        /\ <<d, 0>> \in Deliveries \X Retries
    <3>1. <<d, 0>> \in Deliveries \X Retries
      BY <2>2, IngestionAssumption DEF Retries
    <3>2. UNCHANGED queue \/ Enqueued(<<d, 0>>)
      BY <1>2 DEF Publish, PublishFails, CommitPublished, DispatcherCrash, d
    <3>3. IsABag(queue)
      BY DEF TypeInv, TypeOK
    <3> QED BY <3>1, <3>2, <3>3, QueueSteps DEF TypeInv
  <2>6. /\ dispatcher' \in [Dispatchers -> Dispatching \cup {Idle}]
        /\ \A y \in Dispatchers : \/ dispatcher'[y] = Idle \/ dispatcher'[y] = dispatcher[y]
                                  \/ dispatcher'[y].delivery = d
    <3>1. CASE Publish(x)
      <4>1. [dispatcher[x] EXCEPT !.stage = "published"] \in Dispatching
        BY <2>2 DEF Dispatching
      <4>2. [dispatcher[x] EXCEPT !.stage = "published"].delivery = d
        BY <2>2 DEF Dispatching, d
      <4>3. dispatcher' = [dispatcher EXCEPT ![x] =
                             [dispatcher[x] EXCEPT !.stage = "published"]]
        BY <3>1 DEF Publish
      <4> QED BY <4>1, <4>2, <4>3 DEF TypeInv, TypeOK
    <3>2. CASE PublishFails(x) \/ CommitPublished(x) \/ DispatcherCrash(x)
      <4>1. dispatcher' = [dispatcher EXCEPT ![x] = Idle]
        BY <3>2 DEF PublishFails, CommitPublished, DispatcherCrash
      <4> QED BY <4>1 DEF TypeInv, TypeOK
    <3> QED BY <1>2, <3>1, <3>2
  <2>7. mishaps' \in 0 .. MaxMishaps
    BY <1>2, MishapType
       DEF Publish, PublishFails, CommitPublished, DispatcherCrash, TypeInv, TypeOK
  <2>8. TypeOK'
    BY <2>2, <2>3, <2>4, <2>5, <2>6, <2>7, RowWrittenType DEF TypeInv, TypeOK
  <2>9. DeliveriesKnown'
    <3>1. \A e \in Deliveries : Exists(e)' <=> Exists(e)
      BY <2>2, <2>3, <2>4, RowWrittenType
    <3>2. \A e \in Deliveries, r \in Retries : BagIn(<<e, r>>, queue') => Exists(e)
      BY <2>2, <2>5 DEF TypeInv, DeliveriesKnown, BagIn
    <3>3. \A w \in Workers : worker[w] # Idle => worker[w].delivery \in Deliveries
      BY DEF TypeInv, TypeOK, Working
    <3>4. \A y \in Dispatchers : dispatcher[y] # Idle => dispatcher[y].delivery \in Deliveries
      BY DEF TypeInv, TypeOK, Dispatching
    <3> QED BY <2>2, <2>4, <2>6, <3>1, <3>2, <3>3, <3>4
            DEF TypeInv, TypeOK, DeliveriesKnown
  <2> QED BY <2>2, <2>3, <2>4, <2>8, <2>9, RowWrittenType DEF TypeInv
<1> QED BY <1>1, <1>2 DEF Dispatch

(* A worker that takes a message takes up its delivery or drops it.        *)
LEMMA ConsumeType ==
  ASSUME TypeInv, NEW w \in Workers, Consume(w)
  PROVE  TypeInv' /\ Lasting
PROOF
<1>1. PICK d \in Deliveries, r \in Retries :
        StartProcessing(w, d, r) \/ DropMessage(w, d, r)
  BY DEF Consume
<1>2. /\ BagIn(<<d, r>>, queue) /\ Taken(<<d, r>>)
      /\ UNCHANGED <<github, stored, latest, dispatcher, mishaps>>
  BY <1>1 DEF StartProcessing, DropMessage
<1>3. Exists(d) /\ delivery[d] \in DeliveryRow
  BY <1>2, RecordTypes DEF TypeInv, DeliveriesKnown
<1>4. IsABag(queue') /\ BagToSet(queue') \subseteq BagToSet(queue)
  BY <1>2, QueueSteps DEF TypeInv
<1>5. RowWritten(d)
  <2>1. CASE StartProcessing(w, d, r)
    <3>1. delivery' = [delivery EXCEPT ![d] = [delivery[d] EXCEPT !.status = "processing"]]
      BY <2>1 DEF StartProcessing
    <3>2. LET row == [delivery[d] EXCEPT !.status = "processing"]
          IN  /\ row \in DeliveryRow
              /\ row.pr = delivery[d].pr /\ row.since = delivery[d].since
      BY <1>3 DEF DeliveryRow, IngestionState
    <3> QED BY <3>1, <3>2, Zenon DEF RowWritten
  <2>2. CASE DropMessage(w, d, r)
    BY <2>2 DEF DropMessage, RowWritten
  <2> QED BY <1>1, <2>1, <2>2
<1>6. /\ worker' \in [Workers -> Working \cup {Idle}]
      /\ \A v \in Workers : worker'[v] = worker[v] \/ worker'[v].delivery = d
  <2>1. CASE StartProcessing(w, d, r)
    <3> DEFINE new == [stage |-> "processing", delivery |-> d, retry |-> r,
                       head |-> 0, files |-> 0]
    <3>1. new \in Working /\ new.delivery = d
      BY DEF Working
    <3>2. worker' = [worker EXCEPT ![w] = new]
      BY <2>1 DEF StartProcessing
    <3> HIDE DEF new
    <3> QED BY <3>1, <3>2 DEF TypeInv, TypeOK
  <2>2. CASE DropMessage(w, d, r)
    BY <2>2 DEF DropMessage, TypeInv, TypeOK
  <2> QED BY <1>1, <2>1, <2>2
<1>7. TypeOK'
  BY <1>2, <1>3, <1>4, <1>5, <1>6, RowWrittenType DEF TypeInv, TypeOK
<1>8. DeliveriesKnown'
  <2>1. \A e \in Deliveries : Exists(e)' <=> Exists(e)
    BY <1>2, <1>3, <1>5, RowWrittenType
  <2>2. \A e \in Deliveries, s \in Retries : BagIn(<<e, s>>, queue') => Exists(e)
    BY <1>4 DEF TypeInv, DeliveriesKnown, BagIn
  <2>3. \A v \in Workers : worker[v] # Idle => worker[v].delivery \in Deliveries
    BY DEF TypeInv, TypeOK, Working
  <2>4. \A y \in Dispatchers : dispatcher[y] # Idle => dispatcher[y].delivery \in Deliveries
    BY DEF TypeInv, TypeOK, Dispatching
  <2> QED BY <1>2, <1>3, <1>6, <2>1, <2>2, <2>3, <2>4 DEF TypeInv, TypeOK, DeliveriesKnown
<1> QED BY <1>2, <1>3, <1>5, <1>7, <1>8, RowWrittenType DEF TypeInv

(* What a snapshot leaves of the stored copy is a copy.                    *)
LEMMA AppliedType ==
  ASSUME NEW old \in Snapshot, NEW new \in Working, NEW limited \in BOOLEAN
  PROVE  Applied(old, new, limited) \in Snapshot
PROOF
BY DEF Applied, Snapshot, Working

(* The steps of a task that has started write its own delivery's row, send *)
(* only that delivery's messages, and leave the worker idle or on it.      *)
LEMMA ProcessType ==
  ASSUME TypeInv, NEW w \in Workers, Process(w) \/ WorkerCrash(w)
  PROVE  TypeInv' /\ Lasting
PROOF
<1> DEFINE d == worker[w].delivery
<1>1. worker[w].stage # "idle"
  <2>1. worker[w] # Idle => worker[w].stage # "idle"
    BY IdleIsNoProcess DEF TypeInv, TypeOK
  <2> QED BY <2>1 DEF Process, LockPullRequest, FetchPullRequest, FetchFiles,
               ApplySnapshot, SynchronizeFails, Acknowledge, WorkerCrash
<1>2. /\ d \in Deliveries /\ Exists(d) /\ delivery[d] \in DeliveryRow
      /\ worker[w] \in Working /\ Target(w) \in PullRequests
  BY <1>1, RecordTypes DEF Working
<1>3. UNCHANGED <<github, latest, dispatcher>>
  BY DEF Process, LockPullRequest, FetchPullRequest, FetchFiles,
         ApplySnapshot, SynchronizeFails, Acknowledge, WorkerCrash
<1>4. RowWritten(d)
  <2>1. CASE SynchronizeFails(w)
    <3>1. delivery' = [delivery EXCEPT ![d] = [delivery[d] EXCEPT !.status = "failed"]]
      BY <2>1 DEF SynchronizeFails
    <3>2. LET row == [delivery[d] EXCEPT !.status = "failed"]
          IN  /\ row \in DeliveryRow
              /\ row.pr = delivery[d].pr /\ row.since = delivery[d].since
      BY <1>2 DEF DeliveryRow, IngestionState
    <3> QED BY <3>1, <3>2, Zenon DEF RowWritten
  <2>2. CASE ApplySnapshot(w)
    <3>1. PICK s \in {"incomplete", "complete"} :
            delivery' = [delivery EXCEPT ![d] = [delivery[d] EXCEPT !.status = s]]
      BY <2>2 DEF ApplySnapshot
    <3>2. LET row == [delivery[d] EXCEPT !.status = s]
          IN  /\ row \in DeliveryRow
              /\ row.pr = delivery[d].pr /\ row.since = delivery[d].since
      BY <1>2 DEF DeliveryRow, IngestionState
    <3> QED BY <3>1, <3>2, Zenon DEF RowWritten
  <2>3. CASE ~SynchronizeFails(w) /\ ~ApplySnapshot(w)
    BY <2>3 DEF Process, LockPullRequest, FetchPullRequest, FetchFiles,
                Acknowledge, WorkerCrash, RowWritten
  <2> QED BY <2>1, <2>2, <2>3
<1>5. /\ IsABag(queue') /\ BagToSet(queue') \subseteq Deliveries \X Retries
      /\ \A e \in Deliveries, s \in Retries :
           BagIn(<<e, s>>, queue') => BagIn(<<e, s>>, queue) \/ e = d
  <2>1. \/ UNCHANGED queue
        \/ \E s \in Retries : Enqueued(<<d, s>>)
    <3>1. CASE Acknowledge(w)
      <4>1. worker[w].retry \in Retries
        BY <1>2 DEF Working
      <4>2. HasRetryRemaining(worker[w].retry) => worker[w].retry + 1 \in Retries
        BY <4>1, IngestionAssumption DEF HasRetryRemaining, Retries
      <4> QED BY <3>1, <4>2 DEF Acknowledge
    <3>2. CASE WorkerCrash(w)
      BY <1>2, <3>2 DEF WorkerCrash, Redelivered, Working
    <3>3. CASE ~Acknowledge(w) /\ ~WorkerCrash(w)
      BY <3>3 DEF Process, LockPullRequest, FetchPullRequest, FetchFiles,
                  ApplySnapshot, SynchronizeFails
    <3> QED BY <3>1, <3>2, <3>3
  <2>2. CASE UNCHANGED queue
    BY <2>2 DEF TypeInv, TypeOK, BagIn
  <2>3. CASE ~UNCHANGED queue
    <3>1. PICK s \in Retries : Enqueued(<<d, s>>)
      BY <2>1, <2>3
    <3>2. IsABag(queue') /\ BagToSet(queue') = BagToSet(queue) \cup {<<d, s>>}
      BY <1>2, <3>1, QueueSteps DEF TypeInv
    <3>3. BagToSet(queue') \subseteq Deliveries \X Retries
      BY <1>2, <3>2 DEF TypeInv, TypeOK
    <3>4. ASSUME NEW e \in Deliveries, NEW t \in Retries, BagIn(<<e, t>>, queue')
          PROVE  BagIn(<<e, t>>, queue) \/ e = d
      BY <3>2, <3>4 DEF BagIn
    <3> QED BY <3>2, <3>3, <3>4
  <2> QED BY <2>2, <2>3
<1>6. /\ worker' \in [Workers -> Working \cup {Idle}]
      /\ \A v \in Workers : \/ worker'[v] = worker[v] \/ worker'[v] = Idle
                            \/ worker'[v].delivery = d
  <2>1. ASSUME NEW new \in Working \cup {Idle}, worker' = [worker EXCEPT ![w] = new],
               new = Idle \/ new.delivery = d
        PROVE  <1>6!1 /\ <1>6!2
    BY <2>1 DEF TypeInv, TypeOK
  <2>2. CASE Acknowledge(w) \/ WorkerCrash(w)
    BY <2>1, <2>2 DEF Acknowledge, WorkerCrash
  <2>3. CASE FetchPullRequest(w)
    <3> DEFINE new == [worker[w] EXCEPT !.stage = "pull_request", !.head = github[Target(w)]]
    <3>1. new \in Working /\ new.delivery = d
      BY <1>2 DEF Working, TypeInv, TypeOK
    <3>2. worker' = [worker EXCEPT ![w] = new]
      BY <1>2, <2>3 DEF FetchPullRequest, Target, TypeInv, TypeOK
    <3> QED BY <2>1, <3>1, <3>2
  <2>4. CASE FetchFiles(w)
    <3> DEFINE new == [worker[w] EXCEPT !.stage = "files", !.files = github[Target(w)]]
    <3>1. new \in Working /\ new.delivery = d
      BY <1>2 DEF Working, TypeInv, TypeOK
    <3>2. worker' = [worker EXCEPT ![w] = new]
      BY <1>2, <2>4 DEF FetchFiles, Target, TypeInv, TypeOK
    <3> QED BY <2>1, <3>1, <3>2
  <2>5. CASE LockPullRequest(w) \/ ApplySnapshot(w) \/ SynchronizeFails(w)
    <3>1. PICK s \in {"locked", "done", "failed"} :
            worker' = [worker EXCEPT ![w] = [worker[w] EXCEPT !.stage = s]]
      BY <2>5 DEF LockPullRequest, ApplySnapshot, SynchronizeFails
    <3> DEFINE new == [worker[w] EXCEPT !.stage = s]
    <3>2. new \in Working /\ new.delivery = d
      BY <1>2 DEF Working
    <3> QED BY <2>1, <3>1, <3>2
  <2> QED BY <2>2, <2>3, <2>4, <2>5 DEF Process
<1>7. stored' \in [PullRequests -> Snapshot]
  <2>1. CASE ApplySnapshot(w)
    <3> DEFINE limited == <<Target(w), worker[w].files>> \in Oversized
    <3>1. stored' = [stored EXCEPT ![Target(w)] =
                       Applied(stored[Target(w)], worker[w], limited)]
      BY <2>1, Zenon DEF ApplySnapshot, Target
    <3>2. Applied(stored[Target(w)], worker[w], limited) \in Snapshot
      <4>1. limited \in BOOLEAN /\ stored[Target(w)] \in Snapshot
        BY <1>2 DEF TypeInv, TypeOK
      <4> HIDE DEF limited
      <4> QED BY <1>2, <4>1, AppliedType
    <3> QED BY <3>1, <3>2 DEF TypeInv, TypeOK
  <2>2. CASE ~ApplySnapshot(w)
    BY <2>2 DEF Process, LockPullRequest, FetchPullRequest, FetchFiles,
                SynchronizeFails, Acknowledge, WorkerCrash, TypeInv, TypeOK
  <2> QED BY <2>1, <2>2
<1>8. mishaps' \in 0 .. MaxMishaps
  BY MishapType
     DEF Process, LockPullRequest, FetchPullRequest, FetchFiles, ApplySnapshot,
         SynchronizeFails, Acknowledge, WorkerCrash, TypeInv, TypeOK
<1> HIDE DEF d
<1>9. TypeOK'
  BY <1>2, <1>3, <1>4, <1>5, <1>6, <1>7, <1>8, RowWrittenType DEF TypeInv, TypeOK
<1>10. DeliveriesKnown'
  <2>1. \A e \in Deliveries : Exists(e)' <=> Exists(e)
    BY <1>2, <1>3, <1>4, RowWrittenType
  <2>2. \A e \in Deliveries, s \in Retries : BagIn(<<e, s>>, queue') => Exists(e)
    BY <1>2, <1>5 DEF TypeInv, DeliveriesKnown
  <2>3. \A v \in Workers : worker[v] # Idle => worker[v].delivery \in Deliveries
    BY DEF TypeInv, TypeOK, Working
  <2>4. \A y \in Dispatchers : dispatcher[y] # Idle => dispatcher[y].delivery \in Deliveries
    BY DEF TypeInv, TypeOK, Dispatching
  <2> QED BY <1>2, <1>3, <1>6, <2>1, <2>2, <2>3, <2>4 DEF TypeInv, TypeOK, DeliveriesKnown
<1> QED BY <1>2, <1>3, <1>4, <1>9, <1>10, RowWrittenType DEF TypeInv

(* Every step keeps the types and lasting facts.                           *)
LEMMA TypeStep == TypeInv /\ [Next]_vars => TypeInv' /\ Lasting
PROOF
<1> SUFFICES ASSUME TypeInv, [Next]_vars PROVE TypeInv' /\ Lasting
  OBVIOUS
<1>1. CASE UNCHANGED vars
  BY <1>1 DEF vars, TypeInv, TypeOK, DeliveriesKnown, Lasting, Exists
<1>2. CASE Next
  <2>1. ASSUME NEW p \in PullRequests, GitHubChanges(p) PROVE TypeInv' /\ Lasting
    <3>1. CASE Deliveries = {}
      BY <2>1, <3>1 DEF GitHubChanges, TypeInv, TypeOK, DeliveriesKnown, Lasting, Exists
    <3>2. CASE Deliveries # {}
      BY <2>1, <3>2, RouteType
    <3> QED BY <3>1, <3>2
  <2> QED BY <1>2, <2>1, RouteType, DispatchType, ConsumeType, ProcessType DEF Next
<1> QED BY <1>1, <1>2

(* Every variable keeps to its type, for all values of the constants; in   *)
(* particular no message carries more than CELERY_MAX_RETRIES retries.     *)
THEOREM TypeCorrect == Spec => []TypeOK
PROOF
<1>1. TypeInv => TypeOK
  BY DEF TypeInv
<1>2. TypeInv /\ [Next]_vars => TypeInv'
  BY TypeStep
<1> QED BY <1>1, <1>2, TypeInit, PTL DEF Spec

-----------------------------------------------------------------------------
(* Snapshots *)

(* A worker that does not move keeps what it fetched, as long as nobody    *)
(* else applies a snapshot of its pull request.                            *)
LEMMA FetchedStays ==
  ASSUME TypeInv, TypeInv', Lasting, NEW v \in Workers, Fetched(v),
         worker'[v] = worker[v],
         worker[v].stage \in {"pull_request", "files"} =>
           stored'[Target(v)] = stored[Target(v)]
  PROVE  Fetched(v)'
PROOF
<1>1. CASE worker[v].stage \in {"pull_request", "files"}
  <2> DEFINE d == worker[v].delivery  p == delivery[d].pr
  <2>1. /\ worker[v] \in Working /\ d \in Deliveries /\ Exists(d)
        /\ delivery[d] \in DeliveryRow /\ p \in PullRequests
    BY <1>1, RecordTypes DEF Target, Working
  <2>2. delivery'[d].pr = p /\ delivery'[d].since = delivery[d].since
    BY <2>1 DEF Lasting
  <2>3. github[p] \in Nat /\ github'[p] \in Nat /\ github[p] <= github'[p]
    BY <2>1 DEF Lasting, TypeInv, TypeOK
  <2>4. worker[v].head \in Nat /\ worker[v].files \in Nat
    BY <2>1 DEF Working
  <2> QED BY <1>1, <2>2, <2>3, <2>4 DEF Fetched, Target
<1>2. CASE worker[v].stage \notin {"pull_request", "files"}
  BY <1>2 DEF Fetched
<1> QED BY <1>1, <1>2

(* Workers that fetch nothing new keep the exclusion.                      *)
LEMMA ExclusiveStays ==
  ASSUME TypeInv, Lasting, Exclusive,
         \A v \in Workers : Fetching(v)' => Fetching(v) /\ worker'[v].delivery = worker[v].delivery
  PROVE  Exclusive'
PROOF
<1> SUFFICES ASSUME NEW v \in Workers, NEW w \in Workers,
                    Fetching(v)', Fetching(w)', Target(v)' = Target(w)'
             PROVE  v = w
  BY DEF Exclusive
<1>1. \A u \in Workers : Fetching(u)' => Target(u)' = Target(u)
  <2> SUFFICES ASSUME NEW u \in Workers, Fetching(u)' PROVE Target(u)' = Target(u)
    OBVIOUS
  <2>1. Fetching(u) /\ worker'[u].delivery = worker[u].delivery
    OBVIOUS
  <2>2. worker[u].delivery \in Deliveries /\ Exists(worker[u].delivery)
    BY <2>1, RecordTypes DEF Fetching, Working
  <2> QED BY <2>1, <2>2 DEF Target, Lasting
<1> QED BY <1>1 DEF Exclusive

(* What GitHub had it has.                                                 *)
LEMMA FromGitHubStays ==
  ASSUME TypeInv, Lasting, FromGitHub, UNCHANGED stored,
         \A d \in Deliveries :
           Exists(d)' => Exists(d) \/ delivery'[d].since = github'[delivery'[d].pr],
         TypeInv'
  PROVE  FromGitHub'
PROOF
<1>1. ASSUME NEW p \in PullRequests
      PROVE  stored'[p].head <= github'[p] /\ stored'[p].files <= github'[p]
  BY DEF FromGitHub, Lasting, TypeInv, TypeOK, Snapshot
<1>2. ASSUME NEW d \in Deliveries, Exists(d)'
      PROVE  delivery'[d].since <= github'[delivery'[d].pr]
  <2>1. /\ delivery'[d] \in DeliveryRow
        /\ delivery'[d].pr \in PullRequests /\ delivery'[d].since \in Nat
    BY <1>2 DEF TypeInv, TypeOK, Exists, DeliveryRow
  <2>2. github'[delivery'[d].pr] \in Nat
    BY <2>1 DEF TypeInv, TypeOK
  <2>3. CASE Exists(d)
    <3>1. /\ delivery[d].since <= github[delivery[d].pr]
          /\ delivery'[d].pr = delivery[d].pr /\ delivery'[d].since = delivery[d].since
      BY <2>3 DEF FromGitHub, Lasting
    <3>2. github[delivery[d].pr] \in Nat /\ github[delivery[d].pr] <= github'[delivery[d].pr]
      BY <2>1, <3>1 DEF Lasting, TypeInv, TypeOK
    <3> QED BY <2>1, <2>2, <3>1, <3>2
  <2>4. CASE ~Exists(d)
    BY <1>2, <2>1, <2>2, <2>4
  <2> QED BY <2>3, <2>4
<1> QED BY <1>1, <1>2 DEF FromGitHub

(* A step that fetches nothing and applies nothing.                        *)
LEMMA QuietSnapshot ==
  ASSUME SnapshotInv, TypeInv', Lasting, UNCHANGED stored,
         \A v \in Workers : worker'[v] = worker[v] \/ ~Fetching(v)',
         \A d \in Deliveries :
           Exists(d)' => Exists(d) \/ delivery'[d].since = github'[delivery'[d].pr]
  PROVE  SnapshotInv'
PROOF
<1>1. FromGitHub'
  BY FromGitHubStays DEF SnapshotInv
<1>2. Exclusive'
  <2>1. \A v \in Workers : Fetching(v)' =>
          Fetching(v) /\ worker'[v].delivery = worker[v].delivery
    BY DEF Fetching
  <2> QED BY <2>1, ExclusiveStays DEF SnapshotInv
<1>3. ASSUME NEW v \in Workers PROVE Fetched(v)'
  <2>1. CASE worker'[v] = worker[v]
    BY <2>1, FetchedStays DEF SnapshotInv
  <2>2. CASE ~Fetching(v)'
    BY <2>2 DEF Fetching, Fetched
  <2> QED BY <2>1, <2>2
<1>4. FilesAsNewAsHead'
  BY DEF SnapshotInv, FilesAsNewAsHead
<1> QED BY <1>1, <1>2, <1>3, <1>4 DEF SnapshotInv

(* Only the two routes create deliveries.                                  *)
LEMMA NoneCreated ==
  ASSUME TypeInv,
         \/ \E x \in Dispatchers : Dispatch(x) \/ DispatcherCrash(x)
         \/ \E w \in Workers : Consume(w) \/ Process(w) \/ WorkerCrash(w)
  PROVE  \A d \in Deliveries : Exists(d)' => Exists(d)
PROOF
<1>1. ASSUME NEW e \in Deliveries, Exists(e),
             \A f \in Deliveries \ {e} : delivery'[f] = delivery[f]
      PROVE  \A d \in Deliveries : Exists(d)' => Exists(d)
  BY <1>1 DEF Exists
<1>2. CASE UNCHANGED delivery
  BY <1>2 DEF Exists
<1>3. ASSUME NEW x \in Dispatchers, Dispatch(x) \/ DispatcherCrash(x),
             ~UNCHANGED delivery
      PROVE  \A d \in Deliveries : Exists(d)' => Exists(d)
  <2>1. PublishFails(x) \/ CommitPublished(x)
    BY <1>3 DEF Dispatch, LockOutbox, Publish, DispatcherCrash
  <2>2. dispatcher[x] # Idle
    BY <2>1, IdleIsNoProcess DEF PublishFails, CommitPublished
  <2>3. dispatcher[x].delivery \in Deliveries /\ Exists(dispatcher[x].delivery)
    BY <2>2, RecordTypes DEF Dispatching
  <2>4. \A f \in Deliveries \ {dispatcher[x].delivery} : delivery'[f] = delivery[f]
    BY <2>1, <2>3 DEF PublishFails, CommitPublished, TypeInv, TypeOK
  <2> QED BY <1>1, <2>3, <2>4
<1>4. ASSUME NEW w \in Workers, Consume(w)
      PROVE  \A d \in Deliveries : Exists(d)' => Exists(d)
  <2>1. PICK d \in Deliveries, r \in Retries :
          StartProcessing(w, d, r) \/ DropMessage(w, d, r)
    BY <1>4 DEF Consume
  <2>2. Exists(d)
    BY <2>1 DEF StartProcessing, DropMessage, TypeInv, DeliveriesKnown
  <2>3. \A f \in Deliveries \ {d} : delivery'[f] = delivery[f]
    BY <2>1 DEF StartProcessing, DropMessage, TypeInv, TypeOK
  <2> QED BY <1>1, <2>2, <2>3
<1>5. ASSUME NEW w \in Workers, Process(w) \/ WorkerCrash(w), ~UNCHANGED delivery
      PROVE  \A d \in Deliveries : Exists(d)' => Exists(d)
  <2>1. ApplySnapshot(w) \/ SynchronizeFails(w)
    BY <1>5 DEF Process, LockPullRequest, FetchPullRequest, FetchFiles,
                Acknowledge, WorkerCrash
  <2>2. worker[w].stage # "idle"
    BY <2>1 DEF ApplySnapshot, SynchronizeFails
  <2>3. worker[w].delivery \in Deliveries /\ Exists(worker[w].delivery)
    BY <2>2, RecordTypes DEF Working
  <2>4. \A f \in Deliveries \ {worker[w].delivery} : delivery'[f] = delivery[f]
    BY <2>1, <2>3 DEF ApplySnapshot, SynchronizeFails, TypeInv, TypeOK
  <2> QED BY <1>1, <2>3, <2>4
<1> QED BY <1>2, <1>3, <1>4, <1>5

(* A delivery that a route creates stands for what GitHub has.             *)
LEMMA RouteSnapshot ==
  ASSUME SnapshotInv, TypeInv', Lasting, NEW p \in PullRequests,
         GitHubChanges(p) \/ (\E d \in Deliveries : Receive(p, d) \/ Resync(p, d))
  PROVE  SnapshotInv'
PROOF
<1>1. UNCHANGED <<stored, worker>>
  BY DEF GitHubChanges, Receive, Resync
<1>2. ASSUME NEW e \in Deliveries, Exists(e)', ~Exists(e)
      PROVE  delivery'[e].since = github'[delivery'[e].pr]
  <2>1. ~GitHubChanges(p)
    BY <1>2 DEF GitHubChanges, Exists
  <2>2. PICK d \in Deliveries : Receive(p, d) \/ Resync(p, d)
    BY <2>1
  <2>3. PICK o : delivery' = [delivery EXCEPT ![d] = NewDelivery(o)]
    BY <2>2 DEF Receive, Resync
  <2>4. UNCHANGED github
    BY <2>2 DEF Receive, Resync
  <2>5. e = d /\ delivery'[e] = NewDelivery(o)
    BY <1>2, <2>3 DEF Exists, SnapshotInv, TypeInv, TypeOK
  <2> QED BY <2>4, <2>5 DEF NewDelivery
<1> QED BY <1>1, <1>2, QuietSnapshot

(* The pull request's lock is what keeps two workers apart.                *)
LEMMA LockSnapshot ==
  ASSUME SnapshotInv, TypeInv', Lasting, NEW w \in Workers, LockPullRequest(w)
  PROVE  SnapshotInv'
PROOF
<1>1. /\ UNCHANGED <<github, stored, delivery>>
      /\ \A v \in Workers \ {w} : worker'[v] = worker[v]
      /\ worker'[w].stage = "locked" /\ worker'[w].delivery = worker[w].delivery
  <2>1. worker[w] \in Working
    BY RecordTypes DEF LockPullRequest, SnapshotInv
  <2> QED BY <2>1 DEF LockPullRequest, SnapshotInv, TypeInv, TypeOK, Working
<1>2. FromGitHub'
  BY <1>1, FromGitHubStays DEF SnapshotInv, Exists
<1>3. Exclusive'
  <2>1. \A v \in Workers : Target(v)' = Target(v)
    BY <1>1 DEF Target
  <2>2. \A v \in Workers : Fetching(v) => Target(v) # Target(w)
    BY DEF LockPullRequest, PullRequestFree, Fetching, Target
  <2>3. \A v \in Workers \ {w} : Fetching(v)' => Fetching(v)
    BY <1>1 DEF Fetching
  <2> QED BY <2>1, <2>2, <2>3 DEF SnapshotInv, Exclusive
<1>4. ASSUME NEW v \in Workers PROVE Fetched(v)'
  <2>1. CASE v = w
    BY <1>1, <2>1 DEF Fetched
  <2>2. CASE v # w
    BY <1>1, <2>2, FetchedStays DEF SnapshotInv
  <2> QED BY <2>1, <2>2
<1> QED BY <1>1, <1>2, <1>3, <1>4 DEF SnapshotInv, FilesAsNewAsHead

(* Each of the two requests returns GitHub's version of its moment.        *)
LEMMA FetchSnapshot ==
  ASSUME SnapshotInv, TypeInv', Lasting, NEW w \in Workers,
         FetchPullRequest(w) \/ FetchFiles(w)
  PROVE  SnapshotInv'
PROOF
<1> DEFINE d == worker[w].delivery  p == delivery[d].pr
<1>1. worker[w].stage \in {"locked", "pull_request"} /\ Fetching(w)
  BY DEF FetchPullRequest, FetchFiles, Fetching
<1>2. /\ worker[w] \in Working /\ d \in Deliveries /\ Exists(d)
      /\ delivery[d] \in DeliveryRow /\ p \in PullRequests
  BY <1>1, RecordTypes DEF SnapshotInv, Target, Working
<1>3. UNCHANGED <<github, stored, delivery>>
  BY DEF FetchPullRequest, FetchFiles
<1>4. \A v \in Workers \ {w} : worker'[v] = worker[v]
  BY DEF FetchPullRequest, FetchFiles, SnapshotInv, TypeInv, TypeOK
<1>5. worker'[w].delivery = d
  BY <1>2 DEF FetchPullRequest, FetchFiles, SnapshotInv, TypeInv, TypeOK, Working
<1>6. FromGitHub'
  BY <1>3, FromGitHubStays DEF SnapshotInv, Exists
<1>7. Exclusive'
  <2>1. \A v \in Workers : Fetching(v)' =>
          Fetching(v) /\ worker'[v].delivery = worker[v].delivery
    BY <1>1, <1>4, <1>5 DEF Fetching
  <2> QED BY <2>1, ExclusiveStays DEF SnapshotInv
<1>8. Fetched(w)'
  <2>1. github[p] \in Nat /\ stored[p].head <= github[p] /\ stored[p].files <= github[p]
    BY <1>2 DEF SnapshotInv, FromGitHub, TypeInv, TypeOK
  <2>2. delivery[d].since <= github[p]
    BY <1>2 DEF SnapshotInv, FromGitHub
  <2>3. Target(w)' = p
    BY <1>3, <1>5 DEF Target
  <2>4. CASE FetchPullRequest(w)
    <3>1. worker'[w].stage = "pull_request" /\ worker'[w].head = github[p]
      BY <1>2, <2>4 DEF FetchPullRequest, SnapshotInv, TypeInv, TypeOK, Working
    <3> QED BY <1>3, <1>5, <2>1, <2>2, <2>3, <3>1 DEF Fetched
  <2>5. CASE FetchFiles(w)
    <3>1. /\ worker'[w].stage = "files" /\ worker'[w].files = github[p]
          /\ worker'[w].head = worker[w].head /\ worker[w].stage = "pull_request"
      BY <1>2, <2>5 DEF FetchFiles, SnapshotInv, TypeInv, TypeOK, Working
    <3>2. Fetched(w) /\ Target(w) = p
      BY DEF SnapshotInv, Target
    <3> QED BY <1>3, <1>5, <2>1, <2>3, <3>1, <3>2 DEF Fetched
  <2> QED BY <2>4, <2>5
<1>9. ASSUME NEW v \in Workers PROVE Fetched(v)'
  BY <1>3, <1>4, <1>8, FetchedStays DEF SnapshotInv
<1> QED BY <1>3, <1>6, <1>7, <1>9 DEF SnapshotInv, FilesAsNewAsHead

(* What applying does to the stored copy: the columns are the fetched ones *)
(* and at least as new as the delivery, nothing goes back, and no other    *)
(* pull request is touched.                                                *)
LEMMA AppliedSnapshot ==
  ASSUME SnapshotInv, NEW w \in Workers, ApplySnapshot(w), NEW p, p = Target(w)
  PROVE  /\ p \in PullRequests /\ Fetching(w)
         /\ \A o \in PullRequests \ {p} : stored'[o] = stored[o]
         /\ stored'[p] \in Snapshot
         /\ stored[p].head <= stored'[p].head
         /\ stored[p].files <= stored'[p].files
         /\ stored'[p].head <= github[p] /\ stored'[p].files <= github[p]
         /\ delivery[worker[w].delivery].since <= stored'[p].head
         /\ stored'[p].complete => stored'[p].head <= stored'[p].files
PROOF
<1> DEFINE limited == <<p, worker[w].files>> \in Oversized
<1>1. worker[w].stage = "files"
  BY DEF ApplySnapshot
<1>2. /\ worker[w] \in Working /\ p \in PullRequests
      /\ delivery[worker[w].delivery] \in DeliveryRow
  BY <1>1, RecordTypes DEF SnapshotInv
<1>3. stored[p] \in Snapshot /\ github[p] \in Nat
  BY <1>2 DEF SnapshotInv, TypeInv, TypeOK
<1>4. stored' = [stored EXCEPT ![p] = Applied(stored[p], worker[w], limited)]
  BY Zenon DEF ApplySnapshot, Target
<1>5. limited \in BOOLEAN
  OBVIOUS
<1> HIDE DEF limited
<1>6. stored'[p] = Applied(stored[p], worker[w], limited)
  BY <1>2, <1>4 DEF SnapshotInv, TypeInv, TypeOK
<1>7. /\ stored[p].head <= worker[w].head /\ stored[p].files <= worker[w].head
      /\ delivery[worker[w].delivery].since <= worker[w].head
      /\ worker[w].head <= github[p]
      /\ worker[w].head <= worker[w].files /\ worker[w].files <= github[p]
  BY <1>1 DEF SnapshotInv, Fetched
<1>8. /\ worker[w].head \in Nat /\ worker[w].files \in Nat
      /\ stored[p].head \in Nat /\ stored[p].files \in Nat
  BY <1>2, <1>3 DEF Working, Snapshot
<1>9. Applied(stored[p], worker[w], limited) =
        [head |-> worker[w].head,
         files |-> IF limited THEN stored[p].files ELSE worker[w].files,
         complete |-> ~limited]
  BY <1>7, <1>8 DEF Applied
<1>10. stored'[p] \in Snapshot
  BY <1>2, <1>3, <1>5, <1>6, AppliedType
<1>11. \A o \in PullRequests \ {p} : stored'[o] = stored[o]
  BY <1>4 DEF SnapshotInv, TypeInv, TypeOK
<1>12. /\ stored'[p].head = worker[w].head
       /\ stored'[p].files = IF limited THEN stored[p].files ELSE worker[w].files
       /\ stored'[p].complete = ~limited
  BY <1>6, <1>9
<1>13. stored[p].files <= github[p]
  BY <1>2 DEF SnapshotInv, FromGitHub
<1>14. CASE limited
  <2>1. stored'[p].complete = FALSE
    BY <1>12, <1>14, Zenon
  <2>2. stored'[p].files = stored[p].files
    BY <1>12, <1>14
  <2> QED BY <1>1, <1>2, <1>7, <1>8, <1>10, <1>11, <1>12, <1>13, <2>1, <2>2 DEF Fetching
<1>15. CASE ~limited
  <2>1. stored'[p].files = worker[w].files
    BY <1>12, <1>15
  <2>2. stored[p].files <= worker[w].files /\ worker[w].head <= worker[w].files
    BY <1>7, <1>8
  <2> QED BY <1>1, <1>2, <1>7, <1>10, <1>11, <1>12, <2>1, <2>2 DEF Fetching
<1> QED BY <1>14, <1>15

(* Applying a snapshot keeps the invariant: whoever else is fetching works *)
(* on another pull request.                                                *)
LEMMA ApplySnapshotStep ==
  ASSUME SnapshotInv, TypeInv', Lasting, NEW w \in Workers, ApplySnapshot(w)
  PROVE  SnapshotInv'
PROOF
<1> DEFINE p == Target(w)
<1>1. /\ p \in PullRequests /\ Fetching(w)
      /\ \A o \in PullRequests \ {p} : stored'[o] = stored[o]
      /\ stored'[p].head <= github[p] /\ stored'[p].files <= github[p]
      /\ stored'[p].complete => stored'[p].head <= stored'[p].files
  BY AppliedSnapshot
<1>2. UNCHANGED github /\ \A v \in Workers \ {w} : worker'[v] = worker[v]
  BY DEF ApplySnapshot, SnapshotInv, TypeInv, TypeOK
<1>3. worker'[w].stage = "done" /\ ~Fetching(w)'
  <2>1. worker[w] \in Working
    BY <1>1, RecordTypes DEF SnapshotInv, Fetching
  <2> QED BY <2>1 DEF ApplySnapshot, Fetching, SnapshotInv, TypeInv, TypeOK, Working
<1>4. Exclusive'
  <2>1. \A v \in Workers : Fetching(v)' =>
          Fetching(v) /\ worker'[v].delivery = worker[v].delivery
    BY <1>2, <1>3 DEF Fetching
  <2> QED BY <2>1, ExclusiveStays DEF SnapshotInv
<1>5. FromGitHub'
  <2>1. \A o \in PullRequests : stored'[o].head <= github[o] /\ stored'[o].files <= github[o]
    BY <1>1 DEF SnapshotInv, FromGitHub
  <2>2. \A d \in Deliveries : Exists(d)' => Exists(d)
    BY NoneCreated DEF SnapshotInv, Process
  <2>3. ASSUME NEW d \in Deliveries, Exists(d)'
        PROVE  delivery'[d].since <= github'[delivery'[d].pr]
    BY <1>2, <2>2, <2>3 DEF SnapshotInv, FromGitHub, Lasting
  <2> QED BY <1>2, <2>1, <2>3 DEF FromGitHub
<1>6. ASSUME NEW v \in Workers PROVE Fetched(v)'
  <2>1. CASE v = w
    BY <1>3, <2>1 DEF Fetched
  <2>2. CASE v # w
    <3>1. worker[v].stage \in {"pull_request", "files"} =>
            Target(v) \in PullRequests \ {p}
      BY <1>1, <2>2, RecordTypes DEF SnapshotInv, Exclusive, Fetching
    <3> QED BY <1>1, <1>2, <2>2, <3>1, FetchedStays DEF SnapshotInv
  <2> QED BY <2>1, <2>2
<1>7. FilesAsNewAsHead'
  BY <1>1 DEF SnapshotInv, FilesAsNewAsHead
<1> QED BY <1>4, <1>5, <1>6, <1>7 DEF SnapshotInv

(* The invariant holds at first and every step keeps it.                   *)
LEMMA SnapshotInit == Init => SnapshotInv
PROOF
<1> SUFFICES ASSUME Init PROVE SnapshotInv
  OBVIOUS
<1>1. TypeInv
  BY TypeInit
<1>2. \A w \in Workers : worker[w].stage = "idle"
  BY IdleIsNoProcess DEF Init
<1>3. Exclusive /\ \A w \in Workers : Fetched(w)
  BY <1>2 DEF Exclusive, Fetching, Fetched
<1>4. FromGitHub /\ FilesAsNewAsHead
  BY DEF Init, FromGitHub, Exists, FilesAsNewAsHead
<1> QED BY <1>1, <1>3, <1>4 DEF SnapshotInv

(* One case for each action.                                               *)
LEMMA SnapshotStep == SnapshotInv /\ [Next]_vars => SnapshotInv'
PROOF
<1> SUFFICES ASSUME SnapshotInv, [Next]_vars PROVE SnapshotInv'
  OBVIOUS
<1>1. TypeInv' /\ Lasting
  BY TypeStep DEF SnapshotInv
<1>2. CASE UNCHANGED vars
  BY <1>1, <1>2, QuietSnapshot DEF vars, Exists
<1>3. ASSUME NEW p \in PullRequests,
             GitHubChanges(p) \/ (\E d \in Deliveries : Receive(p, d) \/ Resync(p, d))
      PROVE  SnapshotInv'
  BY <1>1, <1>3, RouteSnapshot
<1>4. ASSUME NEW x \in Dispatchers, Dispatch(x) \/ DispatcherCrash(x)
      PROVE  SnapshotInv'
  <2>1. UNCHANGED <<stored, worker>>
    BY <1>4 DEF Dispatch, LockOutbox, Publish, PublishFails, CommitPublished, DispatcherCrash
  <2>2. \A d \in Deliveries : Exists(d)' => Exists(d)
    BY <1>4, NoneCreated DEF SnapshotInv
  <2> QED BY <1>1, <2>1, <2>2, QuietSnapshot
<1>5. ASSUME NEW w \in Workers,
             Consume(w) \/ SynchronizeFails(w) \/ Acknowledge(w) \/ WorkerCrash(w)
      PROVE  SnapshotInv'
  <2>1. UNCHANGED stored
    BY <1>5 DEF Consume, StartProcessing, DropMessage, SynchronizeFails,
                Acknowledge, WorkerCrash
  <2>2. \A d \in Deliveries : Exists(d)' => Exists(d)
    BY <1>5, NoneCreated DEF SnapshotInv, Process
  <2>3. \A v \in Workers : worker'[v] = worker[v] \/ ~Fetching(v)'
    <3>1. CASE Consume(w)
      <4>1. PICK d \in Deliveries, r \in Retries :
              StartProcessing(w, d, r) \/ DropMessage(w, d, r)
        BY <3>1 DEF Consume
      <4> QED BY <4>1 DEF StartProcessing, DropMessage, Fetching, SnapshotInv,
                          TypeInv, TypeOK
    <3>2. CASE SynchronizeFails(w)
      <4>1. worker[w] \in Working
        BY <3>2, RecordTypes DEF SynchronizeFails, SnapshotInv
      <4> QED BY <3>2, <4>1 DEF SynchronizeFails, Fetching, SnapshotInv, TypeInv,
                                TypeOK, Working
    <3>3. CASE Acknowledge(w) \/ WorkerCrash(w)
      <4>1. worker' = [worker EXCEPT ![w] = Idle]
        BY <3>3 DEF Acknowledge, WorkerCrash
      <4> QED BY <4>1, IdleIsNoProcess DEF Fetching, SnapshotInv, TypeInv, TypeOK
    <3> QED BY <1>5, <3>1, <3>2, <3>3
  <2> QED BY <1>1, <2>1, <2>2, <2>3, QuietSnapshot
<1>6. ASSUME NEW w \in Workers,
             \/ LockPullRequest(w) \/ FetchPullRequest(w) \/ FetchFiles(w)
             \/ ApplySnapshot(w)
      PROVE  SnapshotInv'
  BY <1>1, <1>6, LockSnapshot, FetchSnapshot, ApplySnapshotStep
<1> QED BY <1>2, <1>3, <1>4, <1>5, <1>6 DEF Next, Process

(* A complete snapshot's files are never older than its head, however many *)
(* workers fetch at once (ApplySnapshot, between two requests to GitHub).  *)
THEOREM CompleteSnapshots == Spec => []FilesAsNewAsHead
PROOF
<1>1. SnapshotInv => FilesAsNewAsHead
  BY DEF SnapshotInv
<1>2. SnapshotInv /\ [Next]_vars => SnapshotInv'
  BY SnapshotStep
<1> QED BY <1>1, <1>2, SnapshotInit, PTL DEF Spec

(* A step leaves the stored copy of a pull request as new as it was: the   *)
(* advisory lock on the pull request, held from the first request to the   *)
(* commit, makes the fetched versions grow.                                *)
LEMMA StoredGrows ==
  ASSUME SnapshotInv, [Next]_vars
  PROVE  \A p \in PullRequests : /\ stored'[p].head >= stored[p].head
                                 /\ stored'[p].files >= stored[p].files
PROOF
<1>1. \A p \in PullRequests : stored[p].head \in Nat /\ stored[p].files \in Nat
  BY DEF SnapshotInv, TypeInv, TypeOK, Snapshot
<1>2. CASE UNCHANGED stored
  BY <1>1, <1>2
<1>3. ASSUME NEW w \in Workers, ApplySnapshot(w),  NEW p \in PullRequests
      PROVE  stored'[p].head >= stored[p].head /\ stored'[p].files >= stored[p].files
  <2>1. CASE p = Target(w)
    <3>1. /\ stored'[p] \in Snapshot
          /\ stored[p].head <= stored'[p].head /\ stored[p].files <= stored'[p].files
      BY <1>3, <2>1, AppliedSnapshot
    <3> QED BY <1>1, <3>1 DEF Snapshot
  <2>2. CASE p # Target(w)
    BY <1>1, <1>3, <2>2, AppliedSnapshot
  <2> QED BY <2>1, <2>2
<1>4. UNCHANGED stored \/ \E w \in Workers : ApplySnapshot(w)
  BY DEF vars, Next, GitHubChanges, Receive, Resync, Dispatch, LockOutbox, Publish,
         PublishFails, CommitPublished, DispatcherCrash, Consume, StartProcessing,
         DropMessage, Process, LockPullRequest, FetchPullRequest, FetchFiles,
         SynchronizeFails, Acknowledge, WorkerCrash
<1> QED BY <1>2, <1>3, <1>4

(* Older jobs cannot overwrite newer GitHub state: in no behaviour does    *)
(* ApplySnapshot take a pull request's columns or file rows back.          *)
THEOREM NoSnapshotRegresses == Spec => SnapshotsNeverRegress
PROOF
<1>1. SnapshotInv /\ [Next]_vars =>
        [\A p \in PullRequests : /\ stored'[p].head >= stored[p].head
                                 /\ stored'[p].files >= stored[p].files]_stored
  BY StoredGrows
<1>2. SnapshotInv /\ [Next]_vars => SnapshotInv'
  BY SnapshotStep
<1> QED BY <1>1, <1>2, SnapshotInit, PTL DEF Spec, SnapshotsNeverRegress

-----------------------------------------------------------------------------
(* Deliveries *)

(* Which steps start processing a delivery or give it an outcome.          *)
LEMMA StatusStep ==
  ASSUME SnapshotInv, Next, NEW e \in Deliveries, Exists(e)'
  PROVE  \/ Exists(e) /\ delivery'[e].status = delivery[e].status
         \/ delivery'[e].status \notin {"processing", "complete", "incomplete"}
         \/ /\ \E w \in Workers, r \in Retries : StartProcessing(w, e, r)
            /\ delivery'[e].status = "processing"
         \/ /\ \E w \in Workers : ApplySnapshot(w) /\ worker[w].delivery = e
            /\ delivery'[e].status # "processing"
PROOF
<1> DEFINE Goal ==
         \/ Exists(e) /\ delivery'[e].status = delivery[e].status
         \/ delivery'[e].status \notin {"processing", "complete", "incomplete"}
         \/ /\ \E w \in Workers, r \in Retries : StartProcessing(w, e, r)
            /\ delivery'[e].status = "processing"
         \/ /\ \E w \in Workers : ApplySnapshot(w) /\ worker[w].delivery = e
            /\ delivery'[e].status # "processing"
<1>1. CASE delivery'[e] = delivery[e]
  BY <1>1 DEF Exists
<1>2. ASSUME NEW p \in PullRequests, NEW d \in Deliveries,
             Receive(p, d) \/ Resync(p, d), delivery'[e] # delivery[e]
      PROVE  Goal
  <2>1. PICK o : delivery' = [delivery EXCEPT ![d] = NewDelivery(o)]
    BY <1>2 DEF Receive, Resync
  <2>2. delivery'[e] = NewDelivery(o)
    BY <1>2, <2>1 DEF SnapshotInv, TypeInv, TypeOK
  <2> QED BY <2>2 DEF NewDelivery
<1>3. ASSUME NEW x \in Dispatchers, Dispatch(x) \/ DispatcherCrash(x),
             delivery'[e] # delivery[e]
      PROVE  Goal
  <2>1. PublishFails(x) \/ CommitPublished(x)
    BY <1>3 DEF Dispatch, LockOutbox, Publish, DispatcherCrash
  <2>2. dispatcher[x] # Idle
    BY <2>1, IdleIsNoProcess DEF PublishFails, CommitPublished
  <2>3. /\ dispatcher[x].delivery \in Deliveries
        /\ delivery[dispatcher[x].delivery] \in DeliveryRow
        /\ Exists(dispatcher[x].delivery)
    BY <2>2, RecordTypes DEF SnapshotInv, Dispatching
  <2>4. e = dispatcher[x].delivery
    BY <1>3, <2>1, <2>3 DEF PublishFails, CommitPublished, SnapshotInv, TypeInv, TypeOK
  <2>5. CASE PublishFails(x)
    <3>1. delivery'[e] = [delivery[e] EXCEPT !.outbox = "failed"]
      BY <2>3, <2>4, <2>5 DEF PublishFails, SnapshotInv, TypeInv, TypeOK
    <3> QED BY <2>3, <2>4, <3>1 DEF DeliveryRow
  <2>6. CASE CommitPublished(x)
    <3>1. delivery'[e] = [delivery[e] EXCEPT !.outbox = "published", !.status = "queued"]
      BY <2>3, <2>4, <2>6 DEF CommitPublished, SnapshotInv, TypeInv, TypeOK
    <3> QED BY <2>3, <2>4, <3>1 DEF DeliveryRow
  <2> QED BY <2>1, <2>5, <2>6
<1>4. ASSUME NEW w \in Workers, Consume(w), delivery'[e] # delivery[e]
      PROVE  Goal
  <2>1. PICK d \in Deliveries, r \in Retries :
          StartProcessing(w, d, r) \/ DropMessage(w, d, r)
    BY <1>4 DEF Consume
  <2>2. StartProcessing(w, d, r) /\ Exists(d) /\ delivery[d] \in DeliveryRow
    BY <1>4, <2>1, RecordTypes
       DEF DropMessage, StartProcessing, SnapshotInv, TypeInv, DeliveriesKnown
  <2>3. delivery' = [delivery EXCEPT ![d] = [delivery[d] EXCEPT !.status = "processing"]]
    BY <2>2 DEF StartProcessing
  <2>4. e = d /\ delivery'[e] = [delivery[e] EXCEPT !.status = "processing"]
    BY <1>4, <2>3 DEF SnapshotInv, TypeInv, TypeOK
  <2>5. delivery'[e].status = "processing"
    BY <2>2, <2>4 DEF DeliveryRow
  <2> QED BY <2>2, <2>4, <2>5
<1>5. ASSUME NEW w \in Workers, Process(w) \/ WorkerCrash(w),
             delivery'[e] # delivery[e]
      PROVE  Goal
  <2>1. ApplySnapshot(w) \/ SynchronizeFails(w)
    BY <1>5 DEF Process, LockPullRequest, FetchPullRequest, FetchFiles,
                Acknowledge, WorkerCrash
  <2>2. worker[w].stage # "idle"
    BY <2>1 DEF ApplySnapshot, SynchronizeFails
  <2>3. /\ worker[w].delivery \in Deliveries
        /\ delivery[worker[w].delivery] \in DeliveryRow
    BY <2>2, RecordTypes DEF SnapshotInv, Working
  <2>4. PICK s \in {"failed", "incomplete", "complete"} :
          /\ delivery' = [delivery EXCEPT ![worker[w].delivery] =
                            [delivery[worker[w].delivery] EXCEPT !.status = s]]
          /\ s # "failed" => ApplySnapshot(w)
    BY <2>1 DEF ApplySnapshot, SynchronizeFails
  <2>5. /\ e = worker[w].delivery
        /\ delivery'[e] = [delivery[e] EXCEPT !.status = s]
    BY <1>5, <2>4 DEF SnapshotInv, TypeInv, TypeOK
  <2>6. delivery'[e].status = s
    BY <2>3, <2>5 DEF DeliveryRow
  <2> QED BY <2>4, <2>5, <2>6
<1>6. ASSUME NEW p \in PullRequests, GitHubChanges(p) PROVE Goal
  BY <1>1, <1>6 DEF GitHubChanges
<1> HIDE DEF Goal
<1>7. Goal
  <2>1. CASE delivery'[e] = delivery[e]
    BY <1>1, <2>1 DEF Goal
  <2>2. CASE delivery'[e] # delivery[e]
    BY <1>2, <1>3, <1>4, <1>5, <1>6, <2>2 DEF Next
  <2> QED BY <2>1, <2>2
<1> QED BY <1>7 DEF Goal

(* Only consuming takes messages away.                                     *)
LEMMA MessagesStay ==
  ASSUME SnapshotInv, Next, ~ \E w \in Workers : Consume(w)
  PROVE  BagToSet(queue) \subseteq BagToSet(queue')
PROOF
<1>1. ASSUME NEW m \in Deliveries \X Retries, Enqueued(m)
      PROVE  BagToSet(queue) \subseteq BagToSet(queue')
  BY <1>1, QueueSteps DEF SnapshotInv, TypeInv
<1>2. ASSUME UNCHANGED queue PROVE BagToSet(queue) \subseteq BagToSet(queue')
  BY <1>2
<1>3. ASSUME NEW x \in Dispatchers, Publish(x) \/ PublishFails(x), ~UNCHANGED queue
      PROVE  BagToSet(queue) \subseteq BagToSet(queue')
  <2>1. dispatcher[x] # Idle
    BY <1>3, IdleIsNoProcess DEF Publish, PublishFails
  <2>2. <<dispatcher[x].delivery, 0>> \in Deliveries \X Retries
    BY <2>1, RecordTypes, IngestionAssumption DEF SnapshotInv, Dispatching, Retries
  <2>3. Enqueued(<<dispatcher[x].delivery, 0>>)
    BY <1>3 DEF Publish, PublishFails
  <2> QED BY <1>1, <2>2, <2>3
<1>4. ASSUME NEW w \in Workers, Acknowledge(w) \/ WorkerCrash(w), ~UNCHANGED queue
      PROVE  BagToSet(queue) \subseteq BagToSet(queue')
  <2> DEFINE d == worker[w].delivery  r == worker[w].retry
  <2>1. worker[w] # Idle
    BY <1>4, IdleIsNoProcess DEF Acknowledge, WorkerCrash
  <2>2. worker[w] \in Working /\ d \in Deliveries /\ r \in Retries
    BY <2>1 DEF SnapshotInv, TypeInv, TypeOK, Working
  <2>3. CASE Acknowledge(w)
    <3>1. HasRetryRemaining(r) /\ Enqueued(<<d, r + 1>>)
      BY <1>4, <2>3 DEF Acknowledge
    <3>2. r + 1 \in Retries
      BY <2>2, <3>1, IngestionAssumption DEF HasRetryRemaining, Retries
    <3> QED BY <1>1, <2>2, <3>1, <3>2
  <2>4. CASE WorkerCrash(w)
    BY <1>1, <2>2, <2>4 DEF WorkerCrash, Redelivered
  <2> QED BY <1>4, <2>3, <2>4
<1>5. \/ UNCHANGED queue
      \/ \E x \in Dispatchers : Publish(x) \/ PublishFails(x)
      \/ \E w \in Workers : Acknowledge(w) \/ WorkerCrash(w)
  BY DEF Next, GitHubChanges, Receive, Resync, Dispatch, LockOutbox,
         CommitPublished, DispatcherCrash, Process, LockPullRequest,
         FetchPullRequest, FetchFiles, ApplySnapshot, SynchronizeFails
<1> QED BY <1>2, <1>3, <1>4, <1>5

(* Late acknowledgement and redelivery: a worker that stops processing     *)
(* leaves an outcome, a failure or its message behind, and a message that  *)
(* is dropped is about a delivery that is locked or has an outcome.        *)
LEMMA AttendedStep ==
  ASSUME SnapshotInv, Next, NEW e \in Deliveries, Exists(e), Attended(e),
         delivery[e].status = "processing", delivery'[e].status = "processing"
  PROVE  Attended(e)'
PROOF
<1> DEFINE Message == \E r \in Retries : BagIn(<<e, r>>, queue)
           Goal == (Message \/ DeliveryLocked(e))'
<1>1. SUFFICES Goal
  BY DEF Attended
<1>2. Message \/ DeliveryLocked(e)
  BY DEF Attended
<1>3. ASSUME NEW w \in Workers, Consume(w) PROVE Goal
  <2>1. PICK d \in Deliveries, r \in Retries :
          StartProcessing(w, d, r) \/ DropMessage(w, d, r)
    BY <1>3 DEF Consume
  <2>2. worker[w] = Idle /\ Taken(<<d, r>>)
    BY <2>1 DEF StartProcessing, DropMessage
  <2>3. \A v \in Workers : worker[v] # Idle => worker'[v] = worker[v]
    BY <2>1 DEF StartProcessing, DropMessage, SnapshotInv, TypeInv, TypeOK
  <2>4. CASE DeliveryLocked(e)
    <3>1. DeliveryLocked(e)'
      BY <2>3, <2>4 DEF DeliveryLocked, Holds
    <3> QED BY <3>1
  <2>5. CASE ~DeliveryLocked(e) /\ d = e
    <3>1. StartProcessing(w, e, r)
      BY <2>1, <2>5 DEF DropMessage
    <3>2. worker'[w] = [stage |-> "processing", delivery |-> e, retry |-> r,
                        head |-> 0, files |-> 0]
      BY <3>1 DEF StartProcessing, SnapshotInv, TypeInv, TypeOK
    <3>3. DeliveryLocked(e)'
      BY <3>2 DEF DeliveryLocked, Holds, Idle
    <3> QED BY <3>3
  <2>6. CASE ~DeliveryLocked(e) /\ d # e
    <3>1. PICK s \in Retries : BagIn(<<e, s>>, queue)
      BY <1>2, <2>6
    <3>2. BagIn(<<e, s>>, queue')
      BY <2>2, <2>6, <3>1, QueueSteps DEF SnapshotInv, TypeInv, BagIn
    <3> QED BY <3>2
  <2> QED BY <2>4, <2>5, <2>6
<1>4. CASE ~ \E w \in Workers : Consume(w)
  <2>1. CASE Message
    BY <1>4, <2>1, MessagesStay DEF BagIn
  <2>2. CASE ~Message
    <3>1. PICK v \in Workers : /\ Holds(worker[v], e)
                               /\ worker[v].stage \notin {"failed", "done"}
      BY <1>2, <2>2 DEF DeliveryLocked
    <3>2. worker[v] \in Working
      BY <3>1 DEF Holds, SnapshotInv, TypeInv, TypeOK
    <3>3. CASE worker'[v] = worker[v]
      <4>1. DeliveryLocked(e)'
        BY <3>1, <3>3 DEF DeliveryLocked, Holds
      <4> QED BY <4>1
    <3>4. CASE WorkerCrash(v)
      <4>1. Enqueued(<<e, worker[v].retry>>) /\ worker[v].retry \in Retries
        BY <3>1, <3>2, <3>4 DEF WorkerCrash, Redelivered, Holds, Working
      <4>2. BagIn(<<e, worker[v].retry>>, queue')
        BY <4>1, QueueSteps DEF SnapshotInv, TypeInv, BagIn
      <4> QED BY <4>1, <4>2
    <3>5. CASE LockPullRequest(v) \/ FetchPullRequest(v) \/ FetchFiles(v)
      <4>1. /\ worker'[v].delivery = e
            /\ worker'[v].stage \in {"locked", "pull_request", "files"}
        BY <3>1, <3>2, <3>5 DEF LockPullRequest, FetchPullRequest, FetchFiles, Holds,
                                SnapshotInv, TypeInv, TypeOK, Working
      <4>2. worker'[v] # Idle
        BY <4>1, IdleIsNoProcess
      <4>3. DeliveryLocked(e)'
        BY <4>1, <4>2 DEF DeliveryLocked, Holds
      <4> QED BY <4>3
    <3>6. ~ApplySnapshot(v) /\ ~SynchronizeFails(v)
      <4>1. delivery[e] \in DeliveryRow
        BY RecordTypes DEF SnapshotInv
      <4>2. ASSUME NEW s \in {"failed", "incomplete", "complete"},
                   delivery' = [delivery EXCEPT ![e] = [delivery[e] EXCEPT !.status = s]]
            PROVE  FALSE
        BY <4>1, <4>2 DEF DeliveryRow, SnapshotInv, TypeInv, TypeOK
      <4> QED BY <3>1, <4>2 DEF ApplySnapshot, SynchronizeFails, Holds
    <3>7. ~Acknowledge(v)
      BY <3>1 DEF Acknowledge
    <3>8. worker'[v] = worker[v] \/ Process(v) \/ WorkerCrash(v)
      <4>1. ASSUME NEW w \in Workers \ {v}, Process(w) \/ WorkerCrash(w)
            PROVE  worker'[v] = worker[v]
        BY <4>1 DEF Process, LockPullRequest, FetchPullRequest, FetchFiles, ApplySnapshot,
                    SynchronizeFails, Acknowledge, WorkerCrash, SnapshotInv, TypeInv, TypeOK
      <4>2. \/ UNCHANGED worker
            \/ \E w \in Workers : Process(w) \/ WorkerCrash(w)
        BY <1>4 DEF Next, GitHubChanges, Receive, Resync, Dispatch, LockOutbox,
                    Publish, PublishFails, CommitPublished, DispatcherCrash
      <4> QED BY <4>1, <4>2
    <3> QED BY <3>3, <3>4, <3>5, <3>6, <3>7, <3>8 DEF Process
  <2> QED BY <2>1, <2>2
<1> QED BY <1>3, <1>4

(* An outcome is only ever written by a worker whose snapshot is as new as *)
(* the delivery, and what is stored stays as new.                          *)
LEMMA EffectiveStep ==
  ASSUME SnapshotInv, Next, NEW e \in Deliveries, Exists(e)', Exists(e) => Effective(e)
  PROVE  Effective(e)'
PROOF
<1> SUFFICES ASSUME delivery'[e].status \in {"complete", "incomplete"}
             PROVE  stored'[delivery'[e].pr].head >= delivery'[e].since
  BY DEF Effective
<1>1. TypeInv' /\ Lasting
  BY TypeStep DEF SnapshotInv
<1>2. CASE Exists(e) /\ delivery'[e].status = delivery[e].status
  <2>1. /\ delivery'[e].pr = delivery[e].pr /\ delivery'[e].since = delivery[e].since
        /\ delivery[e] \in DeliveryRow
    BY <1>1, <1>2, RecordTypes DEF Lasting, SnapshotInv
  <2>2. delivery[e].pr \in PullRequests /\ delivery[e].since \in Nat
    BY <2>1 DEF DeliveryRow
  <2>3. stored[delivery[e].pr].head >= delivery[e].since
    BY <1>2 DEF Effective
  <2>4. stored'[delivery[e].pr].head >= stored[delivery[e].pr].head
    BY <2>2, StoredGrows
  <2>5. stored[delivery[e].pr].head \in Nat /\ stored'[delivery[e].pr].head \in Nat
    BY <1>1, <2>2 DEF SnapshotInv, TypeInv, TypeOK, Snapshot
  <2> QED BY <2>1, <2>2, <2>3, <2>4, <2>5
<1>3. ASSUME NEW w \in Workers, ApplySnapshot(w), worker[w].delivery = e
      PROVE  stored'[delivery'[e].pr].head >= delivery'[e].since
  <2>1. worker[w].stage = "files"
    BY <1>3 DEF ApplySnapshot
  <2>2. Exists(e) /\ delivery[e] \in DeliveryRow /\ Target(w) = delivery[e].pr
    BY <1>3, <2>1, RecordTypes DEF SnapshotInv, Target
  <2>3. delivery[e].since <= stored'[Target(w)].head /\ stored'[Target(w)] \in Snapshot
    BY <1>3, AppliedSnapshot
  <2>4. delivery'[e].pr = Target(w) /\ delivery'[e].since = delivery[e].since
    BY <1>1, <2>2 DEF Lasting
  <2> QED BY <2>2, <2>3, <2>4 DEF DeliveryRow, Snapshot
<1> QED BY <1>2, <1>3, StatusStep

(* Attended and Effective hold in every state.                             *)
LEMMA StrandStep == StrandInv /\ [Next]_vars => StrandInv'
PROOF
<1> SUFFICES ASSUME StrandInv, [Next]_vars PROVE StrandInv'
  OBVIOUS
<1>1. SnapshotInv'
  BY SnapshotStep DEF StrandInv
<1>2. CASE UNCHANGED vars
  BY <1>1, <1>2 DEF StrandInv, vars, Exists, Attended, Effective, DeliveryLocked, Holds
<1>3. CASE Next
  <2> SUFFICES ASSUME NEW e \in Deliveries, Exists(e)' PROVE Attended(e)' /\ Effective(e)'
    BY <1>1 DEF StrandInv
  <2>1. Effective(e)'
    BY <1>3, EffectiveStep DEF StrandInv
  <2>2. CASE delivery'[e].status = "processing"
    <3>1. CASE Exists(e) /\ delivery[e].status = "processing"
      BY <1>3, <2>1, <2>2, <3>1, AttendedStep DEF StrandInv
    <3>2. ASSUME NEW w \in Workers, NEW r \in Retries, StartProcessing(w, e, r)
          PROVE  Attended(e)'
      <4>1. worker'[w] = [stage |-> "processing", delivery |-> e, retry |-> r,
                          head |-> 0, files |-> 0]
        BY <3>2 DEF StartProcessing, StrandInv, SnapshotInv, TypeInv, TypeOK
      <4> QED BY <4>1 DEF Attended, DeliveryLocked, Holds, Idle
    <3> QED BY <1>3, <2>1, <2>2, <3>1, <3>2, StatusStep DEF StrandInv
  <2>3. CASE delivery'[e].status # "processing"
    BY <2>1, <2>3 DEF Attended
  <2> QED BY <2>1, <2>2, <2>3
<1> QED BY <1>2, <1>3

(* No delivery is stranded, whatever crashes, duplicates and retries:      *)
(* when nothing is left to be done for it, its row does not claim work is  *)
(* under way, and a row that claims an outcome took effect.                *)
THEOREM NothingStranded == Spec => []NoDeliveryStranded
PROOF
<1>1. Init => StrandInv
  BY SnapshotInit DEF StrandInv, Init, Exists
<1>2. StrandInv => NoDeliveryStranded
  BY DEF StrandInv, NoDeliveryStranded, Settled, Attended, Effective, DeliveryLocked
<1> QED BY <1>1, <1>2, StrandStep, PTL DEF Spec

-----------------------------------------------------------------------------
(* Who writes over an outcome *)

(* The worker has the delivery's advisory lock.                            *)
WorksOn(w, d) == Holds(worker[w], d) /\ worker[w].stage \notin {"failed", "done"}

OneWorkerEach ==
  \A d \in Deliveries, v, w \in Workers : WorksOn(v, d) /\ WorksOn(w, d) => v = w

(* What is being worked on has no outcome.                                 *)
Unfinished ==
  \A d \in Deliveries, w \in Workers :
    WorksOn(w, d) => delivery[d].status \notin {"complete", "incomplete"}

OutcomeInv == SnapshotInv /\ OneWorkerEach /\ Unfinished

(* An outcome changes only when a dispatcher commits its publication late. *)
Requeued(d) ==
  Exists(d) /\ delivery[d].status \in {"complete", "incomplete"}
    /\ delivery'[d].status # delivery[d].status =>
      /\ delivery'[d].status = "queued"
      /\ \E x \in Dispatchers : /\ Holds(dispatcher[x], d)
                                /\ dispatcher[x].stage = "published"
OutcomesOnlyRequeued == [][\A d \in Deliveries : Requeued(d)]_delivery

(* A worker gets a delivery's lock by starting to process it.              *)
LEMMA LockTaken ==
  ASSUME SnapshotInv, Next, NEW v \in Workers, NEW e \in Deliveries, WorksOn(v, e)'
  PROVE  WorksOn(v, e) \/ \E r \in Retries : StartProcessing(v, e, r)
PROOF
<1> DEFINE Goal == WorksOn(v, e) \/ \E r \in Retries : StartProcessing(v, e, r)
<1>1. CASE worker'[v] = worker[v]
  BY <1>1 DEF WorksOn, Holds
<1>2. ASSUME NEW w \in Workers, Consume(w), worker'[v] # worker[v] PROVE Goal
  <2>1. PICK d \in Deliveries, r \in Retries : StartProcessing(w, d, r)
    BY <1>2 DEF Consume, DropMessage
  <2>2. worker' = [worker EXCEPT ![w] = [stage |-> "processing", delivery |-> d,
                                         retry |-> r, head |-> 0, files |-> 0]]
    BY <2>1 DEF StartProcessing
  <2>3. v = w /\ worker'[v].delivery = d
    BY <1>2, <2>2 DEF SnapshotInv, TypeInv, TypeOK
  <2>4. e = d
    BY <2>3 DEF WorksOn, Holds
  <2> QED BY <2>1, <2>3, <2>4
<1>3. ASSUME NEW w \in Workers, WorkerCrash(w) \/ Acknowledge(w) PROVE Goal
  <2>1. worker' = [worker EXCEPT ![w] = Idle]
    BY <1>3 DEF WorkerCrash, Acknowledge
  <2>2. worker'[w] = Idle /\ (v # w => worker'[v] = worker[v])
    BY <2>1 DEF SnapshotInv, TypeInv, TypeOK
  <2> QED BY <1>1, <2>2 DEF WorksOn, Holds
<1>4. ASSUME NEW w \in Workers, Process(w), ~Acknowledge(w), worker'[v] # worker[v]
      PROVE  Goal
  <2>1. worker[w].stage \in {"processing", "locked", "pull_request", "files"}
    BY <1>4 DEF Process, LockPullRequest, FetchPullRequest, FetchFiles,
                SynchronizeFails, ApplySnapshot
  <2>2. worker[w] \in Working /\ worker[w] # Idle
    BY <2>1, RecordTypes DEF SnapshotInv
  <2>3. PICK new \in Working :
          worker' = [worker EXCEPT ![w] = new] /\ new.delivery = worker[w].delivery
    <3>1. CASE LockPullRequest(w)
      <4> DEFINE new == [worker[w] EXCEPT !.stage = "locked"]
      <4>1. worker' = [worker EXCEPT ![w] = new]
        BY <3>1 DEF LockPullRequest
      <4>2. new \in Working /\ new.delivery = worker[w].delivery
        BY <2>2 DEF Working
      <4> QED BY <4>1, <4>2
    <3>2. CASE FetchPullRequest(w)
      <4> DEFINE h == github[delivery[worker[w].delivery].pr]
                 new == [worker[w] EXCEPT !.stage = "pull_request", !.head = h]
      <4>1. h \in Nat
        BY <2>1, RecordTypes DEF SnapshotInv, Working, DeliveryRow, TypeInv, TypeOK
      <4>2. worker' = [worker EXCEPT ![w] = new]
        BY <3>2 DEF FetchPullRequest
      <4> HIDE DEF h
      <4>3. new \in Working /\ new.delivery = worker[w].delivery
        BY <2>2, <4>1 DEF Working
      <4> QED BY <4>2, <4>3
    <3>3. CASE FetchFiles(w)
      <4> DEFINE f == github[delivery[worker[w].delivery].pr]
                 new == [worker[w] EXCEPT !.stage = "files", !.files = f]
      <4>1. f \in Nat
        BY <2>1, RecordTypes DEF SnapshotInv, Working, DeliveryRow, TypeInv, TypeOK
      <4>2. worker' = [worker EXCEPT ![w] = new]
        BY <3>3 DEF FetchFiles
      <4> HIDE DEF f
      <4>3. new \in Working /\ new.delivery = worker[w].delivery
        BY <2>2, <4>1 DEF Working
      <4> QED BY <4>2, <4>3
    <3>4. CASE SynchronizeFails(w)
      <4> DEFINE new == [worker[w] EXCEPT !.stage = "failed"]
      <4>1. worker' = [worker EXCEPT ![w] = new]
        BY <3>4 DEF SynchronizeFails
      <4>2. new \in Working /\ new.delivery = worker[w].delivery
        BY <2>2 DEF Working
      <4> QED BY <4>1, <4>2
    <3>5. CASE ApplySnapshot(w)
      <4> DEFINE new == [worker[w] EXCEPT !.stage = "done"]
      <4>1. worker' = [worker EXCEPT ![w] = new]
        BY <3>5 DEF ApplySnapshot
      <4>2. new \in Working /\ new.delivery = worker[w].delivery
        BY <2>2 DEF Working
      <4> QED BY <4>1, <4>2
    <3> QED BY <1>4, <3>1, <3>2, <3>3, <3>4, <3>5 DEF Process
  <2>4. v = w /\ worker'[v].delivery = worker[v].delivery
    BY <1>4, <2>3 DEF SnapshotInv, TypeInv, TypeOK
  <2> QED BY <2>1, <2>2, <2>4 DEF WorksOn, Holds
<1>5. Goal
  <2>1. CASE worker'[v] = worker[v]
    BY <1>1, <2>1
  <2>2. CASE worker'[v] # worker[v]
    <3>1. \E w \in Workers : Consume(w) \/ Process(w) \/ WorkerCrash(w)
      BY <2>2 DEF Next, GitHubChanges, Receive, Resync, Dispatch, LockOutbox, Publish,
                  PublishFails, CommitPublished, DispatcherCrash
    <3> QED BY <1>2, <1>3, <1>4, <2>2, <3>1
  <2> QED BY <2>1, <2>2
<1> QED BY <1>5

(* The lock is one worker's, and who applies a snapshot gives it up.       *)
LEMMA OutcomeStep == OutcomeInv /\ [Next]_vars => OutcomeInv'
PROOF
<1> SUFFICES ASSUME OutcomeInv, [Next]_vars PROVE OutcomeInv'
  OBVIOUS
<1>1. SnapshotInv'
  BY SnapshotStep DEF OutcomeInv
<1>2. CASE UNCHANGED vars
  BY <1>1, <1>2 DEF OutcomeInv, OneWorkerEach, Unfinished, WorksOn, Holds, vars
<1>3. CASE Next
  <2>1. ASSUME NEW d \in Deliveries, NEW v \in Workers, NEW w \in Workers,
               WorksOn(v, d)', WorksOn(w, d)'
        PROVE  v = w
    <3>1. CASE WorksOn(v, d) /\ WorksOn(w, d)
      BY <3>1 DEF OutcomeInv, OneWorkerEach
    <3>2. ASSUME NEW x \in Workers, NEW y \in Workers, WorksOn(y, d)', x # y,
                 NEW r \in Retries, StartProcessing(x, d, r)
          PROVE  FALSE
      <4>1. worker'[y] = worker[y] /\ ~DeliveryLocked(d)
        BY <3>2 DEF StartProcessing, OutcomeInv, SnapshotInv, TypeInv, TypeOK
      <4> QED BY <3>2, <4>1 DEF WorksOn, Holds, DeliveryLocked
    <3> QED BY <1>3, <2>1, <3>1, <3>2, LockTaken DEF OutcomeInv
  <2>2. ASSUME NEW d \in Deliveries, NEW v \in Workers, WorksOn(v, d)'
        PROVE  delivery'[d].status \notin {"complete", "incomplete"}
    <3>1. Exists(d)'
      BY <1>1, <2>2 DEF WorksOn, Holds, SnapshotInv, TypeInv, DeliveriesKnown
    <3>2. ASSUME NEW w \in Workers, ApplySnapshot(w), worker[w].delivery = d
          PROVE  FALSE
      <4>1. WorksOn(w, d)
        BY <3>2 DEF ApplySnapshot, WorksOn, Holds, Idle
      <4>2. worker'[w].stage = "done"
        BY <3>2 DEF ApplySnapshot, OutcomeInv, SnapshotInv, TypeInv, TypeOK
      <4>3. v # w
        BY <2>2, <4>2 DEF WorksOn
      <4>4. WorksOn(v, d)
        BY <2>2, <3>2, <4>3
        DEF ApplySnapshot, WorksOn, Holds, OutcomeInv, SnapshotInv, TypeInv, TypeOK
      <4> QED BY <4>1, <4>3, <4>4 DEF OutcomeInv, OneWorkerEach
    <3>3. CASE Exists(d) /\ delivery'[d].status = delivery[d].status
      <4>1. CASE WorksOn(v, d)
        BY <3>3, <4>1 DEF OutcomeInv, Unfinished
      <4>2. ASSUME NEW r \in Retries, StartProcessing(v, d, r)
            PROVE  delivery'[d].status \notin {"complete", "incomplete"}
        BY <3>3, <4>2 DEF StartProcessing
      <4> QED BY <1>3, <2>2, <4>1, <4>2, LockTaken DEF OutcomeInv
    <3> QED BY <1>3, <3>1, <3>2, <3>3, StatusStep DEF OutcomeInv
  <2> QED BY <1>1, <2>1, <2>2 DEF OutcomeInv, OneWorkerEach, Unfinished
<1> QED BY <1>2, <1>3

(* Nobody has a lock at first.                                             *)
LEMMA OutcomeInit == Init => OutcomeInv
PROOF
BY SnapshotInit DEF OutcomeInv, OneWorkerEach, Unfinished, WorksOn, Holds, Init

(* However a message is published, retried and redelivered, two workers    *)
(* never process its delivery at once (the advisory lock), and what is     *)
(* being processed has no outcome yet.                                     *)
THEOREM DeliveriesSerialized == Spec => [](OneWorkerEach /\ Unfinished)
PROOF
<1>1. OutcomeInv => OneWorkerEach /\ Unfinished
  BY DEF OutcomeInv
<1> QED BY <1>1, OutcomeInit, OutcomeStep, PTL DEF Spec

(* The late commit of a dispatcher is the only step that takes a           *)
(* delivery's outcome away, and it writes queued: neither a duplicate nor  *)
(* a retry nor a failure of another worker does.                           *)
THEOREM OutcomesLostToDispatchersOnly == Spec => OutcomesOnlyRequeued
PROOF
<1>1. ASSUME OutcomeInv, [Next]_vars, NEW d \in Deliveries PROVE Requeued(d)
  <2> SUFFICES ASSUME Exists(d), delivery[d].status \in {"complete", "incomplete"},
                      delivery'[d].status # delivery[d].status
               PROVE  /\ delivery'[d].status = "queued"
                      /\ \E x \in Dispatchers : /\ Holds(dispatcher[x], d)
                                                /\ dispatcher[x].stage = "published"
    BY DEF Requeued
  <2>1. Next /\ delivery'[d] # delivery[d] /\ delivery[d] \in DeliveryRow
    BY <1>1, RecordTypes DEF vars, OutcomeInv, SnapshotInv
  <2>2. ASSUME NEW p \in PullRequests, NEW e \in Deliveries, Receive(p, e) \/ Resync(p, e)
        PROVE  FALSE
    <3>1. ~Exists(e) /\ \E o : delivery' = [delivery EXCEPT ![e] = NewDelivery(o)]
      BY <2>2 DEF Receive, Resync
    <3> QED BY <1>1, <2>1, <3>1 DEF OutcomeInv, SnapshotInv, TypeInv, TypeOK
  <2>3. ASSUME NEW w \in Workers, Consume(w) PROVE FALSE
    <3>1. PICK e \in Deliveries, r \in Retries : StartProcessing(w, e, r)
      BY <2>1, <2>3 DEF Consume, DropMessage
    <3> QED BY <1>1, <2>1, <3>1
            DEF StartProcessing, OutcomeInv, SnapshotInv, TypeInv, TypeOK
  <2>4. ASSUME NEW w \in Workers, Process(w) PROVE FALSE
    <3>1. ApplySnapshot(w) \/ SynchronizeFails(w)
      BY <2>1, <2>4 DEF Process, LockPullRequest, FetchPullRequest, FetchFiles, Acknowledge
    <3>2. worker[w].stage \in {"processing", "locked", "pull_request", "files"}
      BY <3>1 DEF ApplySnapshot, SynchronizeFails
    <3>3. d = worker[w].delivery
      BY <1>1, <2>1, <3>1
      DEF ApplySnapshot, SynchronizeFails, OutcomeInv, SnapshotInv, TypeInv, TypeOK
    <3>4. WorksOn(w, d)
      BY <3>2, <3>3 DEF WorksOn, Holds, Idle
    <3> QED BY <1>1, <3>4 DEF OutcomeInv, Unfinished
  <2>5. ASSUME NEW x \in Dispatchers, PublishFails(x) PROVE FALSE
    <3>1. dispatcher[x] # Idle
      BY <2>5, IdleIsNoProcess DEF PublishFails
    <3>2. \/ delivery'[d] = delivery[d]
          \/ delivery'[d] = [delivery[d] EXCEPT !.outbox = "failed"]
      BY <1>1, <2>5 DEF PublishFails, OutcomeInv, SnapshotInv, TypeInv, TypeOK
    <3> QED BY <2>1, <3>2 DEF DeliveryRow
  <2>6. PICK x \in Dispatchers : CommitPublished(x)
    BY <2>1, <2>2, <2>3, <2>4, <2>5
    DEF Next, GitHubChanges, Dispatch, LockOutbox, Publish, DispatcherCrash, WorkerCrash
  <2>7. dispatcher[x].delivery = d
    BY <1>1, <2>1, <2>6 DEF CommitPublished, OutcomeInv, SnapshotInv, TypeInv, TypeOK
  <2>8. delivery'[d] = [delivery[d] EXCEPT !.outbox = "published", !.status = "queued"]
    BY <1>1, <2>6, <2>7 DEF CommitPublished, OutcomeInv, SnapshotInv, TypeInv, TypeOK
  <2>9. dispatcher[x].stage = "published" /\ Holds(dispatcher[x], d)
    BY <2>6, <2>7 DEF CommitPublished, Holds, Idle
  <2> QED BY <2>1, <2>8, <2>9 DEF DeliveryRow
<1>2. OutcomeInv /\ [Next]_vars => [\A d \in Deliveries : Requeued(d)]_delivery
  BY <1>1
<1> QED BY <1>2, OutcomeInit, OutcomeStep, PTL DEF Spec, OutcomesOnlyRequeued
=============================================================================
