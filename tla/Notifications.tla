---------------------------- MODULE Notifications ----------------------------
(***************************************************************************)
(* Domain events and their notifications (services/notification_service.py,*)
(* models/notification.py, the dispatch task of worker/tasks.py), for the  *)
(* events of one type in one organization.                                 *)
(*                                                                         *)
(* An emitter is a transaction of another component that records a change  *)
(* and announces it.  A dispatcher locks the due notifications, sends them *)
(* one after the other, and commits all their outcomes at the end.         *)
(***************************************************************************)
EXTENDS Integers, FiniteSets, Rows

CONSTANTS
  Events,           \* event keys: a change and its identity
  Recipients,       \* active users the events go to
  Channels,         \* NotificationChannel
  Disabled,         \* channels whose policy an operator has switched off
  Emitters,         \* transactions that emit events
  Beats,            \* runs of the dispatch task that may overlap
  MaxAttempts,      \* NOTIFICATION_MAX_RETRIES
  MaxLostBatches    \* bound: crashes and failed commits of dispatchers

ASSUME NotificationAssumption ==
  /\ Disabled \subseteq Channels
  /\ MaxAttempts \in Nat \ {0} /\ MaxLostBatches \in Nat
  /\ IsFiniteSet(Events \X Recipients \X Channels)

VARIABLES
  policies,   \* channels with a notification_policies row
  announced,  \* the domain_events table
  note,       \* the notifications table: [event, recipient, channel] to row
  emitting,   \* what each emitter is about to commit
  batch,      \* what each dispatcher has locked, with the outcomes so far
  mail,       \* how often each notification was handed to its channel
  lost        \* batches lost

noteVars == <<policies, announced, note, emitting, batch, mail, lost>>

Notes == Events \X Recipients \X Channels
Retry == {"now", "later", "never"}   \* next_retry_at: passed, ahead, NULL
NoteRow == [status : {"pending", "delivered", "failed"}, attempts : Nat, retry : Retry]
ASSUME NullAssumption == None \notin NoteRow

Outcome == {"free", "unsent", "sent", "error"}
Emission == [event : Events, new : SUBSET Channels]

NotificationsTypeOK ==
  /\ policies \subseteq Channels
  /\ announced \subseteq Events
  /\ note \in [Notes -> NoteRow \cup {None}]
  /\ emitting \in [Emitters -> {Idle} \cup Emission]
  /\ batch \in [Beats -> [Notes -> Outcome]]
  /\ mail \in [Notes -> Nat]
  /\ lost \in 0..MaxLostBatches

NotificationsInit ==
  /\ policies = Disabled
  /\ announced = {}
  /\ note = [n \in Notes |-> None]
  /\ emitting = [e \in Emitters |-> Idle]
  /\ batch = [x \in Beats |-> [n \in Notes |-> "free"]]
  /\ mail = [n \in Notes |-> 0]
  /\ lost = 0

-----------------------------------------------------------------------------
(* emit_domain_event, inside the transaction of the change.  A known event *)
(* is not emitted again.  The default policy is added where the emitter    *)
(* finds none.                                                             *)
FindEventNew(e, k) ==
  /\ emitting[e] = Idle
  /\ k \notin announced
  /\ emitting' = [emitting EXCEPT ![e] = [event |-> k, new |-> Channels \ policies]]
  /\ UNCHANGED <<policies, announced, note, batch, mail, lost>>

(* The unique indexes on event_key and on the policies see the rows.       *)
CommitEvent(e) ==
  LET k == emitting[e].event
  IN /\ emitting[e] # Idle
     /\ k \notin announced
     /\ emitting[e].new \cap policies = {}
     /\ announced' = announced \cup {k}
     /\ policies' = policies \cup emitting[e].new
     /\ note' = [n \in Notes |->
                  IF n[1] = k /\ n[3] \notin Disabled
                  THEN [status |-> "pending", attempts |-> 0, retry |-> "now"]
                  ELSE note[n]]
     /\ emitting' = [emitting EXCEPT ![e] = Idle]
     /\ UNCHANGED <<batch, mail, lost>>

(* A violated index, or any failure: the change is rolled back with it.    *)
RollBackEvent(e) ==
  /\ emitting[e] # Idle
  /\ emitting' = [emitting EXCEPT ![e] = Idle]
  /\ UNCHANGED <<policies, announced, note, batch, mail, lost>>

-----------------------------------------------------------------------------
(* dispatch_pending_notifications *)

HeldBy(x) == {n \in Notes : batch[x][n] # "free"}
Held == UNION {HeldBy(x) : x \in Beats}

(* The mutant forgets the failed ones. *)
DuePending == {n \in Notes : /\ note[n] # None
                             /\ note[n].status = "pending"
                             /\ note[n].retry = "now"}
Due == {n \in Notes : /\ note[n] # None
                      /\ note[n].status \in {"pending", "failed"}
                      /\ note[n].retry = "now"}

(* FOR UPDATE SKIP LOCKED; the mutant reads without locks.                 *)
AnyDue == Due
Selectable == Due \ Held

SelectDue(x) ==
  /\ HeldBy(x) = {}
  /\ Selectable # {}
  /\ batch' = [batch EXCEPT ![x] =
       [n \in Notes |-> IF n \in Selectable THEN "unsent" ELSE "free"]]
  /\ UNCHANGED <<policies, announced, note, emitting, mail, lost>>

(* deliver_notification_once.  An adapter may fail before or after the     *)
(* message left; the in-app adapter does nothing and never fails.          *)
DeliverOnce(x, n) ==
  /\ batch[x][n] = "unsent"
  /\ \/ /\ batch' = [batch EXCEPT ![x][n] = "sent"]
        /\ mail' = [mail EXCEPT ![n] = @ + 1]
     \/ /\ n[3] # "in_app"
        /\ batch' = [batch EXCEPT ![x][n] = "error"]
        /\ mail' \in {mail, [mail EXCEPT ![n] = @ + 1]}
  /\ UNCHANGED <<policies, announced, note, emitting, lost>>

RetryAfter(attempts) == IF attempts < MaxAttempts THEN "later" ELSE "never"

Delivered(row) ==
  [status |-> "delivered", attempts |-> row.attempts + 1, retry |-> "never"]
Failed(row) ==
  [status |-> "failed", attempts |-> row.attempts + 1,
   retry |-> RetryAfter(row.attempts + 1)]

Free(x) == batch' = [batch EXCEPT ![x] = [n \in Notes |-> "free"]]

CommitBatch(x) ==
  /\ HeldBy(x) # {}
  /\ \A n \in Notes : batch[x][n] # "unsent"
  /\ note' = [n \in Notes |->
       CASE batch[x][n] = "free" -> note[n]
         [] batch[x][n] = "sent" -> Delivered(note[n])
         [] batch[x][n] = "error" -> Failed(note[n])]
  /\ Free(x)
  /\ UNCHANGED <<policies, announced, emitting, mail, lost>>

(* The worker dies, or the commit fails: no outcome of the batch is kept.  *)
LoseBatch(x) ==
  /\ HeldBy(x) # {}
  /\ lost < MaxLostBatches
  /\ lost' = lost + 1
  /\ Free(x)
  /\ UNCHANGED <<policies, announced, note, emitting, mail>>

RetryTimeComes(n) ==
  /\ note[n] # None /\ note[n].retry = "later"
  /\ note' = [note EXCEPT ![n].retry = "now"]
  /\ UNCHANGED <<policies, announced, emitting, batch, mail, lost>>

-----------------------------------------------------------------------------
Dispatch(x) == SelectDue(x) \/ (\E n \in Notes : DeliverOnce(x, n)) \/ CommitBatch(x)

NotificationsNext ==
  \/ \E e \in Emitters : \/ \E k \in Events : FindEventNew(e, k)
                         \/ CommitEvent(e) \/ RollBackEvent(e)
  \/ \E x \in Beats : Dispatch(x) \/ LoseBatch(x)
  \/ \E n \in Notes : RetryTimeComes(n)

NotificationsSpec == NotificationsInit /\ [][NotificationsNext]_noteVars

(* Beat starts the dispatch task every ten seconds, a task that has        *)
(* started goes on (SMTP has a timeout), and time passes.                  *)
NotificationsFairness ==
  /\ \A x \in Beats : WF_noteVars(Dispatch(x))
  /\ \A n \in Notes : WF_noteVars(RetryTimeComes(n))

-----------------------------------------------------------------------------
(* Properties *)

(* Every message that left is accounted for: by a counted attempt, by the  *)
(* batch that is about to count it, or by a lost batch.  Overlapping       *)
(* dispatchers never send the same notification twice                      *)
(* (with_for_update(skip_locked=True)).                                    *)
InHand(n) == {x \in Beats : n \in HeldBy(x)}
Counted(n) == IF note[n] = None THEN 0 ELSE note[n].attempts
MailAccountedFor ==
  \A n \in Notes :
    /\ mail[n] <= Counted(n) + Cardinality(InHand(n)) + lost
    /\ Cardinality(InHand(n)) <= 1

(* Every notification ends delivered or out of attempts, after lost        *)
(* batches, failures of its channel and overlapping dispatchers.           *)
Unfinished(n) == note[n] # None /\ note[n].retry # "never"
NotificationsEnd == \A n \in Notes : Unfinished(n) ~> ~Unfinished(n)
=============================================================================
