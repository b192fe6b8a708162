------------------------- MODULE CallbackDispatcher -------------------------
(***************************************************************************)
(* The callback dispatcher of callbacks.py over the outbox of              *)
(* LifecycleStore: due events are listed in batches, posted to the         *)
(* orchestrator one after the other, and each answer is recorded in the    *)
(* outbox by a statement of its own.  Between the post and the record the  *)
(* process may die.                                                        *)
(*                                                                         *)
(* next_attempt_at is abstracted to the order it gives: the sequence old   *)
(* holds the events that were due when the last batch was listed, fresh    *)
(* those that have become due since, waiting those whose time is to come.  *)
(* "Faulty variants" are unused, as in LifecycleStore.                     *)
(***************************************************************************)
EXTENDS LifecycleStore, SequencesExt

CONSTANTS Dispatcher,   \* dispatcher threads (one per process)
          BatchSize,    \* batch_size
          AttemptCap,   \* bound: attempts are counted up to here
          MaxCrashes,   \* bound: how often a dispatcher's process dies
          Healthy       \* runs whose callback endpoint ends up accepting

ASSUME BatchAssumption == BatchSize \in Nat \ {0}
ASSUME CapAssumption == AttemptCap \in Nat \ {0} /\ MaxCrashes \in Nat
ASSUME HealthyAssumption == Healthy \subseteq Run

VARIABLES old, fresh, waiting,
          batch,     \* what is left of each dispatcher's current batch
          reply,     \* the answer to the head of the batch, not yet recorded
          token,     \* whether the process has CAPABILITY_CALLBACK_TOKEN
          crashes,
          accepted   \* the runs whose event the orchestrator has accepted

dispatcherVars == <<old, fresh, waiting, batch, reply, token, crashes, accepted>>
allVars == <<row, outbox, old, fresh, waiting, batch, reply, token, crashes,
             accepted>>

Undelivered(event) ==
  event # None /\ event.delivery_status \in {"pending", "retry"}

Bump(n) == IF n < AttemptCap THEN n + 1 ELSE n

DInit ==
  /\ Init
  /\ old = <<>> /\ fresh = <<>> /\ waiting = {}
  /\ batch = [d \in Dispatcher |-> <<>>]
  /\ reply = [d \in Dispatcher |-> "none"]
  /\ token \in [Dispatcher -> BOOLEAN]
  /\ crashes = 0
  /\ accepted = {}

-----------------------------------------------------------------------------
(* The store goes on; an event is due from the moment it is written. *)
StoreStep ==
  /\ Next
  /\ \E new \in SetToSeqs({r \in Run : outbox[r] = None /\ outbox'[r] # None}) :
       fresh' = fresh \o new
  /\ UNCHANGED <<old, waiting, batch, reply, token, crashes, accepted>>

(* The clock passes next_attempt_at of r, which may lie before that of     *)
(* events that became due earlier.                                         *)
BecomesDue(r) ==
  /\ r \in waiting
  /\ waiting' = waiting \ {r}
  /\ \E i \in 1 .. Len(fresh) + 1 : fresh' = InsertAt(fresh, i, r)
  /\ UNCHANGED <<storeVars, old, batch, reply, token, crashes, accepted>>

(* list_due_callback_deliveries, with which deliver_due begins. *)
ListDue(d) ==
  LET due == old \o fresh
      size == IF Len(due) < BatchSize THEN Len(due) ELSE BatchSize IN
  /\ batch[d] = <<>>
  /\ batch' = [batch EXCEPT ![d] =
                 [i \in 1 .. size |-> [run |-> due[i],
                                       attempts |-> outbox[due[i]].attempts]]]
  /\ old' = due
  /\ fresh' = <<>>
  /\ UNCHANGED <<storeVars, waiting, reply, token, crashes, accepted>>

(* How a post can end.  "unconfirmed": the orchestrator took the event but *)
(* the answer was lost or is not the exact 202 body.  "unexpected": the    *)
(* client raised something other than CallbackTransportError.              *)
Answer == {"accepted", "unconfirmed", "unavailable", "refused"}
Outcome == Answer \cup {"unexpected"}

AnyAccepted(outcome) ==  \* faulty variant: the 202 body is not looked at
  IF outcome \in {"accepted", "unavailable"} THEN "accepted"
  ELSE IF outcome = "refused" THEN "refused" ELSE "retry"

(* The case split of _deliver on what post_json returned or raised. *)
ReplyTo(outcome) ==
  IF outcome = "accepted" THEN "accepted"
  ELSE IF outcome = "refused" THEN "refused" ELSE "retry"

(* _deliver up to the answer.  An unexpected exception ends deliver_due:   *)
(* the rest of the batch is dropped and the events stay due.               *)
Post(d, r, outcome) ==
  /\ batch[d] # <<>>
  /\ Head(batch[d]).run = r
  /\ token[d]
  /\ reply[d] = "none"
  /\ accepted' = IF outcome \in {"accepted", "unconfirmed"}
                 THEN accepted \cup {r} ELSE accepted
  /\ IF outcome = "unexpected"
     THEN batch' = [batch EXCEPT ![d] = <<>>] /\ UNCHANGED reply
     ELSE reply' = [reply EXCEPT ![d] = ReplyTo(outcome)] /\ UNCHANGED batch
  /\ UNCHANGED <<storeVars, old, fresh, waiting, token, crashes>>

(* The answer is dealt with; on to the next event of the batch. *)
Advance(d) ==
  /\ batch' = [batch EXCEPT ![d] = Tail(@)]
  /\ reply' = [reply EXCEPT ![d] = "none"]

OverwriteEvent(r, event) ==  \* faulty variant: WHERE event_id = ? only
  outbox' = [outbox EXCEPT ![r] = event]

(* WHERE event_id = ? AND delivery_status IN ('pending', 'retry') *)
UpdateEvent(r, event) ==
  outbox' = [outbox EXCEPT ![r] = IF Undelivered(@) THEN event ELSE @]

LeaveQueue(r) ==
  /\ old' = RemoveFirst(old, r)
  /\ fresh' = RemoveFirst(fresh, r)
  /\ waiting' = waiting \ {r}

(* mark_callback_delivered *)
MarkDelivered(d, r) ==
  /\ reply[d] = "accepted"
  /\ Head(batch[d]).run = r
  /\ UpdateEvent(r, [outbox[r] EXCEPT !.delivery_status = "delivered",
                                      !.attempts = Bump(@)])
  /\ LeaveQueue(r)
  /\ Advance(d)
  /\ UNCHANGED <<row, token, crashes, accepted>>

(* mark_callback_configuration_failed: the endpoint refused the event, or  *)
(* there is no token to post it with.                                      *)
MarkConfigurationFailed(d, r) ==
  /\ batch[d] # <<>>
  /\ Head(batch[d]).run = r
  /\ reply[d] = "refused" \/ ~token[d]
  /\ UpdateEvent(r, [outbox[r] EXCEPT !.delivery_status = "configuration-failed",
                                      !.attempts = Bump(Head(batch[d]).attempts)])
  /\ LeaveQueue(r)
  /\ Advance(d)
  /\ UNCHANGED <<row, token, crashes, accepted>>

RescheduleInPlace(d, r, atOnce) ==  \* faulty variant: keeps next_attempt_at
  /\ reply[d] = "retry"
  /\ Head(batch[d]).run = r
  /\ UpdateEvent(r, [outbox[r] EXCEPT !.delivery_status = "retry",
                                      !.attempts = Bump(Head(batch[d]).attempts)])
  /\ Advance(d)
  /\ UNCHANGED <<row, old, fresh, waiting, token, crashes, accepted>>

(* _retry and reschedule_callback_delivery, with the attempts counted from *)
(* the listed event.  "at once" is a Retry-After of 0: the new time is the *)
(* time of the batch, later than every event that was due then.            *)
Reschedule(d, r, atOnce) ==
  /\ reply[d] = "retry"
  /\ Head(batch[d]).run = r
  /\ UpdateEvent(r, [outbox[r] EXCEPT !.delivery_status = "retry",
                                      !.attempts = Bump(Head(batch[d]).attempts)])
  /\ IF ~Undelivered(outbox[r]) THEN UNCHANGED <<old, fresh, waiting>>
     ELSE /\ fresh' = RemoveFirst(fresh, r)
          /\ old' = IF atOnce THEN Append(RemoveFirst(old, r), r) ELSE RemoveFirst(old, r)
          /\ waiting' = IF atOnce THEN waiting \ {r} ELSE waiting \cup {r}
  /\ Advance(d)
  /\ UNCHANGED <<row, token, crashes, accepted>>

(* A PersistenceError while recording: the batch is dropped. *)
RecordFails(d) ==
  /\ batch[d] # <<>>
  /\ reply[d] # "none" \/ ~token[d]
  /\ batch' = [batch EXCEPT ![d] = <<>>]
  /\ reply' = [reply EXCEPT ![d] = "none"]
  /\ UNCHANGED <<storeVars, old, fresh, waiting, token, crashes, accepted>>

(* The process dies and another takes its place, configured anew. *)
Restart(d) ==
  /\ crashes < MaxCrashes
  /\ crashes' = crashes + 1
  /\ batch' = [batch EXCEPT ![d] = <<>>]
  /\ reply' = [reply EXCEPT ![d] = "none"]
  /\ \E t \in BOOLEAN : token' = [token EXCEPT ![d] = t]
  /\ UNCHANGED <<storeVars, old, fresh, waiting, accepted>>

Record(d, r) ==
  \/ MarkDelivered(d, r)
  \/ MarkConfigurationFailed(d, r)
  \/ \E atOnce \in BOOLEAN : Reschedule(d, r, atOnce)

DNext ==
  \/ StoreStep
  \/ \E r \in Run : BecomesDue(r)
  \/ \E d \in Dispatcher :
       \/ ListDue(d)
       \/ RecordFails(d)
       \/ Restart(d)
       \/ \E r \in Run : \/ \E outcome \in Outcome : Post(d, r, outcome)
                         \/ Record(d, r)

DSpec == DInit /\ [][DNext]_allVars

(* The dispatcher thread keeps running and the clock advances.  Neither an *)
(* unmapped exception nor a failing record of the same answer repeats for  *)
(* ever, and a healthy endpoint that is asked again and again accepts at   *)
(* last.  Any other endpoint may be unavailable for ever.                  *)
DFairness ==
  /\ \A r \in Run : WF_allVars(BecomesDue(r))
  /\ \A d \in Dispatcher :
       /\ WF_allVars(ListDue(d))
       /\ \A r \in Run : /\ SF_allVars(\E o \in Answer : Post(d, r, o))
                         /\ SF_allVars(MarkDelivered(d, r))
                         /\ SF_allVars(Record(d, r))
       /\ \A r \in Healthy : SF_allVars(Post(d, r, "accepted"))

FairDSpec == DSpec /\ DFairness

-----------------------------------------------------------------------------
(* Every variable has its type, and an undelivered event is in exactly one *)
(* of the three places its next_attempt_at can put it.                     *)
DTypeOK ==
  /\ TypeOK
  /\ old \in Seq(Run) /\ fresh \in Seq(Run) /\ waiting \subseteq Run
  /\ batch \in [Dispatcher -> Seq([run : Run, attempts : 0 .. AttemptCap])]
  /\ reply \in [Dispatcher -> {"none", "accepted", "retry", "refused"}]
  /\ token \in [Dispatcher -> BOOLEAN]
  /\ accepted \subseteq Run
  /\ IsInjective(old \o fresh)
  /\ ToSet(old \o fresh) \cap waiting = {}
  /\ ToSet(old \o fresh) \cup waiting = {r \in Run : Undelivered(outbox[r])}

(* An event is recorded as delivered only if the orchestrator has accepted *)
(* it, whatever answers were lost and whichever process recorded it.       *)
DeliveredWasAccepted ==
  \A r \in Run : outbox[r] # None /\ outbox[r].delivery_status = "delivered"
                   => r \in accepted

(* A settled event stays as it is: a dispatcher that listed it before      *)
(* another one settled it cannot put it back or change its outcome.        *)
SettledIsFinal ==
  [][\A r \in Run : outbox[r] # None /\ ~Undelivered(outbox[r])
                      => outbox'[r] = outbox[r]]_allVars

(* The event of a run with a healthy endpoint is settled in the end,       *)
(* however many other events are retried ahead of it for ever.             *)
HealthyIsSettled ==
  \A r \in Healthy :
    Undelivered(outbox[r]) ~> (outbox[r] # None /\ ~Undelivered(outbox[r]))
=============================================================================
