--------------------------- MODULE LifecycleStore ---------------------------
(***************************************************************************)
(* The durable lifecycle store of the control-translation service: the     *)
(* tables capability_run_lifecycle and callback_deliveries of              *)
(* persistence/sqlite.py.  Every repository method is one SQLite           *)
(* transaction, so it is one action here.                                  *)
(*                                                                         *)
(* Next lets ANY client call ANY method with ANY arguments at any time: it *)
(* is the most general client of the store.  What is shown of Spec is what *)
(* the SQL guards give by themselves, whatever the workers do.             *)
(* LifecycleWorker restricts the callers to the code's own workers.        *)
(*                                                                         *)
(* A run is identified with its idempotency key (the key column is UNIQUE  *)
(* and bound to the run for ever).  Columns that no guard reads and no     *)
(* property needs (progress text, identifiers, timestamps other than the   *)
(* lease and the creation order, failure details) are left out.            *)
(***************************************************************************)
EXTENDS Integers, FiniteSets

CONSTANTS Run,              \* run identifiers, one per idempotency key
          Worker,           \* worker_id of every LifecycleWorker ever started
          Bytes,            \* canonical results a translation can produce
          TerminalStateOf,  \* the domain terminal_state inside each result
          MaxAttempts,      \* WORKER_MAX_ATTEMPTS
          None              \* SQL NULL

DomainState == {"translated", "cannot-express", "insufficient-context",
                "scope-declined", "malfunction"}

ASSUME RunAssumption == IsFiniteSet(Run)
ASSUME BytesAssumption == TerminalStateOf \in [Bytes -> DomainState]
ASSUME MaxAttemptsAssumption == MaxAttempts \in Nat \ {0}

Terminal == {"completed", "failed", "canceled"}
Status == {"absent", "queued", "running"} \cup Terminal
PublicationState == {"none", "prepared", "publication-pending", "published"}
DeliveryStatus == {"pending", "retry", "delivered", "configuration-failed"}

Row == [status : Status,
        terminal_state : DomainState \cup {"canceled", None},
        cancel_requested : BOOLEAN,
        worker_id : Worker \cup {None},
        lease : {"none", "live", "expired"},
        attempt_number : 0 .. MaxAttempts,
        publication_state : PublicationState,
        prepared : Bytes \cup {None},
        result : Bytes \cup {None},
        callback : BOOLEAN,
        created_at : Nat]

(* A callback event: what it reports and how far its delivery has come. *)
Event == [terminal_status : Terminal,
          delivery_status : DeliveryStatus,
          attempts : Nat]

ASSUME NoneAssumption == None \notin Worker \cup Bytes \cup Event

VARIABLES row,     \* capability_run_lifecycle, one row per run
          outbox   \* callback_deliveries, at most one event per run

storeVars == <<row, outbox>>

AbsentRow ==
  [status |-> "absent", terminal_state |-> None, cancel_requested |-> FALSE,
   worker_id |-> None, lease |-> "none", attempt_number |-> 0,
   publication_state |-> "none", prepared |-> None, result |-> None,
   callback |-> FALSE, created_at |-> 0]

Init ==
  /\ row = [r \in Run |-> AbsentRow]
  /\ outbox = [r \in Run |-> None]

-----------------------------------------------------------------------------
(* Row predicates: the WHERE clauses that several statements share.  The   *)
(* definitions marked "faulty variant" are not used: each is what a        *)
(* plausible mistake would make of the definition after it, and shows that *)
(* a property of this module would notice.                                 *)

IsTerminal(x) == x.status \in Terminal
OwnedBy(x, w, n) == /\ x.status = "running"
                    /\ x.worker_id = w
                    /\ x.attempt_number = n
LeaseLive(x) == x.lease = "live"          \* lease_expires_at >= now
LeaseExpired(x) == x.lease = "expired"    \* lease_expires_at < now
IsPending(x) == x.publication_state = "publication-pending"

(* Row updates: the SET clauses that several statements share. *)

ReleasedKeepingLease(x) == [x EXCEPT !.worker_id = None]  \* faulty variant

Released(x) == [x EXCEPT !.worker_id = None, !.lease = "none"]

CanceledRow(x) ==
  [Released(x) EXCEPT !.status = "canceled", !.terminal_state = "canceled"]

FailedRowByStatus(x) ==  \* faulty variant: no domain state of the contract
  [Released(x) EXCEPT
     !.status = "failed", !.terminal_state = "failed",
     !.publication_state = IF IsPending(x) THEN "prepared" ELSE @]

(* A publication that gave up goes back to 'prepared'. *)
FailedRow(x) ==
  [Released(x) EXCEPT
     !.status = "failed", !.terminal_state = "malfunction",
     !.publication_state = IF IsPending(x) THEN "prepared" ELSE @]

-----------------------------------------------------------------------------
(* INSERT OR IGNORE: the event of a terminal run is written once. *)
Announced(x, event) ==
  IF event = None /\ IsTerminal(x) /\ x.callback
  THEN [terminal_status |-> x.status, delivery_status |-> "pending",
        attempts |-> 0]
  ELSE event

(* One UPDATE of run r and the outbox insert of the same transaction. *)
Write(r, x) ==
  /\ row' = [row EXCEPT ![r] = x]
  /\ outbox' = [outbox EXCEPT ![r] = Announced(x, @)]

(* An UPDATE that is not followed by an outbox insert. *)
WriteQuietly(r, x) ==
  /\ row' = [row EXCEPT ![r] = x]
  /\ UNCHANGED outbox

-----------------------------------------------------------------------------
(* create_lifecycle_run of a new key. *)
CreateLifecycleRun(r, cb) ==
  /\ row[r].status = "absent"
  /\ WriteQuietly(r, [AbsentRow EXCEPT
       !.status = "queued",
       !.callback = cb,
       !.created_at = 1 + Cardinality({q \in Run : row[q].status # "absent"})])

BindCallbackQuietly(r) ==  \* faulty variant: the event is forgotten
  /\ row[r].status # "absent"
  /\ ~row[r].callback
  /\ WriteQuietly(r, [row[r] EXCEPT !.callback = TRUE])

(* create_lifecycle_run of a known key with callback metadata: a run without *)
(* metadata takes it over, at whatever point of its life, and is announced   *)
(* at once if it has already ended.  Every other replay changes nothing.     *)
BindCallback(r) ==
  /\ row[r].status # "absent"
  /\ ~row[r].callback
  /\ Write(r, [row[r] EXCEPT !.callback = TRUE])

(* The three UPDATEs with which every claim begins: a run whose lease ran  *)
(* out ends here when its attempts are used up, or when it was canceled    *)
(* before its publication began.                                           *)
PublicationExhausted(x) == IsPending(x) /\ x.attempt_number >= MaxAttempts

CanceledBeforeCutoff(x) ==
  x.cancel_requested /\ x.publication_state \in {"none", "prepared"}

AttemptsExhausted(x) ==
  /\ ~x.cancel_requested
  /\ ~IsPending(x)
  /\ x.attempt_number >= MaxAttempts

SweptOfCanceledOnly(x) ==  \* faulty variant: attempts are never exhausted
  IF x.status # "running" \/ ~LeaseExpired(x) THEN x
  ELSE IF CanceledBeforeCutoff(x) THEN CanceledRow(x)
  ELSE x

Swept(x) ==
  IF x.status # "running" \/ ~LeaseExpired(x) THEN x
  ELSE IF PublicationExhausted(x) \/ AttemptsExhausted(x) THEN FailedRow(x)
  ELSE IF CanceledBeforeCutoff(x) THEN CanceledRow(x)
  ELSE x

Claimable(x) ==
  /\ x.attempt_number < MaxAttempts
  /\ \/ IsPending(x) /\ x.status = "running" /\ LeaseExpired(x)
     \/ /\ ~x.cancel_requested
        /\ x.status = "queued" \/ (x.status = "running" /\ LeaseExpired(x))

ClaimedRow(x, w) ==
  [x EXCEPT !.status = "running", !.worker_id = w, !.lease = "live",
            !.attempt_number = @ + 1]

(* claim_lifecycle_run that finds no run to execute. *)
ClaimNothing ==
  /\ \A q \in Run : ~Claimable(Swept(row[q]))
  /\ row' = [q \in Run |-> Swept(row[q])]
  /\ outbox' = [q \in Run |-> Announced(Swept(row[q]), outbox[q])]

(* claim_lifecycle_run that claims r, the oldest claimable run. *)
ClaimLifecycleRun(w, r) ==
  /\ Claimable(Swept(row[r]))
  /\ \A q \in Run : Claimable(Swept(row[q]))
                      => row[r].created_at <= row[q].created_at
  /\ row' = [q \in Run |-> IF q = r THEN ClaimedRow(Swept(row[q]), w)
                                    ELSE Swept(row[q])]
  /\ outbox' = [q \in Run |-> Announced(Swept(row[q]), outbox[q])]

(* heartbeat_lifecycle_run: renews even a lease that has already run out, as *)
(* long as nobody else has claimed the run.                                  *)
HeartbeatLifecycleRun(r, w, n) ==
  /\ OwnedBy(row[r], w, n)
  /\ WriteQuietly(r, [row[r] EXCEPT !.lease = "live"])

CanRestage(x, w, n) ==  \* faulty variant: staging is not write-once
  OwnedBy(x, w, n) /\ ~x.cancel_requested /\ LeaseLive(x)

CanPrepareUnfenced(x, w, n) ==  \* faulty variant: nor is it fenced
  x.status = "running" /\ ~x.cancel_requested /\ LeaseLive(x)

(* prepare_lifecycle_publication: rowcount = 1. *)
CanPrepare(x, w, n) == /\ OwnedBy(x, w, n)
                       /\ ~x.cancel_requested
                       /\ x.publication_state = "none"
                       /\ LeaseLive(x)

PrepareLifecyclePublication(r, w, n, b) ==
  /\ CanPrepare(row[r], w, n)
  /\ WriteQuietly(r, [row[r] EXCEPT !.publication_state = "prepared",
                                    !.prepared = b])

(* begin_lifecycle_publication: the cutoff after which completion beats a  *)
(* cancellation.  It also succeeds, changing nothing, when the run is      *)
(* already pending (a recovery).                                           *)
CanBegin(x, w, n) == /\ OwnedBy(x, w, n)
                     /\ ~x.cancel_requested
                     /\ x.publication_state = "prepared"
                     /\ LeaseLive(x)

AlreadyBegun(x, w, n) == OwnedBy(x, w, n) /\ LeaseLive(x) /\ IsPending(x)

BeginLifecyclePublication(r, w, n) ==
  /\ CanBegin(row[r], w, n)
  /\ WriteQuietly(r, [row[r] EXCEPT !.publication_state = "publication-pending"])

(* complete_lifecycle_run: a requested cancellation that came before the   *)
(* cutoff wins; otherwise the owner's result becomes the run's result.     *)
CancelsAtCompletion(x, w, n) ==
  OwnedBy(x, w, n) /\ x.cancel_requested /\ ~IsPending(x)

CanComplete(x, w, n) == /\ OwnedBy(x, w, n)
                        /\ x.result = None
                        /\ ~x.cancel_requested \/ IsPending(x)
                        /\ LeaseLive(x)

CompletedRow(x, b) ==
  [Released(x) EXCEPT
     !.status = "completed", !.terminal_state = TerminalStateOf[b],
     !.result = b,
     !.publication_state = IF IsPending(x) THEN "published" ELSE @]

CompletionOf(x, w, n, b) ==
  IF CancelsAtCompletion(x, w, n) THEN CanceledRow(x) ELSE CompletedRow(x, b)

CompleteLifecycleRun(r, w, n, b) ==
  /\ CancelsAtCompletion(row[r], w, n) \/ CanComplete(row[r], w, n)
  /\ Write(r, CompletionOf(row[r], w, n, b))

CanFailUnfenced(x, w, n) ==  \* faulty variant: WHERE run_id = ? only
  x.status # "absent"

FailureOrCancellationOf(x, b) ==  \* faulty variant: the cutoff is forgotten
  IF x.cancel_requested THEN CanceledRow(x)
  ELSE [FailedRow(x) EXCEPT !.result = b]

(* fail_lifecycle_run, with or without a result to keep for diagnosis. *)
CanFail(x, w, n) == OwnedBy(x, w, n) /\ (~IsPending(x) \/ LeaseLive(x))

FailureOf(x, b) ==
  IF ~IsPending(x) /\ x.cancel_requested
  THEN [CanceledRow(x) EXCEPT !.result = None]
  ELSE [FailedRow(x) EXCEPT !.result = b]

FailLifecycleRun(r, w, n, b) ==
  /\ CanFail(row[r], w, n)
  /\ Write(r, FailureOf(row[r], b))

CooperativeCancellationOf(x) ==  \* faulty variant: running runs only noted
  IF x.status = "queued"
  THEN [CanceledRow(x) EXCEPT !.cancel_requested = TRUE]
  ELSE IF x.status = "running" THEN [x EXCEPT !.cancel_requested = TRUE]
  ELSE x

LateCancellationOf(x) ==  \* faulty variant: the cutoff is forgotten
  IF x.status \in {"queued", "running"}
  THEN [CanceledRow(x) EXCEPT !.cancel_requested = TRUE]
  ELSE x

(* cancel_lifecycle_run: before the cutoff the run ends at once; after it  *)
(* the request is only recorded; a terminal run is left alone.             *)
CancellationOf(x) ==
  IF x.status = "queued" \/ (x.status = "running" /\ ~IsPending(x))
  THEN [CanceledRow(x) EXCEPT !.cancel_requested = TRUE]
  ELSE IF x.status = "running" THEN [x EXCEPT !.cancel_requested = TRUE]
  ELSE x

CancelLifecycleRun(r) ==
  /\ row[r].status # "absent"
  /\ Write(r, CancellationOf(row[r]))

(* The clock passes lease_expires_at. *)
ExpireLease(r) ==
  /\ LeaseLive(row[r])
  /\ WriteQuietly(r, [row[r] EXCEPT !.lease = "expired"])

-----------------------------------------------------------------------------
Next ==
  \/ ClaimNothing
  \/ \E r \in Run :
       \/ \E cb \in BOOLEAN : CreateLifecycleRun(r, cb)
       \/ BindCallback(r)
       \/ CancelLifecycleRun(r)
       \/ ExpireLease(r)
       \/ \E w \in Worker :
            \/ ClaimLifecycleRun(w, r)
            \/ \E n \in 1 .. MaxAttempts :
                 \/ HeartbeatLifecycleRun(r, w, n)
                 \/ BeginLifecyclePublication(r, w, n)
                 \/ FailLifecycleRun(r, w, n, None)
                 \/ \E b \in Bytes :
                      \/ PrepareLifecyclePublication(r, w, n, b)
                      \/ CompleteLifecycleRun(r, w, n, b)
                      \/ FailLifecycleRun(r, w, n, b)

Spec == Init /\ [][Next]_storeVars

-----------------------------------------------------------------------------
(* Every row and every event has its type. *)
TypeOK ==
  /\ row \in [Run -> Row]
  /\ outbox \in [Run -> Event \cup {None}]

(* A run is owned exactly while it is running: a worker_id and a lease are *)
(* never left behind by a terminal transition, so no guard of a later      *)
(* statement can be satisfied by a stale owner.                            *)
OwnedWhileRunning ==
  \A r \in Run :
    /\ row[r].status = "running" <=> row[r].worker_id # None
    /\ row[r].status = "running" <=> row[r].lease # "none"

(* A running run with a recorded cancellation is past the publication      *)
(* cutoff.  It makes the "canceled" branches of complete_lifecycle_run,    *)
(* fail_lifecycle_run and the claim's sweep unreachable: every pre-cutoff  *)
(* cancellation is already final when it is recorded.                      *)
CancelRequestedOnlyPastCutoff ==
  \A r \in Run :
    row[r].status = "running" /\ row[r].cancel_requested => IsPending(row[r])

(* The callback outbox tells the truth: a run with callback metadata has   *)
(* an event exactly when it has ended, and the event reports the status    *)
(* the run ended with.  It covers callbacks bound after the run ended and  *)
(* runs that the claim's sweep ends.                                       *)
OutboxTellsTheTruth ==
  \A r \in Run :
    /\ outbox[r] # None <=> IsTerminal(row[r]) /\ row[r].callback
    /\ outbox[r] # None => outbox[r].terminal_status = row[r].status

(* Once a run has ended, its status, domain state, result and staged bytes *)
(* never change again, whatever late call arrives from whichever attempt.  *)
TerminalIsFinal ==
  [][\A r \in Run : IsTerminal(row[r]) =>
       row'[r] \in {row[r], [row[r] EXCEPT !.callback = TRUE]}]_storeVars

(* The staged bytes are written once: an attempt that regenerates a result *)
(* cannot replace what an earlier attempt staged.                          *)
PreparedIsWriteOnce ==
  [][\A r \in Run : row[r].prepared # None =>
       row'[r].prepared = row[r].prepared]_storeVars

(* Past the cutoff a run is never canceled and never forgets that it is    *)
(* publishing: it stays pending until it completes or fails.               *)
CompletionBeatsCancel ==
  [][\A r \in Run : row[r].status = "running" /\ IsPending(row[r]) =>
       \/ row'[r].status = "running" /\ IsPending(row'[r])
       \/ row'[r].status = "completed" /\ row'[r].publication_state = "published"
       \/ row'[r].status = "failed" /\ row'[r].publication_state = "prepared"]_storeVars
=============================================================================
