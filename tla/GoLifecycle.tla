---------------------------- MODULE GoLifecycle -----------------------------
(***************************************************************************)
(* The asynchronous lifecycle of the Go service: the queue of              *)
(* lifecycle/store.go, the worker of httpapi/worker.go and the results     *)
(* table in Databricks.  There is one replica, hence one worker at a time; *)
(* a process that died is replaced by one with a new worker id.  Every     *)
(* statement of the queue is an action; the worker's calls are separate    *)
(* steps, so cancellations fall between them.                              *)
(***************************************************************************)
EXTENDS Integers, FiniteSets

CONSTANTS Run,            \* lifecycle runs, one per idempotency key
          MaxAttempts,    \* WORKER_MAX_ATTEMPTS
          Incarnations,   \* bound: worker processes that ever run
          None            \* SQL NULL

ASSUME GoRunAssumption == IsFiniteSet(Run)
ASSUME GoBoundsAssumption == /\ MaxAttempts \in Nat \ {0}
                             /\ Incarnations \in Nat \ {0}
ASSUME GoNoneAssumption == None \notin Nat \cup Run

VARIABLES row,      \* capability_run_lifecycle
          results,  \* result_ids in the results table, by the run they are of
          worker    \* the worker process: its id, step, run and attempt

vars == <<row, results, worker>>

Terminal == {"completed", "failed", "canceled"}

Row == [status : {"absent", "queued", "running"} \cup Terminal,
        worker_id : Nat \cup {None},
        lease : {"none", "live", "expired"},
        attempt_number : 0 .. MaxAttempts,
        cancel_requested : BOOLEAN,
        result_id : Nat \cup {None},
        created_at : Nat]

Step == {"down", "idle", "claimed", "invoking", "checking", "saving",
         "failing", "completing"}

AbsentRow == [status |-> "absent", worker_id |-> None, lease |-> "none",
              attempt_number |-> 0, cancel_requested |-> FALSE,
              result_id |-> None, created_at |-> 0]

Init ==
  /\ row = [r \in Run |-> AbsentRow]
  /\ results = [r \in Run |-> {}]
  /\ worker = [id |-> 0, step |-> "down", run |-> None, attempt |-> 0]

-----------------------------------------------------------------------------
(* Requests, the clock and the process.  Definitions marked "faulty        *)
(* variant" are not used: they are plausible mistakes in what follows.     *)

CreateLifecycleRun(r) ==
  /\ row[r].status = "absent"
  /\ row' = [row EXCEPT ![r] = [AbsentRow EXCEPT
       !.status = "queued",
       !.created_at = 1 + Cardinality({q \in Run : row[q].status # "absent"})]]
  /\ UNCHANGED <<results, worker>>

CanceledRow(x) == [x EXCEPT !.status = "canceled", !.cancel_requested = TRUE,
                            !.worker_id = None, !.lease = "none"]

CancelAnything(r) ==  \* faulty variant: no condition on the status
  /\ row[r].status # "absent"
  /\ row' = [row EXCEPT ![r] = CanceledRow(@)]
  /\ UNCHANGED <<results, worker>>

RequestCancellation(r) ==
  /\ row[r].status \in {"queued", "running"}
  /\ row' = [row EXCEPT ![r] = CanceledRow(@)]
  /\ UNCHANGED <<results, worker>>

ExpireLease(r) ==
  /\ row[r].lease = "live"
  /\ row' = [row EXCEPT ![r].lease = "expired"]
  /\ UNCHANGED <<results, worker>>

(* NewWorker and Start: every process has an id of its own. *)
Start ==
  /\ worker.step = "down"
  /\ worker.id < Incarnations
  /\ worker' = [worker EXCEPT !.id = @ + 1, !.step = "idle"]
  /\ UNCHANGED <<row, results>>

(* The process dies at any step, or is stopped.  Bound: not the last one.  *)
Die ==
  /\ worker.step # "down"
  /\ worker.id < Incarnations
  /\ worker' = [worker EXCEPT !.step = "down", !.run = None, !.attempt = 0]
  /\ UNCHANGED <<row, results>>

-----------------------------------------------------------------------------
(* processOne *)

Claimable(x) ==
  /\ x.status = "queued" \/ (x.status = "running" /\ x.lease = "expired")
  /\ x.attempt_number < MaxAttempts

(* ClaimNextQueuedRun, its UPDATE. *)
Claim(r) ==
  /\ worker.step = "idle"
  /\ Claimable(row[r])
  /\ \A q \in Run : Claimable(row[q]) => row[r].created_at <= row[q].created_at
  /\ row' = [row EXCEPT ![r].status = "running", ![r].worker_id = worker.id,
                        ![r].lease = "live", ![r].attempt_number = @ + 1]
  /\ worker' = [worker EXCEPT !.step = "claimed", !.run = r]
  /\ UNCHANGED results

(* ClaimNextQueuedRun that finds no row to update; the loop polls again. *)
ClaimNothing ==
  /\ worker.step = "idle"
  /\ \A r \in Run : ~Claimable(row[r])
  /\ UNCHANGED vars

(* ClaimNextQueuedRun, its SELECT: the latest updated row that this worker *)
(* runs.  Normally the row just claimed; if that was canceled meanwhile,   *)
(* one that an earlier call left running, or none.                         *)
Mine(r) == row[r].status = "running" /\ row[r].worker_id = worker.id

ReadClaimed(r) ==
  /\ worker.step = "claimed"
  /\ Mine(r)
  /\ Mine(worker.run) => r = worker.run
  /\ worker' = [worker EXCEPT !.step = "invoking", !.run = r,
                              !.attempt = row[r].attempt_number]
  /\ UNCHANGED <<row, results>>

Idle == worker' = [worker EXCEPT !.step = "idle", !.run = None, !.attempt = 0]

ReadNothing ==
  /\ worker.step = "claimed"
  /\ \A r \in Run : ~Mine(r)
  /\ Idle
  /\ UNCHANGED <<row, results>>

(* Heartbeat, only while the translation runs. *)
Heartbeat ==
  /\ worker.step = "invoking"
  /\ Mine(worker.run)
  /\ row' = [row EXCEPT ![worker.run].lease = "live"]
  /\ UNCHANGED <<results, worker>>

(* InvokeEnvelope returns: its result has a fresh result_id. *)
Invoke ==
  /\ worker.step = "invoking"
  /\ worker' = [worker EXCEPT !.step = "checking"]
  /\ UNCHANGED <<row, results>>

(* The cancellation check; a read that fails counts as "not canceled". *)
CheckCancellation(readable) ==
  /\ worker.step = "checking"
  /\ IF readable /\ row[worker.run].cancel_requested
     THEN Idle ELSE worker' = [worker EXCEPT !.step = "saving"]
  /\ UNCHANGED <<row, results>>

CompleteFirst(saved, ok) ==  \* faulty variant: a failed save is not noticed
  LET r == worker.run IN
  /\ worker.step = "saving"
  /\ results' = [results EXCEPT ![r] =
                   IF saved THEN @ \cup {Cardinality(@) + 1} ELSE @]
  /\ worker' = [worker EXCEPT !.step = "completing"]
  /\ UNCHANGED row

(* SaveCompletedRun: a MERGE on a result_id nobody has used before, which  *)
(* may fail before or after it took effect.                                *)
SaveCompletedRun(saved, ok) ==
  LET r == worker.run IN
  /\ worker.step = "saving"
  /\ ok => saved
  /\ results' = [results EXCEPT ![r] =
                   IF saved THEN @ \cup {Cardinality(@) + 1} ELSE @]
  /\ worker' = [worker EXCEPT !.step = IF ok THEN "completing" ELSE "failing"]
  /\ UNCHANGED row

FailKeepingOwner ==  \* faulty variant: the owner is not cleared
  /\ worker.step = "failing"
  /\ row' = [row EXCEPT ![worker.run].status =
               IF worker.attempt < MaxAttempts THEN "queued" ELSE "failed"]
  /\ Idle
  /\ UNCHANGED results

(* FailLifecycleRun, WHERE run_id = ?: back to the queue if an attempt is  *)
(* left, whatever has happened to the row since it was claimed.            *)
FailLifecycleRun ==
  /\ worker.step = "failing"
  /\ row' = [row EXCEPT
       ![worker.run].status = IF worker.attempt < MaxAttempts THEN "queued"
                                                              ELSE "failed",
       ![worker.run].worker_id = None,
       ![worker.run].lease = "none"]
  /\ Idle
  /\ UNCHANGED results

(* CompleteLifecycleRun, WHERE run_id = ? AND worker_id = ?: no row, no error. *)
CompleteLifecycleRun ==
  LET r == worker.run IN
  /\ worker.step = "completing"
  /\ row' = [row EXCEPT ![r] =
       IF @.worker_id # worker.id THEN @
       ELSE [@ EXCEPT !.status = "completed", !.worker_id = None,
                      !.lease = "none", !.result_id = Cardinality(results[r])]]
  /\ Idle
  /\ UNCHANGED results

(* An error of the last statement is only logged. *)
StatementFails ==
  /\ worker.step \in {"failing", "completing"}
  /\ Idle
  /\ UNCHANGED <<row, results>>

ProcessOne ==
  \/ \E r \in Run : Claim(r) \/ ReadClaimed(r)
  \/ ClaimNothing
  \/ ReadNothing
  \/ Invoke
  \/ \E readable \in BOOLEAN : CheckCancellation(readable)
  \/ \E saved, ok \in BOOLEAN : SaveCompletedRun(saved, ok)
  \/ FailLifecycleRun
  \/ CompleteLifecycleRun
  \/ StatementFails

Next ==
  \/ \E r \in Run : CreateLifecycleRun(r) \/ RequestCancellation(r) \/ ExpireLease(r)
  \/ Start
  \/ Die
  \/ Heartbeat
  \/ ProcessOne

Spec == Init /\ [][Next]_vars

(* A process that is down is replaced, a worker that has work does it, and *)
(* the clock passes a lease that nobody renews.                            *)
Fairness ==
  /\ WF_vars(Start)
  /\ WF_vars(ProcessOne)
  /\ \A r \in Run : WF_vars(ExpireLease(r) /\ worker.run # r)

FairSpec == Spec /\ Fairness

-----------------------------------------------------------------------------
(* Rows, results and the worker have their types; no attempt exceeds       *)
(* WORKER_MAX_ATTEMPTS; and a run has an owner and a lease exactly while   *)
(* it is running, so only the lease of a running run can expire and a      *)
(* requeued run carries no owner.                                          *)
GoTypeOK ==
  /\ row \in [Run -> Row]
  /\ results \in [Run -> SUBSET (Nat \ {0})]
  /\ worker \in [id : 0 .. Incarnations, step : Step, run : Run \cup {None},
                 attempt : 0 .. MaxAttempts]
  /\ \A r \in Run : /\ row[r].status = "running" <=> row[r].worker_id # None
                    /\ row[r].status = "running" <=> row[r].lease # "none"

(* Completion order: the result that a completed run points at is in the   *)
(* results table.                                                          *)
CompletedPointsAtResult ==
  \A r \in Run : row[r].status = "completed" => row[r].result_id \in results[r]

(* A run that has ended stays as it is, whatever is canceled, reclaimed or *)
(* failed later, with one exception.  FailLifecycleRun, the one unfenced   *)
(* statement, may reopen a run that was canceled during the attempt it     *)
(* reports on.  It reaches no completed and no failed run, because the     *)
(* only worker that could issue it has moved on.                           *)
Reopened(r) ==
  /\ row[r].status = "canceled" /\ row'[r].status \in {"queued", "failed"}
  /\ worker.step = "failing" /\ worker.run = r

EndedIsFinal ==
  [][\A r \in Run : row[r].status \in Terminal => row'[r] = row[r] \/ Reopened(r)]_vars

(* What go-api/README.md and worker.go say of retries: they cannot produce *)
(* a second row in the results table.                                      *)
OneResultPerRun == \A r \in Run : Cardinality(results[r]) <= 1

(* What go-api/README.md says of cancellation: it wins before a result     *)
(* exists, and afterwards the completion wins.  A run canceled without a   *)
(* result stays canceled, and one whose result is in the table is not      *)
(* canceled any more.                                                      *)
CancellationRule ==
  [][\A r \in Run :
       /\ row[r].status = "canceled" /\ results[r] = {}
            => row'[r].status = "canceled"
       /\ row[r].status = "running" /\ results[r] # {}
            => row'[r].status # "canceled"]_vars

(* What go-api/README.md says of recovery: a run that keeps failing ends   *)
(* terminally.                                                             *)
GoEveryRunEnds ==
  \A r \in Run : row[r].status = "queued" ~> row[r].status \in Terminal
=============================================================================
