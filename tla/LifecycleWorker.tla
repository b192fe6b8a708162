--------------------------- MODULE LifecycleWorker --------------------------
(***************************************************************************)
(* The workers of lifecycle.py over the store of LifecycleStore and the    *)
(* external result sink.  A worker process claims one run at a time and    *)
(* executes it in an attempt thread of its own, watched by the main thread *)
(* and kept alive by a heartbeat thread.  A watched attempt whose abort    *)
(* event is set is DETACHED: the main thread goes on to claim other runs   *)
(* while the attempt thread keeps running, and may still write.            *)
(*                                                                         *)
(* An attempt is <<run, attempt_number>>: claim_lifecycle_run increments   *)
(* the number, so the pair is unique.  Its thread does one repository call *)
(* per step.                                                               *)
(***************************************************************************)
EXTENDS LifecycleStore

CONSTANT SubmittedCallbacks  \* whether submissions carry callback metadata

ASSUME SubmittedCallbacksAssumption == SubmittedCallbacks \subseteq BOOLEAN

Attempt == Run \X (1 .. MaxAttempts)

ASSUME NoAttemptAssumption == None \notin Attempt

VARIABLES
  sink,    \* the result sink: the bytes published for each run
  proc,    \* state of each worker process
  main,    \* the attempt each worker's main thread watches
  lock,    \* the attempt that holds each worker's _publish_lock
  notices, \* cancellations recorded but not yet notified, by <<worker, run>>
  pc,      \* where each attempt thread is
  owner,   \* the worker whose thread it is
  abort,   \* its abort_work event
  beat,    \* its heartbeat thread
  made,    \* the result it generated
  view     \* the prepared publication it last read

workerVars == <<sink, proc, main, lock, notices, pc, owner, abort, beat, made, view>>
vars == <<row, outbox, sink, proc, main, lock, notices, pc, owner, abort, beat,
          made, view>>

(* What get_prepared_publication returns. *)
Prepared == [publication_state : PublicationState, bytes : Bytes \cup {None}]

GetPreparedPublication(r) ==
  IF row[r].publication_state = "none" THEN None
  ELSE [publication_state |-> row[r].publication_state,
        bytes |-> row[r].prepared]

(* Steps of _process that hold the publish lock, and the ones that do not. *)
LockedSteps == {"check-stage", "prepare", "check-publish", "begin", "save",
                "complete"}
OpenSteps == {"start", "check-before", "lookup", "invoke", "check-after",
              "want-stage", "reread", "want-publish"}
Working == LockedSteps \cup OpenSteps
Raised == {"raised", "raised-permanent"}
Failing == {"failing", "failing-permanent"}

(* Steps that are repository calls and so may raise PersistenceError. *)
RepositoryCalls == {"start", "check-before", "lookup", "check-after",
                    "check-stage", "prepare", "reread", "check-publish",
                    "begin", "complete"}

PcState == {"unborn", "claimed", "finished", "killed"}
             \cup Working \cup Raised \cup Failing

WInit ==
  /\ Init
  /\ sink = [r \in Run |-> None]
  /\ proc = [w \in Worker |-> "new"]
  /\ main = [w \in Worker |-> None]
  /\ lock = [w \in Worker |-> None]
  /\ notices = {}
  /\ pc = [a \in Attempt |-> "unborn"]
  /\ owner = [a \in Attempt |-> None]
  /\ abort = [a \in Attempt |-> FALSE]
  /\ beat = [a \in Attempt |-> "off"]
  /\ made = [a \in Attempt |-> None]
  /\ view = [a \in Attempt |-> None]

-----------------------------------------------------------------------------
(* HTTP requests and the clock. *)

SubmitRun(r, cb) ==
  /\ \E w \in Worker : proc[w] = "up"
  /\ CreateLifecycleRun(r, cb)
  /\ UNCHANGED workerVars

ReplayWithCallback(r) ==
  /\ \E w \in Worker : proc[w] = "up"
  /\ BindCallback(r)
  /\ UNCHANGED workerVars

(* cancel_run: the store is updated under the publish lock, the active     *)
(* attempt is told afterwards.                                             *)
CancelRun(w, r) ==
  /\ proc[w] = "up"
  /\ lock[w] = None
  /\ CancelLifecycleRun(r)
  /\ notices' = notices \cup {<<w, r>>}
  /\ UNCHANGED <<sink, proc, main, lock, pc, owner, abort, beat, made, view>>

(* notify_cancellation: whichever attempt of the run is registered NOW. *)
Registered(w, a) == main[w] = a /\ pc[a] # "claimed"

NotifyCancellation(w, r) ==
  /\ <<w, r>> \in notices
  /\ notices' = notices \ {<<w, r>>}
  /\ abort' = [a \in Attempt |->
                 abort[a] \/ (a[1] = r /\ Registered(w, a))]
  /\ UNCHANGED <<storeVars, sink, proc, main, lock, pc, owner, beat, made, view>>

TimePasses(r) == ExpireLease(r) /\ UNCHANGED workerVars

-----------------------------------------------------------------------------
(* The worker process and its main thread. *)

Start(w) ==
  /\ proc[w] = "new"
  /\ proc' = [proc EXCEPT ![w] = "up"]
  /\ UNCHANGED <<storeVars, sink, main, lock, notices, pc, owner, abort, beat,
                 made, view>>

(* Bound: a process only goes away while another one can still serve. *)
Replaceable(w) == \E v \in Worker \ {w} : proc[v] \in {"new", "up"}

(* stop: no more claims; the registered attempt is aborted. *)
Stop(w) ==
  /\ proc[w] = "up"
  /\ Replaceable(w)
  /\ proc' = [proc EXCEPT ![w] = "stopping"]
  /\ abort' = [a \in Attempt |-> abort[a] \/ Registered(w, a)]
  /\ UNCHANGED <<storeVars, sink, main, lock, notices, pc, owner, beat, made, view>>

(* The process ends, at the end of a stop or at any other moment: every    *)
(* thread of it is gone, daemon threads included.                          *)
Exit(w) ==
  /\ proc[w] = "stopping" \/ (proc[w] = "up" /\ Replaceable(w))
  /\ proc' = [proc EXCEPT ![w] = "dead"]
  /\ main' = [main EXCEPT ![w] = None]
  /\ lock' = [lock EXCEPT ![w] = None]
  /\ notices' = {c \in notices : c[1] # w}
  /\ pc' = [a \in Attempt |-> IF owner[a] = w /\ pc[a] # "finished"
                              THEN "killed" ELSE pc[a]]
  /\ abort' = [a \in Attempt |-> abort[a] /\ owner[a] # w]
  /\ beat' = [a \in Attempt |-> IF owner[a] = w THEN "off" ELSE beat[a]]
  /\ made' = [a \in Attempt |-> IF owner[a] = w THEN None ELSE made[a]]
  /\ view' = [a \in Attempt |-> IF owner[a] = w THEN None ELSE view[a]]
  /\ UNCHANGED <<storeVars, sink, owner>>

(* _run: claim_lifecycle_run and what it returned. *)
ClaimRun(w, r) ==
  LET a == <<r, row[r].attempt_number + 1>> IN
  /\ proc[w] = "up"
  /\ main[w] = None
  /\ ClaimLifecycleRun(w, r)
  /\ main' = [main EXCEPT ![w] = a]
  /\ pc' = [pc EXCEPT ![a] = "claimed"]
  /\ owner' = [owner EXCEPT ![a] = w]
  /\ UNCHANGED <<sink, proc, lock, notices, abort, beat, made, view>>

PollNothing(w) ==
  /\ proc[w] = "up"
  /\ main[w] = None
  /\ ClaimNothing
  /\ UNCHANGED workerVars

(* _execute registers the attempt and starts its two threads. *)
Launch(w, a) ==
  /\ main[w] = a
  /\ pc[a] = "claimed"
  /\ pc' = [pc EXCEPT ![a] = "start"]
  /\ beat' = [beat EXCEPT ![a] = "on"]
  /\ UNCHANGED <<storeVars, sink, proc, main, lock, notices, owner, abort, made,
                 view>>

UnwatchOnly(w, a) ==  \* faulty variant: the heartbeat is left running
  /\ main' = [main EXCEPT ![w] = None]
  /\ UNCHANGED beat

(* The finally block of _execute: the heartbeat thread is told to stop and *)
(* the attempt is no longer registered.                                    *)
Unwatch(w, a) ==
  /\ main' = [main EXCEPT ![w] = None]
  /\ beat' = [beat EXCEPT ![a] = IF @ = "on" THEN "leaving" ELSE @]

(* The watched attempt is done, or was seen aborted before it was seen     *)
(* done: an exception it raises or has just raised is then never persisted.*)
StopWatching(w, a) ==
  /\ main[w] = a
  /\ pc[a] = "finished" \/ (abort[a] /\ pc[a] \in Working \cup Raised)
  /\ Unwatch(w, a)
  /\ UNCHANGED <<storeVars, sink, proc, lock, notices, pc, owner, abort, made, view>>

(* _persist_attempt_failure, its read. *)
ReadBeforeFailing(w, a) ==
  /\ main[w] = a
  /\ pc[a] \in Raised
  /\ view' = [view EXCEPT ![a] = GetPreparedPublication(a[1])]
  /\ pc' = [pc EXCEPT ![a] = IF @ = "raised" THEN "failing"
                                             ELSE "failing-permanent"]
  /\ UNCHANGED <<storeVars, sink, proc, main, lock, notices, owner, abort, beat,
                 made>>

(* _persist_attempt_failure, its write.  A pending publication is left for *)
(* recovery unless the sink refused it for good; then the staged result is *)
(* kept with the failure.                                                  *)
SeesPending(a) == view[a] # None /\ view[a].publication_state = "publication-pending"

PersistFailure(w, a) ==
  /\ main[w] = a
  /\ pc[a] \in Failing
  /\ IF \/ SeesPending(a) /\ pc[a] = "failing"
        \/ ~CanFail(row[a[1]], w, a[2])
     THEN UNCHANGED storeVars
     ELSE FailLifecycleRun(a[1], w, a[2],
                           IF SeesPending(a) THEN view[a].bytes ELSE None)
  /\ pc' = [pc EXCEPT ![a] = "finished"]
  /\ view' = [view EXCEPT ![a] = None]
  /\ Unwatch(w, a)
  /\ UNCHANGED <<sink, proc, lock, notices, owner, abort, made>>

(* A PersistenceError in _persist_attempt_failure is only logged. *)
PersistenceFault(w, a) ==
  /\ main[w] = a
  /\ pc[a] \in Raised \cup Failing
  /\ pc' = [pc EXCEPT ![a] = "finished"]
  /\ view' = [view EXCEPT ![a] = None]
  /\ Unwatch(w, a)
  /\ UNCHANGED <<storeVars, sink, proc, lock, notices, owner, abort, made>>

-----------------------------------------------------------------------------
(* The heartbeat thread. *)

(* One renewal.  Losing the row, or seeing a cancellation, aborts the      *)
(* attempt; losing the row also ends the thread.  A thread told to stop    *)
(* may still have one renewal under way.  The status read after a renewal  *)
(* is taken together with it: a cancellation that falls between the two    *)
(* aborts the attempt just as one that comes right before or right after.  *)
(* A renewal that raises PersistenceError changes nothing.                 *)
Heartbeat(a) ==
  LET x == row[a[1]]
      renewed == OwnedBy(x, owner[a], a[2]) IN
  /\ beat[a] # "off"
  /\ IF renewed THEN HeartbeatLifecycleRun(a[1], owner[a], a[2])
                ELSE UNCHANGED storeVars
  /\ abort' = [abort EXCEPT ![a] = @ \/ ~renewed \/ x.cancel_requested]
  /\ beat' = [beat EXCEPT ![a] = IF renewed /\ @ = "on" THEN "on" ELSE "off"]
  /\ UNCHANGED <<sink, proc, main, lock, notices, pc, owner, made, view>>

HeartbeatEnds(a) ==
  /\ beat[a] = "leaving"
  /\ beat' = [beat EXCEPT ![a] = "off"]
  /\ UNCHANGED <<storeVars, sink, proc, main, lock, notices, pc, owner, abort,
                 made, view>>

-----------------------------------------------------------------------------
(* The attempt thread: _run_attempt around _process.  "Faulty variants"    *)
(* are unused, as in LifecycleStore.                                       *)

(* Going on at "step" with the locals result and prepared; they are gone   *)
(* when the thread has ended.                                              *)
Continue(a, step, result, prepared) ==
  /\ pc' = [pc EXCEPT ![a] = step]
  /\ made' = [made EXCEPT ![a] = IF step \in Working THEN result ELSE None]
  /\ view' = [view EXCEPT ![a] = IF step \in Working THEN prepared ELSE None]

Goto(a, step) == Continue(a, step, made[a], view[a])

KeepLocked(a) == UNCHANGED lock  \* faulty variant

(* Leaving the "with self._publish_lock" block. *)
Unlock(a) == lock' = [lock EXCEPT ![owner[a]] = IF @ = a THEN None ELSE @]

(* _abort_if_requested, going on at "next" when it returns False.  A lost  *)
(* attempt sets its own abort event; past the cutoff nothing stops it.     *)
AbortIfRequested(a, next) ==
  LET x == row[a[1]]
      owns == OwnedBy(x, owner[a], a[2])
      cancels == owns /\ ~IsPending(x) /\ x.cancel_requested
      stops == ~owns \/ (~IsPending(x) /\ (x.cancel_requested \/ abort[a])) IN
  /\ IF cancels THEN FailLifecycleRun(a[1], owner[a], a[2], None)
                ELSE UNCHANGED storeVars
  /\ abort' = [abort EXCEPT ![a] = @ \/ ~owns]
  /\ Goto(a, IF stops THEN "finished" ELSE next)
  /\ IF stops THEN Unlock(a) ELSE UNCHANGED lock
  /\ UNCHANGED <<sink, proc, main, notices, owner, beat>>

(* The first read: a staged result is published without translating again. *)
ReadPrepared(a) ==
  /\ pc[a] = "start"
  /\ LET prepared == GetPreparedPublication(a[1]) IN
     Continue(a, IF prepared = None THEN "check-before" ELSE "want-publish",
              None, prepared)
  /\ UNCHANGED <<storeVars, sink, proc, main, lock, notices, owner, abort, beat>>

CheckBeforeWork(a) ==
  /\ pc[a] = "check-before"
  /\ AbortIfRequested(a, "lookup")

(* get_run: a result that the sink already holds is not generated again. *)
LookupRun(a) ==
  /\ pc[a] = "lookup"
  /\ Continue(a, IF sink[a[1]] = None THEN "invoke" ELSE "want-stage",
              sink[a[1]], None)
  /\ UNCHANGED <<storeVars, sink, proc, main, lock, notices, owner, abort, beat>>

(* The capability returns some result, or raises, or observes its abort    *)
(* event and raises OperationCancelled.                                    *)
Generate(a, b) ==
  /\ pc[a] = "invoke"
  /\ Continue(a, "check-after", b, None)
  /\ UNCHANGED <<storeVars, sink, proc, main, lock, notices, owner, abort, beat>>

GenerateRaises(a) ==
  /\ pc[a] = "invoke"
  /\ Goto(a, "raised")
  /\ UNCHANGED <<storeVars, sink, proc, main, lock, notices, owner, abort, beat>>

OperationCancelled(a) ==
  /\ pc[a] = "invoke"
  /\ abort[a]
  /\ Goto(a, "finished")
  /\ UNCHANGED <<storeVars, sink, proc, main, lock, notices, owner, abort, beat>>

CheckAfterWork(a) ==
  /\ pc[a] = "check-after"
  /\ AbortIfRequested(a, "want-stage")

AcquirePublishLock(a) ==
  /\ pc[a] \in {"want-stage", "want-publish"}
  /\ lock[owner[a]] = None
  /\ lock' = [lock EXCEPT ![owner[a]] = a]
  /\ Goto(a, IF pc[a] = "want-stage" THEN "check-stage"
             ELSE IF view[a].publication_state = "prepared" THEN "check-publish"
             ELSE "begin")
  /\ UNCHANGED <<storeVars, sink, proc, main, notices, owner, abort, beat>>

CheckBeforeStaging(a) ==
  /\ pc[a] = "check-stage"
  /\ AbortIfRequested(a, "prepare")

StageResult(a) ==
  LET staged == CanPrepare(row[a[1]], owner[a], a[2]) IN
  /\ pc[a] = "prepare"
  /\ IF staged THEN PrepareLifecyclePublication(a[1], owner[a], a[2], made[a])
               ELSE UNCHANGED storeVars
  /\ Goto(a, IF staged THEN "reread" ELSE "finished")
  /\ Unlock(a)
  /\ UNCHANGED <<sink, proc, main, notices, owner, abort, beat>>

RereadPrepared(a) ==
  /\ pc[a] = "reread"
  /\ LET prepared == GetPreparedPublication(a[1]) IN
     Continue(a, IF prepared = None THEN "raised" ELSE "want-publish",
              None, prepared)
  /\ UNCHANGED <<storeVars, sink, proc, main, lock, notices, owner, abort, beat>>

CheckBeforePublishing(a) ==
  /\ pc[a] = "check-publish"
  /\ AbortIfRequested(a, "begin")

BeginPublication(a) ==
  LET x == row[a[1]]
      begun == \/ CanBegin(x, owner[a], a[2])
               \/ AlreadyBegun(x, owner[a], a[2]) IN
  /\ pc[a] = "begin"
  /\ IF CanBegin(x, owner[a], a[2])
     THEN BeginLifecyclePublication(a[1], owner[a], a[2])
     ELSE UNCHANGED storeVars
  /\ Goto(a, IF begun THEN "save" ELSE "finished")
  /\ IF begun THEN UNCHANGED lock ELSE Unlock(a)
  /\ UNCHANGED <<sink, proc, main, notices, owner, abort, beat>>

SaveAssumingSuccess(a, wrote, outcome) ==  \* faulty variant: a lost write passes
  /\ pc[a] = "save"
  /\ sink' = [sink EXCEPT ![a[1]] = IF wrote /\ @ = None THEN view[a].bytes ELSE @]
  /\ Goto(a, outcome)
  /\ IF outcome = "complete" THEN UNCHANGED lock ELSE Unlock(a)
  /\ UNCHANGED <<storeVars, proc, main, notices, owner, abort, beat>>

(* save_completed_run.  The sink keeps the first bytes it is given.  The   *)
(* call may fail with or without having written; some failures (a refused  *)
(* registration, a readback that differs) are permanent.                   *)
SaveCompletedRun(a, wrote, outcome) ==
  LET bytes == view[a].bytes IN
  /\ pc[a] = "save"
  /\ outcome = "complete" => wrote /\ sink[a[1]] \in {None, bytes}
  /\ sink' = [sink EXCEPT ![a[1]] = IF wrote /\ @ = None THEN bytes ELSE @]
  /\ Goto(a, outcome)
  /\ IF outcome = "complete" THEN UNCHANGED lock ELSE Unlock(a)
  /\ UNCHANGED <<storeVars, proc, main, notices, owner, abort, beat>>

CompleteRun(a) ==
  LET x == row[a[1]] IN
  /\ pc[a] = "complete"
  /\ IF CanComplete(x, owner[a], a[2]) \/ CancelsAtCompletion(x, owner[a], a[2])
     THEN CompleteLifecycleRun(a[1], owner[a], a[2], view[a].bytes)
     ELSE UNCHANGED storeVars
  /\ Goto(a, "finished")
  /\ Unlock(a)
  /\ UNCHANGED <<sink, proc, main, notices, owner, abort, beat>>

(* Any repository call of the thread may raise PersistenceError. *)
RepositoryFault(a) ==
  /\ pc[a] \in RepositoryCalls
  /\ Goto(a, "raised")
  /\ Unlock(a)
  /\ UNCHANGED <<storeVars, sink, proc, main, notices, owner, abort, beat>>

AttemptStep(a) ==
  \/ ReadPrepared(a)
  \/ CheckBeforeWork(a)
  \/ LookupRun(a)
  \/ \E b \in Bytes : Generate(a, b)
  \/ GenerateRaises(a)
  \/ OperationCancelled(a)
  \/ CheckAfterWork(a)
  \/ AcquirePublishLock(a)
  \/ CheckBeforeStaging(a)
  \/ StageResult(a)
  \/ RereadPrepared(a)
  \/ CheckBeforePublishing(a)
  \/ BeginPublication(a)
  \/ \E wrote \in BOOLEAN, outcome \in {"complete"} \cup Raised :
       SaveCompletedRun(a, wrote, outcome)
  \/ CompleteRun(a)
  \/ RepositoryFault(a)

-----------------------------------------------------------------------------
Claim(w) == PollNothing(w) \/ \E r \in Run : ClaimRun(w, r)

Watch(w, a) ==
  \/ Launch(w, a)
  \/ StopWatching(w, a)
  \/ ReadBeforeFailing(w, a)
  \/ PersistFailure(w, a)
  \/ PersistenceFault(w, a)

WNext ==
  \/ \E r \in Run : \/ \E cb \in SubmittedCallbacks : SubmitRun(r, cb)
                    \/ ReplayWithCallback(r)
                    \/ TimePasses(r)
  \/ \E w \in Worker : \/ Start(w)
                       \/ Stop(w)
                       \/ Exit(w)
                       \/ Claim(w)
                       \/ \E r \in Run : CancelRun(w, r) \/ NotifyCancellation(w, r)
                       \/ \E a \in Attempt : Watch(w, a)
  \/ \E a \in Attempt : \/ Heartbeat(a)
                        \/ HeartbeatEnds(a)
                        \/ AttemptStep(a)

WSpec == WInit /\ [][WNext]_vars

(* Nobody renews the lease of the run's current attempt. *)
Unattended(r) ==
  \A a \in Attempt : a = <<r, row[r].attempt_number>> => beat[a] = "off"

(* Threads that can run do run; a translation and a call of the sink       *)
(* return; the clock passes a lease that nobody renews; a stopping process *)
(* ends and a deployed one starts.  Nothing obliges anybody to submit, to  *)
(* cancel, to fail, to crash or to stop.                                   *)
Fairness ==
  /\ \A a \in Attempt : WF_vars(AttemptStep(a)) /\ WF_vars(HeartbeatEnds(a))
  /\ \A w \in Worker : /\ WF_vars(Start(w))
                       /\ WF_vars(proc[w] = "stopping" /\ Exit(w))
                       /\ WF_vars(Claim(w))
                       /\ WF_vars(\E a \in Attempt : Watch(w, a))
  /\ \A r \in Run : WF_vars(TimePasses(r) /\ Unattended(r))

FairSpec == WSpec /\ Fairness

-----------------------------------------------------------------------------
WorkerTypes ==
  /\ sink \in [Run -> Bytes \cup {None}]
  /\ proc \in [Worker -> {"new", "up", "stopping", "dead"}]
  /\ main \in [Worker -> Attempt \cup {None}]
  /\ lock \in [Worker -> Attempt \cup {None}]
  /\ notices \subseteq Worker \X Run
  /\ pc \in [Attempt -> PcState]
  /\ owner \in [Attempt -> Worker \cup {None}]
  /\ abort \in [Attempt -> BOOLEAN]
  /\ beat \in [Attempt -> {"off", "on", "leaving"}]
  /\ made \in [Attempt -> Bytes \cup {None}]
  /\ view \in [Attempt -> Prepared \cup {None}]

(* Every variable of the store and of the workers has its type. *)
WTypeOK == TypeOK /\ WorkerTypes

(* What the sink holds for a run is what the store staged for it, although *)
(* attempts regenerate different results and detached attempts and         *)
(* recoveries save concurrently from several processes.                    *)
SinkHoldsStagedBytes ==
  \A r \in Run : sink[r] # None => sink[r] = row[r].prepared

(* A canceled run has nothing in the sink, and no detached attempt puts    *)
(* anything there later.                                                   *)
CanceledNeverPublished ==
  \A r \in Run : row[r].status = "canceled" => sink[r] = None

(* A completed run shows the very bytes that were staged and that the sink *)
(* holds, under the domain state inside those bytes.                       *)
CompletedIsPublished ==
  \A r \in Run : row[r].status = "completed" =>
    /\ row[r].publication_state = "published"
    /\ sink[r] # None
    /\ row[r].result = sink[r]
    /\ row[r].terminal_state = TerminalStateOf[sink[r]]

(* The publish lock is held exactly by the attempt that is inside a locked *)
(* block, so every exception, early return and process death gives it      *)
(* back, and cancel_run and the next publication cannot block for ever.    *)
LockHeldInside ==
  /\ \A a \in Attempt : pc[a] \in LockedSteps => lock[owner[a]] = a
  /\ \A w \in Worker : lock[w] # None =>
       owner[lock[w]] = w /\ pc[lock[w]] \in LockedSteps

(* A heartbeat runs only while the main thread of its process watches the  *)
(* attempt: nothing keeps alive the lease of an abandoned attempt.         *)
NoOrphanHeartbeat ==
  \A a \in Attempt : beat[a] = "on" => main[owner[a]] = a

(* What an attempt holds ends with it: neither its publish lock nor its    *)
(* heartbeat outlives a fault, an abandonment or the death of the process. *)
AttemptsAreContained == LockHeldInside /\ NoOrphanHeartbeat

(* The workers keep the contract of every run.  One claim may end some     *)
(* runs and start another, so a step takes each run by at most one step of *)
(* its own contract.                                                       *)
Contract(r) == INSTANCE RunContract WITH
  phase <- row[r].status,
  decided <- row[r].publication_state \in {"publication-pending", "published"},
  published <- sink[r] # None,
  event <- IF outbox[r] = None THEN "none" ELSE outbox[r].terminal_status

ImplementsContract ==
  /\ \A r \in Run : Contract(r)!ContractInit
  /\ [][\A r \in Run : Contract(r)!ContractStep]_vars

(* Every accepted run ends: through crashes, detached attempts, lost       *)
(* leases, repository faults and a failing sink.                           *)
EveryRunEnds ==
  \A r \in Run : row[r].status = "queued" ~> IsTerminal(row[r])

(* The publish lock always comes free again. *)
LockComesFree ==
  \A w \in Worker : lock[w] # None ~> lock[w] = None

(* What docs/orchestration-integration.md says of recovery: a publication  *)
(* that is pending is not given up because of the attempt bound, since the *)
(* sink may already hold its row.  The first UPDATE of claim_lifecycle_run *)
(* does give it up, so this does not hold.                                 *)
PendingRecoverySurvivesAttemptBound ==
  [][\A r \in Run :
       /\ row[r].status = "running"
       /\ IsPending(row[r])
       /\ LeaseExpired(row[r])
       /\ sink[r] # None
       => row'[r].status # "failed"]_vars
=============================================================================
