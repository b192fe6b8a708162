------------------------ MODULE LifecycleWorkerProofs -----------------------
(***************************************************************************)
(* The workers keep the store's rules and never publish a canceled run,    *)
(* for any number of runs, worker processes, results and attempts.         *)
(*                                                                         *)
(* Every worker step is a step of the store or leaves the store alone, so  *)
(* what LifecycleStoreProofs shows of a row step carries over.  On top of  *)
(* it, WorkerInv says what an attempt thread may rely on although it has   *)
(* lost the run: what it read of the staged bytes is still what is staged, *)
(* and once its begin_lifecycle_publication succeeded the run can no       *)
(* longer be canceled.                                                     *)
(***************************************************************************)
EXTENDS LifecycleWorker, LifecycleStoreProofs

USE DEF DomainState, Terminal, Status, PublicationState

(* Where the prepared publication, and the generated result, are in use. *)
Publishing == {"want-publish", "check-publish", "begin", "save", "complete"}
Staging == {"check-after", "want-stage", "check-stage", "prepare"}

(* The run began to publish: it will not be canceled any more. *)
PastCutoff(x) ==
  \/ x.status = "running" /\ IsPending(x)
  \/ x.status = "completed" /\ x.publication_state = "published"
  \/ x.status = "failed" /\ x.publication_state = "prepared"

AttemptOK(a) ==
  /\ view[a] # None => /\ view[a].bytes \in Bytes
                       /\ view[a].bytes = row[a[1]].prepared
  /\ pc[a] \in Publishing => view[a] # None
  /\ pc[a] \in {"save", "complete"} => PastCutoff(row[a[1]])
  /\ pc[a] = "complete" => sink[a[1]] = view[a].bytes
  /\ pc[a] \in Staging => made[a] \in Bytes

RunOK(r) ==
  /\ sink[r] # None => sink[r] = row[r].prepared /\ PastCutoff(row[r])
  /\ row[r].status = "completed" =>
       /\ row[r].publication_state = "published"
       /\ sink[r] # None
       /\ row[r].result = sink[r]
       /\ row[r].terminal_state = TerminalStateOf[sink[r]]

(* The inductive invariant. *)
WorkerInv ==
  /\ StoreInv
  /\ WorkerTypes
  /\ \A a \in Attempt : AttemptOK(a)
  /\ \A r \in Run : RunOK(r)

-----------------------------------------------------------------------------
(* Store steps by which no run completes. *)

Uncompleting ==
  \/ UNCHANGED storeVars
  \/ ClaimNothing
  \/ \E r \in Run : \/ \E cb \in BOOLEAN : CreateLifecycleRun(r, cb)
                    \/ BindCallback(r)
                    \/ CancelLifecycleRun(r)
                    \/ ExpireLease(r)
  \/ \E r \in Run, w \in Worker : ClaimLifecycleRun(w, r)
  \/ \E r \in Run, w \in Worker, n \in 1 .. MaxAttempts :
       \/ HeartbeatLifecycleRun(r, w, n)
       \/ BeginLifecyclePublication(r, w, n)
       \/ \E b \in Bytes : PrepareLifecyclePublication(r, w, n, b)
       \/ \E b \in Bytes \cup {None} : FailLifecycleRun(r, w, n, b)

(* They are steps of the store. *)
LEMMA UncompletingIsStoreStep ==
  Uncompleting => [Next]_storeVars
BY DEF Uncompleting, Next

(* An update of one row that does not complete it completes no run. *)
LEMMA WriteCompletesNothing ==
  ASSUME StoreInv, NEW r \in Run, NEW y,
         Write(r, y) \/ WriteQuietly(r, y),
         y.status = "completed" => row[r].status = "completed",
         NEW q \in Run, row'[q].status = "completed"
  PROVE  row[q].status = "completed"
BY DEF StoreInv, Write, WriteQuietly

(* Neither does the sweep. *)
LEMMA SweptCompletesNothing ==
  ASSUME NEW x, RowOK(x), Swept(x).status = "completed"
  PROVE  x.status = "completed"
<1>1. FailedRow(x).status = "failed" /\ CanceledRow(x).status = "canceled"
  BY DEF FailedRow, CanceledRow, Released, RowOK, Row
<1> QED
  BY <1>1, SweptCases

(* Only complete_lifecycle_run completes a run. *)
LEMMA UncompletingCompletesNothing ==
  ASSUME StoreInv, Uncompleting, NEW q \in Run, row'[q].status = "completed"
  PROVE  row[q].status = "completed"
<1>0. \A r \in Run : RowOK(row[r])
  BY DEF StoreInv
<1>1. CASE UNCHANGED storeVars
  BY <1>1 DEF storeVars
<1>2. CASE ClaimNothing
  BY <1>0, <1>2, SweptCompletesNothing DEF ClaimNothing
<1>3. ASSUME NEW r \in Run, NEW cb \in BOOLEAN, CreateLifecycleRun(r, cb)
      PROVE  row[q].status = "completed"
  BY <1>3 DEF CreateLifecycleRun, WriteQuietly, AbsentRow, StoreInv
<1>4. ASSUME NEW r \in Run, BindCallback(r)
      PROVE  row[q].status = "completed"
  BY <1>4, WriteCompletesNothing DEF BindCallback, StoreInv, Row
<1>5. ASSUME NEW r \in Run, CancelLifecycleRun(r)
      PROVE  row[q].status = "completed"
  <2>1. CancellationOf(row[r]).status = "completed" => row[r].status = "completed"
    BY <1>0 DEF CancellationOf, CanceledRow, Released, RowOK, Row
  <2> QED
    BY <1>5, <2>1, WriteCompletesNothing DEF CancelLifecycleRun
<1>6. ASSUME NEW r \in Run, ExpireLease(r)
      PROVE  row[q].status = "completed"
  BY <1>6 DEF ExpireLease, WriteQuietly, StoreInv, Row
<1>7. ASSUME NEW r \in Run, NEW w \in Worker, ClaimLifecycleRun(w, r)
      PROVE  row[q].status = "completed"
  <2>1. CASE q = r
    <3>1. row'[r] = ClaimedRow(row[r], w)
      BY <1>0, <1>7, SweptClaimable DEF ClaimLifecycleRun
    <3> QED
      BY <1>0, <2>1, <3>1 DEF ClaimedRow, RowOK, Row
  <2>2. CASE q # r
    BY <1>0, <1>7, <2>2, SweptCompletesNothing DEF ClaimLifecycleRun
  <2> QED
    BY <2>1, <2>2
<1>8. ASSUME NEW r \in Run, NEW w \in Worker, NEW n \in 1 .. MaxAttempts,
             \/ HeartbeatLifecycleRun(r, w, n)
             \/ BeginLifecyclePublication(r, w, n)
             \/ \E b \in Bytes : PrepareLifecyclePublication(r, w, n, b)
      PROVE  row[q].status = "completed"
  <2>1. CASE HeartbeatLifecycleRun(r, w, n)
    BY <2>1 DEF HeartbeatLifecycleRun, WriteQuietly, StoreInv, Row
  <2>2. CASE BeginLifecyclePublication(r, w, n)
    BY <2>2 DEF BeginLifecyclePublication, WriteQuietly, StoreInv, Row
  <2>3. ASSUME NEW b \in Bytes, PrepareLifecyclePublication(r, w, n, b)
        PROVE  row[q].status = "completed"
    BY <2>3 DEF PrepareLifecyclePublication, WriteQuietly, StoreInv, Row
  <2> QED
    BY <1>8, <2>1, <2>2, <2>3
<1>9. ASSUME NEW r \in Run, NEW w \in Worker, NEW n \in 1 .. MaxAttempts,
             NEW b \in Bytes \cup {None}, FailLifecycleRun(r, w, n, b)
      PROVE  row[q].status = "completed"
  <2>1. FailureOf(row[r], b).status # "completed"
    BY <1>0 DEF FailureOf, FailedRow, CanceledRow, Released, RowOK, Row
  <2> QED
    BY <1>9, <2>1, WriteCompletesNothing DEF FailLifecycleRun
<1> QED
  BY <1>1, <1>2, <1>3, <1>4, <1>5, <1>6, <1>7, <1>8, <1>9 DEF Uncompleting

-----------------------------------------------------------------------------
(* What a store step leaves true. *)

(* The parts of an attempt. *)
LEMMA AttemptParts ==
  ASSUME NEW a \in Attempt
  PROVE  a[1] \in Run /\ a[2] \in 1 .. MaxAttempts
BY DEF Attempt

(* A row step neither leaves the cutoff nor replaces staged bytes. *)
LEMMA PastCutoffStays ==
  ASSUME NEW x, NEW y, RowOK(x), RowStep(x, y), PastCutoff(x)
  PROVE  PastCutoff(y) /\ y.prepared = x.prepared
<1>1. x.prepared # None
  BY DEF PastCutoff, RowOK, IsPending
<1>2. CASE x.status = "running" /\ IsPending(x)
  BY <1>1, <1>2 DEF PastCutoff, RowStep
<1>3. CASE x.status # "running"
  <2>1. y \in {x, [x EXCEPT !.callback = TRUE]}
    BY <1>3 DEF PastCutoff, RowStep, IsTerminal
  <2> QED
    BY <2>1, <1>3 DEF PastCutoff, RowOK, Row, IsPending
<1> QED
  BY <1>2, <1>3 DEF PastCutoff

(* The sink keeps what it holds. *)
SinkKeeps == \A r \in Run : sink[r] # None => sink'[r] = sink[r]

(* An attempt that stays where it is, or ends, keeps its invariant. *)
LEMMA AttemptStays ==
  ASSUME WorkerInv, Stepped, SinkKeeps, NEW a \in Attempt,
         \/ /\ pc'[a] = pc[a]
            /\ view'[a] = view[a]
            /\ made'[a] = made[a]
         \/ /\ pc'[a] \notin Publishing \cup Staging
            /\ view'[a] \in {view[a], None}
  PROVE  AttemptOK(a)'
<1> DEFINE x == row[a[1]]
           y == row'[a[1]]
<1>0. /\ AttemptOK(a) /\ RowOK(x) /\ RowStep(x, y) /\ a[1] \in Run
  BY AttemptParts DEF WorkerInv, StoreInv, Stepped
<1>1. view[a] # None => /\ view[a].bytes \in Bytes
                        /\ view[a].bytes = y.prepared
  BY <1>0, NoneAssumption DEF AttemptOK, RowStep
<1>2. PastCutoff(x) => PastCutoff(y)
  BY <1>0, PastCutoffStays
<1>3. CASE /\ pc'[a] = pc[a]
           /\ view'[a] = view[a]
           /\ made'[a] = made[a]
  <2>1. pc[a] = "complete" => sink'[a[1]] = view[a].bytes
    BY <1>0, NoneAssumption DEF AttemptOK, SinkKeeps, Publishing
  <2> QED
    BY <1>0, <1>1, <1>2, <1>3, <2>1 DEF AttemptOK
<1>4. CASE pc'[a] \notin Publishing \cup Staging /\ view'[a] \in {view[a], None}
  BY <1>1, <1>4 DEF AttemptOK, Publishing, Staging
<1> QED
  BY <1>3, <1>4

(* An attempt that goes on keeps the invariant of all attempts when what   *)
(* it goes on with is right.                                               *)
LEMMA AttemptContinues ==
  ASSUME WorkerInv, Stepped, SinkKeeps,
         NEW a \in Attempt, NEW step, NEW result, NEW prepared,
         Continue(a, step, result, prepared),
         step \in Working /\ prepared # None =>
           prepared.bytes \in Bytes /\ prepared.bytes = row'[a[1]].prepared,
         step \in Publishing => prepared # None,
         step \in {"save", "complete"} => PastCutoff(row'[a[1]]),
         step = "complete" => sink'[a[1]] = prepared.bytes,
         step \in Staging => result \in Bytes
  PROVE  \A c \in Attempt : AttemptOK(c)'
<1> SUFFICES ASSUME NEW c \in Attempt PROVE AttemptOK(c)'
  OBVIOUS
<1>1. /\ pc \in [Attempt -> PcState]
      /\ DOMAIN made = Attempt /\ DOMAIN view = Attempt
  BY DEF WorkerInv, WorkerTypes
<1>2. CASE c # a
  <2>1. pc'[c] = pc[c] /\ view'[c] = view[c] /\ made'[c] = made[c]
    BY <1>1, <1>2 DEF Continue
  <2> QED
    BY <2>1, AttemptStays
<1>3. CASE c = a /\ step \in Working
  <2>1. pc'[a] = step /\ view'[a] = prepared /\ made'[a] = result
    BY <1>1, <1>3 DEF Continue
  <2> QED
    BY <1>3, <2>1 DEF AttemptOK
<1>4. CASE c = a /\ step \notin Working
  <2>1. pc'[a] = step /\ view'[a] = None
    BY <1>1, <1>4 DEF Continue
  <2> QED
    BY <1>4, <2>1, AttemptStays
       DEF Publishing, Staging, Working, LockedSteps, OpenSteps
<1> QED
  BY <1>2, <1>3, <1>4

(* A step that completes no run and leaves the sink alone keeps RunOK. *)
LEMMA RunStays ==
  ASSUME WorkerInv, Uncompleting, sink' = sink, NEW r \in Run
  PROVE  RunOK(r)'
<1>1. Stepped
  BY UncompletingIsStoreStep, EveryRowSteps DEF WorkerInv
<1>2. RowOK(row[r]) /\ RowStep(row[r], row'[r]) /\ RunOK(r)
  BY <1>1 DEF WorkerInv, StoreInv, Stepped
<1>3. ASSUME sink[r] # None
      PROVE  sink[r] = row'[r].prepared /\ PastCutoff(row'[r])
  BY <1>2, <1>3, PastCutoffStays DEF RunOK
<1>4. ASSUME row'[r].status = "completed"
      PROVE  /\ row'[r].publication_state = "published"
             /\ sink[r] # None
             /\ row'[r].result = sink[r]
             /\ row'[r].terminal_state = TerminalStateOf[sink[r]]
  <2>1. row[r].status = "completed"
    BY <1>4, UncompletingCompletesNothing DEF WorkerInv
  <2>2. row'[r] \in {row[r], [row[r] EXCEPT !.callback = TRUE]}
    BY <1>2, <2>1 DEF RowStep, IsTerminal
  <2> QED
    BY <1>2, <2>1, <2>2 DEF RunOK, RowOK, Row
<1> QED
  BY <1>3, <1>4 DEF RunOK

(* What is shown of every step: it keeps the invariant, and it is a step   *)
(* of the store or leaves the store alone.                                 *)
Kept == WorkerInv' /\ [Next]_storeVars

(* The parts of the invariant, put together. *)
LEMMA Reassembled ==
  ASSUME WorkerInv, Uncompleting, sink' = sink, WorkerTypes',
         \A a \in Attempt : AttemptOK(a)'
  PROVE  Kept
<1>1. StoreInv'
  BY UncompletingIsStoreStep, StoreInvNext DEF WorkerInv
<1>2. \A r \in Run : RunOK(r)'
  BY RunStays
<1> QED
  BY <1>1, <1>2, UncompletingIsStoreStep DEF WorkerInv, Kept

(* A step that moves no attempt into a locked or staging step, and reads   *)
(* nothing, keeps the invariant.                                           *)
LEMMA KeptBySimpleStep ==
  ASSUME WorkerInv, Uncompleting, sink' = sink, WorkerTypes',
         \A a \in Attempt :
           \/ pc'[a] = pc[a] /\ view'[a] = view[a] /\ made'[a] = made[a]
           \/ /\ pc'[a] \notin Publishing \cup Staging
              /\ view'[a] \in {view[a], None}
  PROVE  Kept
<1>1. Stepped /\ SinkKeeps
  BY UncompletingIsStoreStep, EveryRowSteps DEF WorkerInv, SinkKeeps
<1>2. \A a \in Attempt : AttemptOK(a)'
  BY <1>1, AttemptStays
<1> QED
  BY <1>2, Reassembled

-----------------------------------------------------------------------------
(* HTTP requests, the clock, the processes and the main threads. *)

(* Requests and the clock keep the invariant. *)
LEMMA RequestsKeepInv ==
  ASSUME WorkerInv, NEW r \in Run,
         \/ \E cb \in SubmittedCallbacks : SubmitRun(r, cb)
         \/ ReplayWithCallback(r)
         \/ TimePasses(r)
         \/ \E w \in Worker : CancelRun(w, r)
  PROVE  Kept
<1>1. Uncompleting
  BY SubmittedCallbacksAssumption
     DEF SubmitRun, ReplayWithCallback, TimePasses, CancelRun,
         Uncompleting
<1>2. UNCHANGED <<sink, proc, main, lock, pc, owner, abort, beat, made, view>>
  BY DEF SubmitRun, ReplayWithCallback, TimePasses, CancelRun,
         workerVars
<1>3. notices' \subseteq Worker \X Run
  BY DEF SubmitRun, ReplayWithCallback, TimePasses, CancelRun,
         workerVars, WorkerInv, WorkerTypes
<1>4. WorkerTypes'
  BY <1>2, <1>3 DEF WorkerInv, WorkerTypes
<1> QED
  BY <1>1, <1>2, <1>4, KeptBySimpleStep

(* A process that starts, stops or ends keeps the invariant. *)
LEMMA ProcessesKeepInv ==
  ASSUME WorkerInv, NEW w \in Worker,
         \/ Start(w)
         \/ Stop(w)
         \/ Exit(w)
         \/ \E r \in Run : NotifyCancellation(w, r)
  PROVE  Kept
<1>1. Uncompleting /\ sink' = sink
  BY DEF Start, Stop, Exit, NotifyCancellation, Uncompleting
<1>2. CASE Start(w)
  <2>1. WorkerTypes'
    BY <1>2 DEF Start, WorkerInv, WorkerTypes
  <2> QED
    BY <1>1, <1>2, <2>1, KeptBySimpleStep DEF Start
<1>3. CASE Stop(w)
  <2>1. abort' \in [Attempt -> BOOLEAN]
    BY <1>3 DEF Stop, WorkerInv, WorkerTypes, Registered
  <2>2. WorkerTypes'
    BY <1>3, <2>1 DEF Stop, WorkerInv, WorkerTypes
  <2> QED
    BY <1>1, <1>3, <2>2, KeptBySimpleStep DEF Stop
<1>4. CASE Exit(w)
  <2>1. abort' \in [Attempt -> BOOLEAN]
    BY <1>4 DEF Exit, WorkerInv, WorkerTypes
  <2>2. WorkerTypes'
    BY <1>4, <2>1 DEF Exit, WorkerInv, WorkerTypes, PcState
  <2>3. \A a \in Attempt :
           \/ pc'[a] = pc[a] /\ view'[a] = view[a] /\ made'[a] = made[a]
           \/ /\ pc'[a] \notin Publishing \cup Staging
              /\ view'[a] \in {view[a], None}
    BY <1>4 DEF Exit, WorkerInv, WorkerTypes, Publishing, Staging
  <2> QED
    BY <1>1, <2>2, <2>3, KeptBySimpleStep
<1>5. ASSUME NEW r \in Run, NotifyCancellation(w, r)
      PROVE  Kept
  <2>1. abort' \in [Attempt -> BOOLEAN]
    BY <1>5 DEF NotifyCancellation, WorkerInv, WorkerTypes, Registered
  <2>2. WorkerTypes'
    BY <1>5, <2>1 DEF NotifyCancellation, WorkerInv, WorkerTypes
  <2> QED
    BY <1>1, <1>5, <2>2, KeptBySimpleStep DEF NotifyCancellation
<1> QED
  BY <1>2, <1>3, <1>4, <1>5

(* A claim keeps the invariant: the attempt it starts is a new one. *)
LEMMA ClaimKeepsInv ==
  ASSUME WorkerInv, NEW w \in Worker, NEW r \in Run, ClaimRun(w, r)
  PROVE  Kept
<1> DEFINE a == <<r, row[r].attempt_number + 1>>
<1>1. Uncompleting /\ sink' = sink
  BY DEF ClaimRun, Uncompleting
<1>2. a \in Attempt
  <2>1. RowOK(row[r]) /\ Claimable(row[r])
    BY SweptClaimable DEF ClaimRun, ClaimLifecycleRun, WorkerInv, StoreInv
  <2>2. /\ row[r].attempt_number \in 0 .. MaxAttempts
        /\ row[r].attempt_number < MaxAttempts
    BY <2>1 DEF RowOK, Row, Claimable
  <2>3. row[r].attempt_number + 1 \in 1 .. MaxAttempts
    BY <2>2, MaxAttemptsAssumption
  <2> QED
    BY <2>3 DEF Attempt
<1>3. /\ main' = [main EXCEPT ![w] = a]
      /\ pc' = [pc EXCEPT ![a] = "claimed"]
      /\ owner' = [owner EXCEPT ![a] = w]
      /\ UNCHANGED <<sink, proc, lock, notices, abort, beat, made, view>>
  BY DEF ClaimRun
<1>4. WorkerTypes'
  <2> HIDE DEF a
  <2> QED
    BY <1>2, <1>3 DEF WorkerInv, WorkerTypes, PcState
<1>5. \A c \in Attempt :
        \/ pc'[c] = pc[c] /\ view'[c] = view[c] /\ made'[c] = made[c]
        \/ pc'[c] \notin Publishing \cup Staging /\ view'[c] \in {view[c], None}
  <2> HIDE DEF a
  <2> QED
    BY <1>2, <1>3 DEF WorkerInv, WorkerTypes, Publishing, Staging
<1> QED
  BY <1>1, <1>4, <1>5, KeptBySimpleStep

(* What get_prepared_publication returns is what is staged. *)
LEMMA PreparedOK ==
  ASSUME StoreInv, NEW r \in Run
  PROVE  /\ GetPreparedPublication(r) \in Prepared \cup {None}
         /\ GetPreparedPublication(r) # None =>
              /\ GetPreparedPublication(r).bytes \in Bytes
              /\ GetPreparedPublication(r).bytes = row[r].prepared
<1>1. RowOK(row[r])
  BY DEF StoreInv
<1>2. row[r].publication_state # "none" => row[r].prepared \in Bytes
  BY <1>1 DEF RowOK, Row
<1> QED
  BY <1>1, <1>2 DEF GetPreparedPublication, Prepared, RowOK, Row

(* The main thread of a worker keeps the invariant. *)
LEMMA WatchKeepsInv ==
  ASSUME WorkerInv, NEW w \in Worker, NEW a \in Attempt, Watch(w, a)
  PROVE  Kept
<1>0. a[1] \in Run /\ a[2] \in 1 .. MaxAttempts
  BY AttemptParts
<1>1. CASE Launch(w, a)
  <2>1. Uncompleting /\ WorkerTypes'
    BY <1>1 DEF Launch, Uncompleting, WorkerInv, WorkerTypes, PcState, Working,
                OpenSteps
  <2> QED
    BY <1>1, <2>1, KeptBySimpleStep
       DEF Launch, Publishing, Staging, WorkerInv, WorkerTypes
<1>2. CASE StopWatching(w, a)
  <2>1. Uncompleting /\ WorkerTypes'
    BY <1>2 DEF StopWatching, Unwatch, Uncompleting, WorkerInv, WorkerTypes
  <2> QED
    BY <1>2, <2>1, KeptBySimpleStep DEF StopWatching
<1>3. CASE ReadBeforeFailing(w, a)
  <2>1. Uncompleting /\ sink' = sink /\ row' = row
    BY <1>3 DEF ReadBeforeFailing, Uncompleting, storeVars
  <2>2. view' \in [Attempt -> Prepared \cup {None}]
    BY <1>0, <1>3, PreparedOK DEF ReadBeforeFailing, WorkerInv, WorkerTypes
  <2>3. WorkerTypes'
    BY <1>3, <2>2 DEF ReadBeforeFailing, WorkerInv, WorkerTypes, PcState, Failing
  <2>4. Stepped /\ SinkKeeps
    BY <2>1, UncompletingIsStoreStep, EveryRowSteps DEF WorkerInv, SinkKeeps
  <2>5. ASSUME NEW c \in Attempt PROVE AttemptOK(c)'
    <3>1. CASE c = a
      <4>1. view'[a] = GetPreparedPublication(a[1])
        BY <1>3 DEF ReadBeforeFailing, WorkerInv, WorkerTypes
      <4>2. pc'[a] \in Failing
        BY <1>3 DEF ReadBeforeFailing, WorkerInv, WorkerTypes, Failing
      <4> QED
        BY <1>0, <2>1, <3>1, <4>1, <4>2, PreparedOK
           DEF AttemptOK, WorkerInv, Failing, Publishing, Staging
    <3>2. CASE c # a
      BY <1>3, <2>4, <3>2, AttemptStays
         DEF ReadBeforeFailing, WorkerInv, WorkerTypes
    <3> QED
      BY <3>1, <3>2
  <2> QED
    BY <2>1, <2>3, <2>5, Reassembled
<1>4. CASE PersistFailure(w, a)
  <2>1. Uncompleting
    <3>1. SeesPending(a) => view[a].bytes \in Bytes
      BY DEF SeesPending, WorkerInv, AttemptOK
    <3>2. (IF SeesPending(a) THEN view[a].bytes ELSE None) \in Bytes \cup {None}
      BY <3>1
    <3> QED
      BY <1>0, <1>4, <3>2 DEF PersistFailure, Uncompleting
  <2>2. WorkerTypes'
    BY <1>4 DEF PersistFailure, Unwatch, WorkerInv, WorkerTypes, PcState
  <2> QED
    BY <1>4, <2>1, <2>2, KeptBySimpleStep
       DEF PersistFailure, Publishing, Staging, WorkerInv, WorkerTypes
<1>5. CASE PersistenceFault(w, a)
  <2>1. Uncompleting /\ WorkerTypes'
    BY <1>5 DEF PersistenceFault, Unwatch, Uncompleting, WorkerInv, WorkerTypes,
                PcState
  <2> QED
    BY <1>5, <2>1, KeptBySimpleStep
       DEF PersistenceFault, Publishing, Staging, WorkerInv, WorkerTypes
<1> QED
  BY <1>1, <1>2, <1>3, <1>4, <1>5 DEF Watch

-----------------------------------------------------------------------------
(* The heartbeat thread and the attempt thread. *)

(* Whoever owns a run is a worker. *)
LEMMA OwnerIsWorker ==
  ASSUME WorkerInv, NEW a \in Attempt, OwnedBy(row[a[1]], owner[a], a[2])
  PROVE  owner[a] \in Worker
BY AttemptParts DEF WorkerInv, WorkerTypes, StoreInv, RowOK, OwnedBy

(* A heartbeat keeps the invariant. *)
LEMMA HeartbeatKeepsInv ==
  ASSUME WorkerInv, NEW a \in Attempt, Heartbeat(a) \/ HeartbeatEnds(a)
  PROVE  Kept
<1>1. CASE Heartbeat(a)
  <2>1. Uncompleting
    BY <1>1, AttemptParts, OwnerIsWorker DEF Heartbeat, Uncompleting
  <2>2. row[a[1]].cancel_requested \in BOOLEAN
    BY AttemptParts DEF WorkerInv, StoreInv, Row
  <2>3. abort' \in [Attempt -> BOOLEAN] /\ beat' \in [Attempt -> {"off", "on", "leaving"}]
    BY <1>1, <2>2 DEF Heartbeat, WorkerInv, WorkerTypes, OwnedBy
  <2>4. UNCHANGED <<sink, proc, main, lock, notices, pc, owner, made, view>>
    BY <1>1 DEF Heartbeat
  <2>5. WorkerTypes'
    BY <2>3, <2>4 DEF WorkerInv, WorkerTypes
  <2> QED
    BY <2>1, <2>4, <2>5, KeptBySimpleStep
<1>2. CASE HeartbeatEnds(a)
  <2>1. Uncompleting /\ WorkerTypes'
    BY <1>2 DEF HeartbeatEnds, Uncompleting, WorkerInv, WorkerTypes
  <2> QED
    BY <1>2, <2>1, KeptBySimpleStep DEF HeartbeatEnds
<1> QED
  BY <1>1, <1>2

(* The types of what Continue changes. *)
LEMMA ContinueTypes ==
  ASSUME WorkerInv, NEW a \in Attempt, NEW step \in PcState,
         NEW result \in Bytes \cup {None}, NEW prepared \in Prepared \cup {None},
         Continue(a, step, result, prepared)
  PROVE  /\ pc' \in [Attempt -> PcState]
         /\ made' \in [Attempt -> Bytes \cup {None}]
         /\ view' \in [Attempt -> Prepared \cup {None}]
BY DEF Continue, WorkerInv, WorkerTypes

(* Giving the lock back leaves every lock typed. *)
LEMMA UnlockTypes ==
  ASSUME WorkerInv, NEW a \in Attempt, Unlock(a)
  PROVE  lock' \in [Worker -> Attempt \cup {None}]
BY DEF Unlock, WorkerInv, WorkerTypes

(* The rest of the thread does not change. *)
OnlyThread(a) ==
  /\ UNCHANGED <<proc, main, notices, owner, beat>>
  /\ abort' \in [Attempt -> BOOLEAN]
  /\ lock' \in [Worker -> Attempt \cup {None}]

(* A thread that goes on with the right locals keeps the invariant. *)
LEMMA ContinueKeepsInv ==
  ASSUME WorkerInv, Uncompleting, sink' = sink,
         NEW a \in Attempt, NEW step \in PcState,
         NEW result \in Bytes \cup {None}, NEW prepared \in Prepared \cup {None},
         Continue(a, step, result, prepared), OnlyThread(a),
         step \in Working /\ prepared # None =>
           prepared.bytes \in Bytes /\ prepared.bytes = row'[a[1]].prepared,
         step \in Publishing => prepared # None,
         step \in {"save", "complete"} => PastCutoff(row'[a[1]]),
         step = "complete" => sink'[a[1]] = prepared.bytes,
         step \in Staging => result \in Bytes
  PROVE  Kept
<1>1. Stepped /\ SinkKeeps
  BY UncompletingIsStoreStep, EveryRowSteps DEF WorkerInv, SinkKeeps
<1>2. \A c \in Attempt : AttemptOK(c)'
  BY <1>1, AttemptContinues
<1>3. WorkerTypes'
  BY ContinueTypes DEF OnlyThread, WorkerInv, WorkerTypes
<1> QED
  BY <1>2, <1>3, Reassembled

(* A thread that ends keeps the invariant. *)
LEMMA EndingKeepsInv ==
  ASSUME WorkerInv, Uncompleting, sink' = sink, NEW a \in Attempt,
         NEW step \in {"finished", "raised", "raised-permanent"},
         Goto(a, step), OnlyThread(a)
  PROVE  Kept
<1>1. /\ step \in PcState
      /\ step \notin Working /\ step \notin Publishing /\ step \notin Staging
      /\ step \notin {"save", "complete"}
  BY DEF PcState, Raised, Working, LockedSteps, OpenSteps, Publishing, Staging
<1>2. made[a] \in Bytes \cup {None} /\ view[a] \in Prepared \cup {None}
  BY DEF WorkerInv, WorkerTypes
<1> QED
  BY <1>1, <1>2, ContinueKeepsInv DEF Goto

(* A thread that goes on with what it has keeps the invariant. *)
LEMMA GotoKeepsInv ==
  ASSUME WorkerInv, Uncompleting, sink' = sink, NEW a \in Attempt,
         NEW step \in Working \ {"complete"}, Goto(a, step), OnlyThread(a),
         step \in Publishing => pc[a] \in Publishing,
         step \in Staging => pc[a] \in Staging,
         step = "save" => PastCutoff(row'[a[1]])
  PROVE  Kept
<1>1. step \in PcState
  BY DEF PcState
<1>2. made[a] \in Bytes \cup {None} /\ view[a] \in Prepared \cup {None}
  BY DEF WorkerInv, WorkerTypes
<1>3. AttemptOK(a)
  BY DEF WorkerInv
<1>4. Stepped
  BY UncompletingIsStoreStep, EveryRowSteps DEF WorkerInv
<1>5. view[a] # None =>
        view[a].bytes \in Bytes /\ view[a].bytes = row'[a[1]].prepared
  BY <1>3, <1>4, AttemptParts, NoneAssumption DEF AttemptOK, Stepped, RowStep
<1>6. step \in Publishing => view[a] # None
  BY <1>3 DEF AttemptOK
<1>7. step \in Staging => made[a] \in Bytes
  BY <1>3 DEF AttemptOK
<1> QED
  BY <1>1, <1>2, <1>5, <1>6, <1>7, ContinueKeepsInv DEF Goto

(* The check against cancellation and lost ownership.  Its own write never *)
(* happens: a running run with a recorded cancellation is past the cutoff. *)
LEMMA CheckKeepsInv ==
  ASSUME WorkerInv, NEW a \in Attempt,
         NEW next \in Working \ {"save", "complete"}, AbortIfRequested(a, next),
         next \in Publishing => pc[a] \in Publishing,
         next \in Staging => pc[a] \in Staging
  PROVE  Kept
<1> DEFINE x == row[a[1]]
           owns == OwnedBy(x, owner[a], a[2])
           stops == ~owns \/ (~IsPending(x) /\ (x.cancel_requested \/ abort[a]))
           step == IF stops THEN "finished" ELSE next
<1>1. RowOK(x)
  BY AttemptParts DEF WorkerInv, StoreInv
<1>2. UNCHANGED storeVars
  BY <1>1 DEF AbortIfRequested, RowOK, OwnedBy
<1>3. Uncompleting /\ sink' = sink
  BY <1>2 DEF Uncompleting, AbortIfRequested
<1>4. lock' \in [Worker -> Attempt \cup {None}]
  BY UnlockTypes DEF AbortIfRequested, WorkerInv, WorkerTypes
<1>5. abort' \in [Attempt -> BOOLEAN]
  BY DEF AbortIfRequested, WorkerInv, WorkerTypes, OwnedBy
<1>6. OnlyThread(a)
  BY <1>4, <1>5 DEF OnlyThread, AbortIfRequested
<1>7. Goto(a, step)
  BY DEF AbortIfRequested
<1>8. CASE stops
  BY <1>3, <1>6, <1>7, <1>8, EndingKeepsInv
<1>9. CASE ~stops
  BY <1>3, <1>6, <1>7, <1>9, GotoKeepsInv
<1> QED
  BY <1>8, <1>9

(* The four uses of _abort_if_requested keep the invariant. *)
LEMMA ChecksKeepInv ==
  ASSUME WorkerInv, NEW a \in Attempt,
         \/ CheckBeforeWork(a)
         \/ CheckAfterWork(a)
         \/ CheckBeforeStaging(a)
         \/ CheckBeforePublishing(a)
  PROVE  Kept
<1> USE DEF Working, LockedSteps, OpenSteps, Publishing, Staging
<1>1. CASE CheckBeforeWork(a)
  BY <1>1, CheckKeepsInv DEF CheckBeforeWork
<1>2. CASE CheckAfterWork(a)
  BY <1>2, CheckKeepsInv DEF CheckAfterWork
<1>3. CASE CheckBeforeStaging(a)
  BY <1>3, CheckKeepsInv DEF CheckBeforeStaging
<1>4. CASE CheckBeforePublishing(a)
  BY <1>4, CheckKeepsInv DEF CheckBeforePublishing
<1> QED
  BY <1>1, <1>2, <1>3, <1>4

(* Reading the staged publication, the sink, and generating. *)
LEMMA WorkKeepsInv ==
  ASSUME WorkerInv, NEW a \in Attempt,
         \/ ReadPrepared(a)
         \/ RereadPrepared(a)
         \/ LookupRun(a)
         \/ \E b \in Bytes : Generate(a, b)
         \/ GenerateRaises(a)
         \/ OperationCancelled(a)
         \/ RepositoryFault(a)
  PROVE  Kept
<1>0. a[1] \in Run
  BY AttemptParts
<1>1. Uncompleting /\ sink' = sink /\ row' = row
  BY DEF ReadPrepared, RereadPrepared, LookupRun, Generate, GenerateRaises,
         OperationCancelled, RepositoryFault, Uncompleting, storeVars
<1>2. OnlyThread(a)
  BY UnlockTypes
     DEF ReadPrepared, RereadPrepared, LookupRun, Generate, GenerateRaises,
         OperationCancelled, RepositoryFault, OnlyThread, WorkerInv, WorkerTypes
<1>3. CASE ReadPrepared(a) \/ RereadPrepared(a)
  <2> DEFINE prepared == GetPreparedPublication(a[1])
  <2>1. /\ prepared \in Prepared \cup {None}
        /\ prepared # None => /\ prepared.bytes \in Bytes
                              /\ prepared.bytes = row'[a[1]].prepared
    BY <1>0, <1>1, PreparedOK DEF WorkerInv
  <2>2. PICK step \in {"check-before", "raised", "want-publish"} :
          /\ Continue(a, step, None, prepared)
          /\ step = "want-publish" => prepared # None
    BY <1>3 DEF ReadPrepared, RereadPrepared
  <2>3. /\ step \in PcState /\ step \notin Staging
        /\ step \notin {"save", "complete"}
        /\ step \in Publishing => prepared # None
    BY <2>2 DEF PcState, Raised, Working, OpenSteps, Staging, Publishing
  <2> HIDE DEF prepared
  <2> QED
    BY <1>1, <1>2, <2>1, <2>2, <2>3, ContinueKeepsInv
<1>4. CASE LookupRun(a)
  <2> DEFINE step == IF sink[a[1]] = None THEN "invoke" ELSE "want-stage"
  <2>1. sink[a[1]] \in Bytes \cup {None}
    BY <1>0 DEF WorkerInv, WorkerTypes
  <2>2. /\ step \in PcState /\ step \notin Publishing
        /\ step \notin {"save", "complete"}
        /\ step \in Staging => sink[a[1]] \in Bytes
    BY <2>1 DEF PcState, Working, OpenSteps, Publishing, Staging
  <2>3. Continue(a, step, sink[a[1]], None)
    BY <1>4 DEF LookupRun
  <2> HIDE DEF step
  <2> QED
    BY <1>1, <1>2, <2>1, <2>2, <2>3, ContinueKeepsInv
<1>5. ASSUME NEW b \in Bytes, Generate(a, b)
      PROVE  Kept
  BY <1>1, <1>2, <1>5, ContinueKeepsInv
     DEF Generate, PcState, Working, OpenSteps, Publishing
<1>6. CASE GenerateRaises(a) \/ OperationCancelled(a) \/ RepositoryFault(a)
  BY <1>1, <1>2, <1>6, EndingKeepsInv
     DEF GenerateRaises, OperationCancelled, RepositoryFault
<1> QED
  BY <1>3, <1>4, <1>5, <1>6

(* Taking the publish lock keeps the invariant. *)
LEMMA AcquireKeepsInv ==
  ASSUME WorkerInv, NEW a \in Attempt, AcquirePublishLock(a)
  PROVE  Kept
<1>1. Uncompleting /\ sink' = sink
  BY DEF AcquirePublishLock, Uncompleting
<1>2. OnlyThread(a)
  BY DEF AcquirePublishLock, OnlyThread, WorkerInv, WorkerTypes
<1>3. CASE pc[a] = "want-stage"
  <2>1. Goto(a, "check-stage")
    BY <1>3 DEF AcquirePublishLock
  <2> QED
    BY <1>1, <1>2, <1>3, <2>1, GotoKeepsInv
       DEF Working, LockedSteps, Publishing, Staging
<1>4. CASE pc[a] = "want-publish"
  <2>1. Goto(a, "check-publish") \/ Goto(a, "begin")
    BY <1>4 DEF AcquirePublishLock
  <2> QED
    BY <1>1, <1>2, <1>4, <2>1, GotoKeepsInv
       DEF Working, LockedSteps, Publishing, Staging
<1> QED
  BY <1>3, <1>4 DEF AcquirePublishLock

(* Staging a result keeps the invariant. *)
LEMMA StageKeepsInv ==
  ASSUME WorkerInv, NEW a \in Attempt, StageResult(a)
  PROVE  Kept
<1> DEFINE staged == CanPrepare(row[a[1]], owner[a], a[2])
<1>1. made[a] \in Bytes
  BY DEF StageResult, WorkerInv, AttemptOK, Staging
<1>2. staged => owner[a] \in Worker
  BY OwnerIsWorker DEF CanPrepare
<1>3. Uncompleting /\ sink' = sink
  BY <1>1, <1>2, AttemptParts DEF StageResult, Uncompleting
<1>4. OnlyThread(a)
  BY UnlockTypes DEF StageResult, OnlyThread, WorkerInv, WorkerTypes
<1>5. CASE staged
  <2>1. Goto(a, "reread")
    BY <1>5 DEF StageResult
  <2> QED
    BY <1>3, <1>4, <2>1, GotoKeepsInv DEF Working, OpenSteps, Publishing, Staging
<1>6. CASE ~staged
  <2>1. Goto(a, "finished")
    BY <1>6 DEF StageResult
  <2> QED
    BY <1>3, <1>4, <2>1, EndingKeepsInv
<1> QED
  BY <1>5, <1>6

(* begin_lifecycle_publication takes the run past the cutoff. *)
LEMMA BeginKeepsInv ==
  ASSUME WorkerInv, NEW a \in Attempt, BeginPublication(a)
  PROVE  Kept
<1> DEFINE x == row[a[1]]
           can == CanBegin(x, owner[a], a[2])
           begun == can \/ AlreadyBegun(x, owner[a], a[2])
<1>0. a[1] \in Run /\ a[2] \in 1 .. MaxAttempts
  BY AttemptParts
<1>1. begun => owner[a] \in Worker
  BY OwnerIsWorker DEF CanBegin, AlreadyBegun
<1>2. Uncompleting /\ sink' = sink
  BY <1>0, <1>1 DEF BeginPublication, Uncompleting
<1>3. OnlyThread(a)
  BY UnlockTypes DEF BeginPublication, OnlyThread, WorkerInv, WorkerTypes
<1>4. CASE begun
  <2>1. Goto(a, "save") /\ pc[a] = "begin"
    BY <1>4 DEF BeginPublication
  <2>2. CASE can
    <3>1. BeginLifecyclePublication(a[1], owner[a], a[2])
      BY <2>2 DEF BeginPublication
    <3>2. row'[a[1]] = [x EXCEPT !.publication_state = "publication-pending"]
      BY <1>0, <3>1
         DEF BeginLifecyclePublication, WriteQuietly, WorkerInv, StoreInv
    <3>3. x \in Row /\ x.status = "running"
      BY <1>0, <2>2 DEF CanBegin, OwnedBy, WorkerInv, StoreInv
    <3> QED
      BY <1>2, <1>3, <2>1, <3>2, <3>3, GotoKeepsInv
         DEF PastCutoff, IsPending, Row, Working, LockedSteps, Publishing, Staging
  <2>3. CASE ~can
    <3>1. row' = row /\ PastCutoff(x)
      BY <1>4, <2>3
         DEF BeginPublication, storeVars, AlreadyBegun, OwnedBy, PastCutoff
    <3> QED
      BY <1>2, <1>3, <2>1, <3>1, GotoKeepsInv
         DEF Working, LockedSteps, Publishing, Staging
  <2> QED
    BY <2>2, <2>3
<1>5. CASE ~begun
  <2>1. Goto(a, "finished")
    BY <1>5 DEF BeginPublication
  <2> QED
    BY <1>2, <1>3, <2>1, EndingKeepsInv
<1> QED
  BY <1>4, <1>5

(* A save writes the staged bytes of a run past its cutoff. *)
LEMMA SaveKeepsInv ==
  ASSUME WorkerInv, NEW a \in Attempt, NEW wrote \in BOOLEAN,
         NEW outcome \in {"complete"} \cup Raised,
         SaveCompletedRun(a, wrote, outcome)
  PROVE  Kept
<1> DEFINE bytes == view[a].bytes
<1>0. a[1] \in Run
  BY AttemptParts
<1>1. /\ pc[a] = "save" /\ view[a] # None /\ bytes \in Bytes
      /\ bytes = row[a[1]].prepared /\ PastCutoff(row[a[1]])
  BY DEF SaveCompletedRun, WorkerInv, AttemptOK, Publishing
<1>2. UNCHANGED storeVars
  BY DEF SaveCompletedRun
<1>3. sink' = [sink EXCEPT ![a[1]] =
                 IF wrote /\ sink[a[1]] = None THEN bytes ELSE sink[a[1]]]
  BY DEF SaveCompletedRun
<1>4. sink \in [Run -> Bytes \cup {None}] /\ sink' \in [Run -> Bytes \cup {None}]
  BY <1>0, <1>1, <1>3 DEF WorkerInv, WorkerTypes
<1>5. SinkKeeps
  BY <1>3, <1>4 DEF SinkKeeps
<1>6. Stepped
  BY <1>2, NothingSteps DEF WorkerInv
<1>7. \A c \in Attempt : AttemptOK(c)'
  <2>1. outcome = "complete" => sink'[a[1]] = bytes
    BY <1>0, <1>3, <1>4 DEF SaveCompletedRun
  <2>2. Continue(a, outcome, made[a], view[a])
    BY DEF SaveCompletedRun, Goto
  <2>3. row' = row
    BY <1>2 DEF storeVars
  <2>4. outcome \notin Staging /\ outcome # "save"
    BY DEF Staging, Raised
  <2> QED
    BY <1>1, <1>5, <1>6, <2>1, <2>2, <2>3, <2>4, AttemptContinues
<1>8. WorkerTypes'
  <2>1. outcome \in PcState
    BY DEF PcState, Raised, Working, LockedSteps
  <2>2. made[a] \in Bytes \cup {None} /\ view[a] \in Prepared \cup {None}
    BY DEF WorkerInv, WorkerTypes
  <2>3. lock' \in [Worker -> Attempt \cup {None}]
    BY UnlockTypes DEF SaveCompletedRun, WorkerInv, WorkerTypes
  <2> QED
    BY <1>4, <2>1, <2>2, <2>3, ContinueTypes
       DEF SaveCompletedRun, Goto, WorkerInv, WorkerTypes
<1>9. ASSUME NEW r \in Run PROVE RunOK(r)'
  <2>1. row' = row /\ RunOK(r)
    BY <1>2 DEF storeVars, WorkerInv
  <2>2. CASE r = a[1]
    BY <1>1, <1>3, <1>4, <2>1, <2>2 DEF RunOK
  <2>3. CASE r # a[1]
    BY <1>3, <1>4, <2>1, <2>3 DEF RunOK
  <2> QED
    BY <2>2, <2>3
<1>10. StoreInv'
  BY <1>2, StoreInvNext DEF WorkerInv
<1> QED
  BY <1>2, <1>7, <1>8, <1>9, <1>10 DEF WorkerInv, Kept

(* complete_lifecycle_run shows what the sink already holds. *)
LEMMA CompleteKeepsInv ==
  ASSUME WorkerInv, NEW a \in Attempt, CompleteRun(a)
  PROVE  Kept
<1> DEFINE x == row[a[1]]
           w == owner[a]
           n == a[2]
           bytes == view[a].bytes
           can == CanComplete(x, w, n)
<1>0. a[1] \in Run /\ n \in 1 .. MaxAttempts /\ RowOK(x)
  BY AttemptParts DEF WorkerInv, StoreInv
<1>1. /\ pc[a] = "complete" /\ view[a] # None /\ bytes \in Bytes
      /\ bytes = x.prepared /\ PastCutoff(x) /\ sink[a[1]] = bytes
  BY DEF CompleteRun, WorkerInv, AttemptOK, Publishing
<1>2. ~CancelsAtCompletion(x, w, n)
  BY <1>0 DEF RowOK, CancelsAtCompletion, OwnedBy
<1>3. OnlyThread(a) /\ Goto(a, "finished") /\ sink' = sink
  BY UnlockTypes DEF CompleteRun, OnlyThread, WorkerInv, WorkerTypes
<1>4. CASE ~can
  <2>1. Uncompleting
    BY <1>2, <1>4 DEF CompleteRun, Uncompleting
  <2> QED
    BY <1>3, <2>1, EndingKeepsInv
<1>5. CASE can
  <2>1. w \in Worker /\ x.status = "running" /\ IsPending(x)
    BY <1>1, <1>5, OwnerIsWorker DEF CanComplete, OwnedBy, PastCutoff
  <2>2. CompleteLifecycleRun(a[1], w, n, bytes)
    BY <1>5 DEF CompleteRun
  <2>3. Next
    BY <1>0, <1>1, <2>1, <2>2 DEF Next
  <2>4. StoreInv' /\ Stepped /\ SinkKeeps
    BY <1>3, <2>3, StoreInvNext, EveryRowSteps DEF WorkerInv, SinkKeeps
  <2>5. row' = [row EXCEPT ![a[1]] = CompletedRow(x, bytes)]
    BY <1>2, <2>2 DEF CompleteLifecycleRun, CompletionOf, Write
  <2>6. \A c \in Attempt : AttemptOK(c)'
    <3>1. /\ "finished" \notin Working /\ "finished" \notin Publishing
          /\ "finished" \notin Staging /\ "finished" \notin {"save", "complete"}
      BY DEF Working, LockedSteps, OpenSteps, Publishing, Staging
    <3> QED
      BY <1>3, <2>4, <3>1, AttemptContinues DEF Goto
  <2>7. WorkerTypes'
    <3>1. made[a] \in Bytes \cup {None} /\ view[a] \in Prepared \cup {None}
      BY DEF WorkerInv, WorkerTypes
    <3>2. "finished" \in PcState
      BY DEF PcState
    <3> QED
      BY <1>3, <3>1, <3>2, ContinueTypes
         DEF Goto, OnlyThread, WorkerInv, WorkerTypes
  <2>8. ASSUME NEW r \in Run PROVE RunOK(r)'
    <3>1. CASE r = a[1]
      <4>1. row'[r] = CompletedRow(x, bytes)
        BY <2>5, <3>1 DEF WorkerInv, StoreInv
      <4>2. /\ row'[r].status = "completed"
            /\ row'[r].publication_state = "published"
            /\ row'[r].prepared = x.prepared
            /\ row'[r].result = bytes
            /\ row'[r].terminal_state = TerminalStateOf[bytes]
        BY <1>0, <2>1, <4>1 DEF CompletedRow, Released, RowOK, Row, IsPending
      <4>3. sink'[r] = bytes /\ bytes # None
        BY <1>1, <1>3, <3>1, NoneAssumption
      <4> QED
        BY <1>1, <4>2, <4>3 DEF RunOK, PastCutoff
    <3>2. CASE r # a[1]
      <4>1. row'[r] = row[r] /\ RunOK(r)
        BY <2>5, <3>2 DEF WorkerInv, StoreInv
      <4> QED
        BY <1>3, <4>1 DEF RunOK
    <3> QED
      BY <3>1, <3>2
  <2> QED
    BY <2>3, <2>4, <2>6, <2>7, <2>8 DEF WorkerInv, Kept
<1> QED
  BY <1>4, <1>5

-----------------------------------------------------------------------------
(* The theorems. *)

(* The initial states satisfy the invariant. *)
LEMMA WorkerInvInit == WInit => WorkerInv
<1> SUFFICES ASSUME WInit PROVE WorkerInv
  OBVIOUS
<1>1. StoreInv
  BY StoreInvInit DEF WInit
<1>2. WorkerTypes
  BY DEF WInit, WorkerTypes, PcState
<1>3. \A a \in Attempt : AttemptOK(a)
  BY DEF WInit, AttemptOK, Publishing, Staging
<1>4. \A r \in Run : RunOK(r)
  BY DEF WInit, Init, AbsentRow, RunOK
<1> QED
  BY <1>1, <1>2, <1>3, <1>4 DEF WorkerInv

(* Every step of the workers keeps the invariant. *)
LEMMA EveryStepKeeps == WorkerInv /\ [WNext]_vars => Kept
<1> SUFFICES ASSUME WorkerInv, [WNext]_vars PROVE Kept
  OBVIOUS
<1>1. CASE UNCHANGED vars
  <2>1. Uncompleting /\ UNCHANGED workerVars
    BY <1>1 DEF vars, storeVars, workerVars, Uncompleting
  <2>2. WorkerTypes'
    BY <2>1 DEF WorkerInv, WorkerTypes, workerVars
  <2> QED
    BY <2>1, <2>2, KeptBySimpleStep DEF workerVars
<1>2. ASSUME NEW r \in Run,
             \/ \E cb \in SubmittedCallbacks : SubmitRun(r, cb)
             \/ ReplayWithCallback(r)
             \/ TimePasses(r)
      PROVE  Kept
  BY <1>2, RequestsKeepInv
<1>3. ASSUME NEW w \in Worker, NEW r \in Run,
             CancelRun(w, r) \/ NotifyCancellation(w, r) \/ ClaimRun(w, r)
      PROVE  Kept
  BY <1>3, RequestsKeepInv, ProcessesKeepInv, ClaimKeepsInv
<1>4. ASSUME NEW w \in Worker, Start(w) \/ Stop(w) \/ Exit(w)
      PROVE  Kept
  BY <1>4, ProcessesKeepInv
<1>5. ASSUME NEW w \in Worker, PollNothing(w)
      PROVE  Kept
  <2>1. Uncompleting /\ UNCHANGED workerVars
    BY <1>5 DEF PollNothing, Uncompleting
  <2>2. WorkerTypes'
    BY <2>1 DEF WorkerInv, WorkerTypes, workerVars
  <2> QED
    BY <2>1, <2>2, KeptBySimpleStep DEF workerVars
<1>6. ASSUME NEW w \in Worker, NEW a \in Attempt, Watch(w, a)
      PROVE  Kept
  BY <1>6, WatchKeepsInv
<1>7. ASSUME NEW a \in Attempt, Heartbeat(a) \/ HeartbeatEnds(a)
      PROVE  Kept
  BY <1>7, HeartbeatKeepsInv
<1>8. ASSUME NEW a \in Attempt, AttemptStep(a)
      PROVE  Kept
  BY <1>8, ChecksKeepInv, WorkKeepsInv, AcquireKeepsInv, StageKeepsInv,
     BeginKeepsInv, SaveKeepsInv, CompleteKeepsInv DEF AttemptStep
<1> QED
  BY <1>1, <1>2, <1>3, <1>4, <1>5, <1>6, <1>7, <1>8 DEF WNext, Claim

(* WorkerInv is an invariant of the workers. *)
THEOREM WorkerInvariant == WSpec => []WorkerInv
BY WorkerInvInit, EveryStepKeeps, PTL DEF WSpec, Kept

(* Every variable of the store and of the workers keeps its type. *)
THEOREM WorkerTypeCorrect == WSpec => []WTypeOK
<1>1. WorkerInv => WTypeOK
  BY DEF WorkerInv, StoreInv, TypeOK, WTypeOK
<1> QED
  BY <1>1, WorkerInvariant, PTL

(* No attempt, detached or recovering, gives the sink other bytes than the *)
(* ones that were staged first.                                            *)
THEOREM WorkerSink == WSpec => []SinkHoldsStagedBytes
<1>1. WorkerInv => SinkHoldsStagedBytes
  BY DEF WorkerInv, RunOK, SinkHoldsStagedBytes
<1> QED
  BY <1>1, WorkerInvariant, PTL

(* A canceled run is never published, at whatever moment it was canceled.  *)
THEOREM WorkerCanceled == WSpec => []CanceledNeverPublished
<1>1. WorkerInv => CanceledNeverPublished
  BY DEF WorkerInv, RunOK, PastCutoff, CanceledNeverPublished
<1> QED
  BY <1>1, WorkerInvariant, PTL

(* A completed run shows the bytes that the sink holds. *)
THEOREM WorkerCompleted == WSpec => []CompletedIsPublished
<1>1. WorkerInv => CompletedIsPublished
  BY DEF WorkerInv, RunOK, CompletedIsPublished
<1> QED
  BY <1>1, WorkerInvariant, PTL

(* The workers implement the store under its most general client: whatever *)
(* holds of every sequence of repository calls holds of the calls they     *)
(* make.                                                                   *)
THEOREM WorkersUseTheStore == WSpec => Spec
<1>1. WInit => Init
  BY DEF WInit
<1>2. WorkerInv /\ [WNext]_vars => [Next]_storeVars
  BY EveryStepKeeps DEF Kept
<1> QED
  BY <1>1, <1>2, WorkerInvariant, PTL DEF WSpec, Spec

(* So the events in the outbox report how the workers' runs really ended. *)
COROLLARY WorkerOutbox == WSpec => []OutboxTellsTheTruth
BY WorkersUseTheStore, StoreOutbox, PTL

(* And no late write of a worker changes a run that has ended. *)
COROLLARY WorkerTerminalIsFinal == WSpec => TerminalIsFinal
BY WorkersUseTheStore, StoreTerminalIsFinal, PTL
=============================================================================
