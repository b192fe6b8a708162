------------------------ MODULE WorkerContractProofs ------------------------
(***************************************************************************)
(* The workers implement the contract of every run, and contain their      *)
(* attempts, for any number of runs, worker processes, results and         *)
(* attempts.                                                               *)
(*                                                                         *)
(* RowMove says how one transaction moves a row through its life, on top   *)
(* of what RowStep of LifecycleStoreProofs says; with WorkerInv it makes   *)
(* every step a step of the contract.  Containment is a second invariant:  *)
(* ThreadInv ties each attempt to the process that runs it.                *)
(***************************************************************************)
EXTENDS LifecycleWorkerProofs

USE DEF DomainState, Terminal, Status, PublicationState

(* The publication of a row by the point of its life. *)
RowLife(x) ==
  /\ x.status = "queued" => x.publication_state = "none"
  /\ x.publication_state = "publication-pending" => x.status = "running"
  /\ x.publication_state = "published" => x.status = "completed"

(* How a transaction moves a row. *)
RowMove(x, y) ==
  /\ RowLife(y)
  /\ x.attempt_number <= y.attempt_number
  /\ \/ y.status = x.status
     \/ x.status = "absent" /\ y.status = "queued"
     \/ x.status = "queued" /\ y.status \in {"running", "canceled"}
     \/ x.status = "running" /\ y.status \in Terminal
  /\ x.status # "running" => y.publication_state = x.publication_state
  /\ y.publication_state = "published" =>
       x.publication_state \in {"publication-pending", "published"}

LifeInv == StoreInv /\ \A r \in Run : RowLife(row[r])

-----------------------------------------------------------------------------
(* The row updates are moves. *)

LEMMA SameMoves ==
  ASSUME NEW x, RowOK(x), RowLife(x) PROVE RowMove(x, x)
<1>1. x.attempt_number \in Int
  BY DEF RowOK, Row
<1> QED
  BY <1>1 DEF RowMove

(* An update that leaves the status, the attempt and the publication. *)
LEMMA QuietMoves ==
  ASSUME NEW x, NEW y, RowOK(x), RowLife(x),
         y.status = x.status, y.attempt_number = x.attempt_number,
         y.publication_state = x.publication_state
  PROVE  RowMove(x, y)
<1>1. x.attempt_number \in Int
  BY DEF RowOK, Row
<1> QED
  BY <1>1 DEF RowMove, RowLife

LEMMA CanceledMoves ==
  ASSUME NEW x, NEW y, RowOK(x), RowLife(x), ~IsPending(x),
         x.status \in {"queued", "running"}, y.status = "canceled",
         y.attempt_number = x.attempt_number,
         y.publication_state = x.publication_state
  PROVE  RowMove(x, y)
<1>1. x.attempt_number \in Int
  BY DEF RowOK, Row
<1> QED
  BY <1>1 DEF RowMove, RowLife, IsPending

LEMMA FailedMoves ==
  ASSUME NEW x, NEW y, RowOK(x), RowLife(x), x.status = "running", y.status = "failed",
         y.attempt_number = x.attempt_number,
         y.publication_state = IF IsPending(x) THEN "prepared" ELSE x.publication_state
  PROVE  RowMove(x, y)
<1>1. x.attempt_number \in Int
  BY DEF RowOK, Row
<1> QED
  BY <1>1 DEF RowMove, RowLife, IsPending

(* The fields of the updated rows that RowMove is about. *)
LEMMA UpdatedFields ==
  ASSUME NEW x, RowOK(x)
  PROVE  /\ CanceledRow(x).status = "canceled"
         /\ CanceledRow(x).attempt_number = x.attempt_number
         /\ CanceledRow(x).publication_state = x.publication_state
         /\ FailedRow(x).status = "failed"
         /\ FailedRow(x).attempt_number = x.attempt_number
         /\ FailedRow(x).publication_state =
              IF IsPending(x) THEN "prepared" ELSE x.publication_state
         /\ CanceledRow(x) \in Row
         /\ FailedRow(x) \in Row
BY ZenonT(40) DEF CanceledRow, FailedRow, Released, RowOK, Row, IsPending

LEMMA SweptMoves ==
  ASSUME NEW x, RowOK(x), RowLife(x) PROVE RowMove(x, Swept(x))
<1>1. CASE Swept(x) = x
  BY <1>1, SameMoves
<1>2. CASE x.status = "running" /\ Swept(x) = FailedRow(x)
  BY <1>2, FailedMoves, UpdatedFields
<1>3. CASE x.status = "running" /\ ~IsPending(x) /\ Swept(x) = CanceledRow(x)
  BY <1>3, CanceledMoves, UpdatedFields
<1> QED
  BY <1>1, <1>2, <1>3, SweptCases

LEMMA ClaimedMoves ==
  ASSUME NEW x, RowOK(x), RowLife(x), NEW w \in Worker, Claimable(x)
  PROVE  /\ RowMove(x, ClaimedRow(x, w))
         /\ ClaimedRow(x, w).attempt_number = x.attempt_number + 1
<1>1. /\ x.attempt_number \in Int
      /\ x.status \in {"queued", "running"}
  BY DEF RowOK, Row, Claimable
<1>2. /\ ClaimedRow(x, w).status = "running"
      /\ ClaimedRow(x, w).attempt_number = x.attempt_number + 1
      /\ ClaimedRow(x, w).publication_state = x.publication_state
  BY DEF ClaimedRow, RowOK, Row
<1> QED
  BY <1>1, <1>2 DEF RowMove, RowLife

LEMMA CompletedMoves ==
  ASSUME NEW x, RowOK(x), RowLife(x), x.status = "running", NEW b \in Bytes
  PROVE  RowMove(x, CompletedRow(x, b))
<1>1. x.attempt_number \in Int
  BY DEF RowOK, Row
<1>2. /\ CompletedRow(x, b).status = "completed"
      /\ CompletedRow(x, b).attempt_number = x.attempt_number
      /\ CompletedRow(x, b).publication_state =
           IF IsPending(x) THEN "published" ELSE x.publication_state
  BY DEF CompletedRow, Released, RowOK, Row, IsPending
<1> QED
  BY <1>1, <1>2 DEF RowMove, RowLife, IsPending

LEMMA FailureMoves ==
  ASSUME NEW x, RowOK(x), RowLife(x), x.status = "running", NEW b \in Bytes \cup {None}
  PROVE  RowMove(x, FailureOf(x, b))
<1> DEFINE c == CanceledRow(x)
           f == FailedRow(x)
<1>0. /\ c.status = "canceled" /\ c.attempt_number = x.attempt_number
      /\ c.publication_state = x.publication_state /\ c \in Row
      /\ f.status = "failed" /\ f.attempt_number = x.attempt_number
      /\ f.publication_state = IF IsPending(x) THEN "prepared" ELSE x.publication_state
      /\ f \in Row
  BY UpdatedFields
<1> HIDE DEF c, f
<1>1. CASE ~IsPending(x) /\ x.cancel_requested
  <2> DEFINE y == [c EXCEPT !.result = None]
  <2>1. /\ y.status = "canceled" /\ y.attempt_number = x.attempt_number
        /\ y.publication_state = x.publication_state
    BY <1>0 DEF Row
  <2>2. FailureOf(x, b) = y
    BY <1>1 DEF FailureOf, c
  <2> HIDE DEF y
  <2> QED
    BY <1>1, <2>1, <2>2, CanceledMoves
<1>2. CASE ~(~IsPending(x) /\ x.cancel_requested)
  <2> DEFINE y == [f EXCEPT !.result = b]
  <2>1. /\ y.status = "failed" /\ y.attempt_number = x.attempt_number
        /\ y.publication_state = IF IsPending(x) THEN "prepared" ELSE x.publication_state
    BY <1>0 DEF Row
  <2>2. FailureOf(x, b) = y
    BY <1>2 DEF FailureOf, f
  <2> HIDE DEF y
  <2> QED
    BY <2>1, <2>2, FailedMoves
<1> QED
  BY <1>1, <1>2

LEMMA CancellationMoves ==
  ASSUME NEW x, RowOK(x), RowLife(x) PROVE RowMove(x, CancellationOf(x))
<1> DEFINE c == CanceledRow(x)
           y == [c EXCEPT !.cancel_requested = TRUE]
           z == [x EXCEPT !.cancel_requested = TRUE]
<1>0. /\ c.status = "canceled" /\ c.attempt_number = x.attempt_number
      /\ c.publication_state = x.publication_state /\ c \in Row
  BY UpdatedFields
<1>1. CancellationOf(x) =
        IF x.status = "queued" \/ (x.status = "running" /\ ~IsPending(x)) THEN y
        ELSE IF x.status = "running" THEN z ELSE x
  BY DEF CancellationOf
<1> HIDE DEF c
<1>2. /\ y.status = "canceled" /\ y.attempt_number = x.attempt_number
      /\ y.publication_state = x.publication_state
  BY <1>0 DEF Row
<1>3. /\ z.status = x.status /\ z.attempt_number = x.attempt_number
      /\ z.publication_state = x.publication_state
  BY DEF RowOK, Row
<1> HIDE DEF y, z
<1>4. CASE x.status = "queued" \/ (x.status = "running" /\ ~IsPending(x))
  <2>1. ~IsPending(x)
    BY <1>4 DEF RowLife, IsPending
  <2> QED
    BY <1>1, <1>2, <1>4, <2>1, CanceledMoves
<1>5. CASE x.status = "running" /\ IsPending(x)
  BY <1>1, <1>3, <1>5, QuietMoves
<1>6. CASE x.status \notin {"queued", "running"}
  BY <1>1, <1>6, SameMoves
<1> QED
  BY <1>4, <1>5, <1>6

LEMMA CreatedMoves ==
  ASSUME NEW r \in Run, NEW cb \in BOOLEAN, LifeInv, CreateLifecycleRun(r, cb),
         NEW q \in Run
  PROVE  RowMove(row[q], row'[q])
<1> DEFINE n == 1 + Cardinality({p \in Run : row[p].status # "absent"})
           y == [AbsentRow EXCEPT !.status = "queued", !.callback = cb,
                                  !.created_at = n]
<1>1. RowOK(row[q]) /\ RowLife(row[q]) /\ row \in [Run -> Row]
  BY DEF LifeInv, StoreInv
<1>2. row' = [row EXCEPT ![r] = y]
  BY DEF CreateLifecycleRun, WriteQuietly
<1> HIDE DEF n
<1>3. /\ AbsentRow \in Row /\ AbsentRow.attempt_number = 0
      /\ AbsentRow.publication_state = "none" /\ AbsentRow.status = "absent"
  BY MaxAttemptsAssumption, 0 \in 0 .. MaxAttempts DEF AbsentRow, Row
<1>4. y.status = "queued" /\ y.attempt_number = 0 /\ y.publication_state = "none"
  BY <1>3 DEF Row
<1> HIDE DEF y
<1>5. CASE q = r
  <2>1. row[r] = AbsentRow /\ row'[r] = y
    BY <1>1, <1>2, <1>5 DEF RowOK, CreateLifecycleRun
  <2> QED
    BY <1>3, <1>4, <1>5, <2>1 DEF RowMove, RowLife
<1>6. CASE q # r
  BY <1>1, <1>2, <1>6, SameMoves
<1> QED
  BY <1>5, <1>6

(* One UPDATE moves its row and leaves the others. *)
LEMMA WriteMoves ==
  ASSUME LifeInv, NEW r \in Run, NEW y, RowMove(row[r], y),
         Write(r, y) \/ WriteQuietly(r, y), NEW q \in Run
  PROVE  RowMove(row[q], row'[q])
<1>1. RowOK(row[q]) /\ RowLife(row[q]) /\ row \in [Run -> Row]
  BY DEF LifeInv, StoreInv
<1>2. row'[q] = IF q = r THEN y ELSE row[q]
  BY <1>1 DEF Write, WriteQuietly
<1> QED
  BY <1>1, <1>2, SameMoves

(* Every transaction moves every row. *)
LEMMA EveryRowMoves ==
  ASSUME LifeInv, [Next]_storeVars, NEW q \in Run
  PROVE  RowMove(row[q], row'[q])
<1>0. \A p \in Run : RowOK(row[p]) /\ RowLife(row[p])
  BY DEF LifeInv, StoreInv
<1>1. CASE UNCHANGED storeVars
  BY <1>0, <1>1, SameMoves DEF storeVars
<1>2. CASE ClaimNothing
  BY <1>0, <1>2, SweptMoves DEF ClaimNothing
<1>3. ASSUME NEW r \in Run, NEW cb \in BOOLEAN, CreateLifecycleRun(r, cb)
      PROVE  RowMove(row[q], row'[q])
  BY <1>3, CreatedMoves
<1>4. ASSUME NEW r \in Run, BindCallback(r)
      PROVE  RowMove(row[q], row'[q])
  <2> DEFINE y == [row[r] EXCEPT !.callback = TRUE]
  <2>1. /\ y.status = row[r].status /\ y.attempt_number = row[r].attempt_number
        /\ y.publication_state = row[r].publication_state
    BY <1>0 DEF RowOK, Row
  <2>2. Write(r, y)
    BY <1>4 DEF BindCallback
  <2> HIDE DEF y
  <2> QED
    BY <1>0, <2>1, <2>2, QuietMoves, WriteMoves
<1>5. ASSUME NEW r \in Run, CancelLifecycleRun(r)
      PROVE  RowMove(row[q], row'[q])
  BY <1>0, <1>5, CancellationMoves, WriteMoves DEF CancelLifecycleRun
<1>6. ASSUME NEW r \in Run,
             \/ ExpireLease(r)
             \/ \E w \in Worker, n \in 1 .. MaxAttempts : HeartbeatLifecycleRun(r, w, n)
      PROVE  RowMove(row[q], row'[q])
  <2>1. PICK l \in {"live", "expired"} : WriteQuietly(r, [row[r] EXCEPT !.lease = l])
    BY <1>6 DEF ExpireLease, HeartbeatLifecycleRun
  <2> DEFINE y == [row[r] EXCEPT !.lease = l]
  <2>2. /\ y.status = row[r].status /\ y.attempt_number = row[r].attempt_number
        /\ y.publication_state = row[r].publication_state
    BY <1>0 DEF RowOK, Row
  <2>3. WriteQuietly(r, y)
    BY <2>1
  <2> HIDE DEF y
  <2> QED
    BY <1>0, <2>2, <2>3, QuietMoves, WriteMoves
<1>7. ASSUME NEW r \in Run, NEW w \in Worker, ClaimLifecycleRun(w, r)
      PROVE  RowMove(row[q], row'[q])
  <2>1. CASE q = r
    <3>1. Swept(row[r]) = row[r] /\ Claimable(row[r])
      BY <1>0, <1>7, SweptClaimable DEF ClaimLifecycleRun
    <3> QED
      BY <1>0, <1>7, <2>1, <3>1, ClaimedMoves DEF ClaimLifecycleRun
  <2>2. CASE q # r
    BY <1>0, <1>7, <2>2, SweptMoves DEF ClaimLifecycleRun
  <2> QED
    BY <2>1, <2>2
<1>8. ASSUME NEW r \in Run, NEW w \in Worker, NEW n \in 1 .. MaxAttempts,
             BeginLifecyclePublication(r, w, n)
      PROVE  RowMove(row[q], row'[q])
  <2> DEFINE y == [row[r] EXCEPT !.publication_state = "publication-pending"]
  <2>1. WriteQuietly(r, y) /\ row[r].status = "running"
    BY <1>8 DEF BeginLifecyclePublication, CanBegin, OwnedBy
  <2>2. /\ y.status = row[r].status /\ y.attempt_number = row[r].attempt_number
        /\ y.publication_state = "publication-pending"
        /\ row[r].attempt_number \in Int
    BY <1>0 DEF RowOK, Row
  <2> HIDE DEF y
  <2>3. RowMove(row[r], y)
    BY <1>0, <2>1, <2>2 DEF RowMove, RowLife
  <2> QED
    BY <2>1, <2>3, WriteMoves
<1>9. ASSUME NEW r \in Run, NEW w \in Worker, NEW n \in 1 .. MaxAttempts,
             NEW b \in Bytes, PrepareLifecyclePublication(r, w, n, b)
      PROVE  RowMove(row[q], row'[q])
  <2> DEFINE y == [row[r] EXCEPT !.publication_state = "prepared", !.prepared = b]
  <2>1. WriteQuietly(r, y) /\ row[r].status = "running"
    BY <1>9 DEF PrepareLifecyclePublication, CanPrepare, OwnedBy
  <2>2. /\ y.status = row[r].status /\ y.attempt_number = row[r].attempt_number
        /\ y.publication_state = "prepared"
        /\ row[r].attempt_number \in Int
    BY <1>0 DEF RowOK, Row
  <2> HIDE DEF y
  <2>3. RowMove(row[r], y)
    BY <1>0, <2>1, <2>2 DEF RowMove, RowLife
  <2> QED
    BY <2>1, <2>3, WriteMoves
<1>10. ASSUME NEW r \in Run, NEW w \in Worker, NEW n \in 1 .. MaxAttempts,
              NEW b \in Bytes, CompleteLifecycleRun(r, w, n, b)
       PROVE  RowMove(row[q], row'[q])
  <2>1. row[r].status = "running" /\ Write(r, CompletionOf(row[r], w, n, b))
    BY <1>10 DEF CompleteLifecycleRun, CancelsAtCompletion, CanComplete, OwnedBy
  <2>2. RowMove(row[r], CompletionOf(row[r], w, n, b))
    BY <1>0, <2>1, CompletedMoves, CanceledMoves, UpdatedFields
       DEF CompletionOf, CancelsAtCompletion
  <2> QED
    BY <2>1, <2>2, WriteMoves
<1>11. ASSUME NEW r \in Run, NEW w \in Worker, NEW n \in 1 .. MaxAttempts,
              NEW b \in Bytes \cup {None}, FailLifecycleRun(r, w, n, b)
       PROVE  RowMove(row[q], row'[q])
  <2>1. row[r].status = "running" /\ Write(r, FailureOf(row[r], b))
    BY <1>11 DEF FailLifecycleRun, CanFail, OwnedBy
  <2> QED
    BY <1>0, <2>1, FailureMoves, WriteMoves
<1> QED
  BY <1>1, <1>2, <1>3, <1>4, <1>5, <1>6, <1>7, <1>8, <1>9, <1>10, <1>11 DEF Next

(* LifeInv is an invariant of the store. *)
LEMMA LifeInvInit == Init => LifeInv
<1> SUFFICES ASSUME Init PROVE LifeInv
  OBVIOUS
<1>1. AbsentRow.status = "absent" /\ AbsentRow.publication_state = "none"
  BY DEF AbsentRow
<1> QED
  BY <1>1, StoreInvInit DEF Init, LifeInv, RowLife

LEMMA LifeInvNext == LifeInv /\ [Next]_storeVars => LifeInv'
BY EveryRowMoves, StoreInvNext DEF LifeInv, RowMove

(* What the publication of a row may be at each point of its life. *)
THEOREM StoreLife == Spec => []LifeInv
BY LifeInvInit, LifeInvNext, PTL DEF Spec

-----------------------------------------------------------------------------
(* The contract of a run. *)

(* The sink changes only while the store stands still, and only for a run  *)
(* that is past the cutoff.                                                *)
SinkStep ==
  \/ sink' = sink
  \/ /\ UNCHANGED storeVars
     /\ \A r \in Run : sink'[r] # sink[r] => sink[r] = None /\ PastCutoff(row[r])

LEMMA EverySinkStep ==
  ASSUME WorkerInv, [WNext]_vars
  PROVE  SinkStep
<1>1. CASE UNCHANGED vars
  BY <1>1 DEF vars, SinkStep
<1>2. ASSUME NEW r \in Run,
             \/ \E cb \in SubmittedCallbacks : SubmitRun(r, cb)
             \/ ReplayWithCallback(r)
             \/ TimePasses(r)
             \/ \E w \in Worker : \/ CancelRun(w, r) \/ NotifyCancellation(w, r)
                                  \/ ClaimRun(w, r)
      PROVE  sink' = sink
  BY <1>2 DEF SubmitRun, ReplayWithCallback, TimePasses, CancelRun,
     NotifyCancellation, ClaimRun, workerVars
<1>3. ASSUME NEW w \in Worker, Start(w) \/ Stop(w) \/ Exit(w) \/ PollNothing(w)
      PROVE  sink' = sink
  BY <1>3 DEF Start, Stop, Exit, PollNothing, workerVars
<1>4. ASSUME NEW w \in Worker, NEW a \in Attempt, Watch(w, a)
      PROVE  sink' = sink
  BY <1>4 DEF Watch, Launch, StopWatching, ReadBeforeFailing, PersistFailure,
     PersistenceFault
<1>5. ASSUME NEW a \in Attempt, Heartbeat(a) \/ HeartbeatEnds(a)
      PROVE  sink' = sink
  BY <1>5 DEF Heartbeat, HeartbeatEnds
<1>6. ASSUME NEW a \in Attempt, NEW wrote \in BOOLEAN,
             NEW outcome \in {"complete"} \cup Raised,
             SaveCompletedRun(a, wrote, outcome)
      PROVE  SinkStep
  <2>1. pc[a] = "save" /\ UNCHANGED storeVars
    BY <1>6 DEF SaveCompletedRun
  <2>2. PastCutoff(row[a[1]])
    BY <2>1 DEF WorkerInv, AttemptOK
  <2>3. \A r \in Run : sink'[r] # sink[r] => r = a[1] /\ sink[r] = None
    BY <1>6 DEF SaveCompletedRun, WorkerInv, WorkerTypes
  <2> QED
    BY <2>1, <2>2, <2>3 DEF SinkStep
<1>7. ASSUME NEW a \in Attempt, AttemptStep(a),
             ~(\E wrote \in BOOLEAN, outcome \in {"complete"} \cup Raised :
                 SaveCompletedRun(a, wrote, outcome))
      PROVE  sink' = sink
  BY <1>7 DEF AttemptStep, ReadPrepared, CheckBeforeWork, LookupRun, Generate,
     GenerateRaises, OperationCancelled, CheckAfterWork, AcquirePublishLock,
     CheckBeforeStaging, StageResult, RereadPrepared, CheckBeforePublishing,
     BeginPublication, CompleteRun, RepositoryFault, AbortIfRequested
<1> QED
  BY <1>1, <1>2, <1>3, <1>4, <1>5, <1>6, <1>7 DEF WNext, Claim, SinkStep

(* The state of the contract that stands for a run's row, sink and event. *)
Decided(x) == x.publication_state \in {"publication-pending", "published"}
Reported(e) == IF e = None THEN "none" ELSE e.terminal_status

(* What the row, the sink and the event of a run do in a step of the       *)
(* workers that changes the store.                                         *)
ContractFacts(r) ==
  LET x == row[r]
      y == row'[r] IN
  /\ sink'[r] = sink[r]
  /\ outbox'[r] = Announced(y, outbox[r])
  /\ RowOK(x) /\ RowOK(y) /\ RowLife(x) /\ RowMove(x, y) /\ RowStep(x, y)
  /\ EventOK(x, outbox[r])
  /\ y.status = "completed" => y.publication_state = "published" /\ sink'[r] # None
  /\ y.status = "canceled" => sink'[r] = None

(* A run that has not ended has no event; one that ends now is announced   *)
(* with its new status or not at all.                                      *)
LEMMA ReportedEvent ==
  ASSUME NEW r \in Run, ContractFacts(r)
  PROVE  /\ ~IsTerminal(row'[r]) => outbox'[r] = outbox[r]
         /\ ~IsTerminal(row[r]) => outbox[r] = None
         /\ outbox[r] # None => outbox'[r] = outbox[r]
         /\ \/ outbox'[r] = outbox[r]
            \/ /\ outbox[r] = None /\ outbox'[r] # None
               /\ Reported(outbox'[r]) = row'[r].status
<1>1. outbox'[r] = Announced(row'[r], outbox[r]) /\ EventOK(row[r], outbox[r])
  BY DEF ContractFacts
<1> DEFINE f == [terminal_status |-> row'[r].status, delivery_status |-> "pending",
                 attempts |-> 0]
<1>2. IsTerminal(row'[r]) => f \in Event /\ f # None /\ f.terminal_status = row'[r].status
  BY NoneAssumption DEF IsTerminal, Event, DeliveryStatus
<1>3. outbox'[r] = IF outbox[r] = None /\ IsTerminal(row'[r]) /\ row'[r].callback
                   THEN f ELSE outbox[r]
  BY <1>1 DEF Announced
<1> HIDE DEF f
<1> QED
  BY <1>1, <1>2, <1>3 DEF EventOK, Reported

LEMMA StoreStepKeepsContract ==
  ASSUME NEW r \in Run, ContractFacts(r)
  PROVE  Contract(r)!ContractStep
<1> DEFINE x == row[r]
           y == row'[r]
<1>0. /\ sink'[r] = sink[r] /\ RowLife(x) /\ RowLife(y) /\ RowMove(x, y)
      /\ RowStep(x, y) /\ x.status \in Status /\ RowOK(x)
      /\ y.status = "completed" => y.publication_state = "published" /\ sink[r] # None
      /\ y.status = "canceled" => sink[r] = None
  BY DEF ContractFacts, RowMove, RowOK, Row
<1>1. CASE x.status = "absent" /\ y.status = "queued"
  <2>1. outbox'[r] = outbox[r]
    BY <1>1, ReportedEvent DEF IsTerminal
  <2>2. y.publication_state = x.publication_state
    BY <1>0, <1>1 DEF RowMove
  <2>3. Contract(r)!Accept
    BY <1>0, <1>1, <2>1, <2>2 DEF Contract!Accept
  <2> QED
    BY <2>3 DEF Contract!ContractStep, Contract!ContractNext
<1>2. CASE x.status = "queued" /\ y.status = "running"
  <2>1. outbox'[r] = outbox[r]
    BY <1>2, ReportedEvent DEF IsTerminal
  <2>2. y.publication_state = x.publication_state
    BY <1>0, <1>2 DEF RowMove
  <2>3. Contract(r)!Begin
    BY <1>0, <1>2, <2>1, <2>2 DEF Contract!Begin
  <2> QED
    BY <2>3 DEF Contract!ContractStep, Contract!ContractNext
<1>3. CASE x.status \in {"queued", "running"} /\ y.status = "canceled"
  <2>1. ~Decided(x) /\ ~Decided(y)
    BY <1>0, <1>3 DEF RowLife, RowStep, IsPending, Decided
  <2>2. Reported(outbox'[r]) \in {Reported(outbox[r]), "canceled"}
    BY <1>3, ReportedEvent
  <2>3. Contract(r)!Cancel
    BY <1>0, <1>3, <2>1, <2>2
       DEF Contract!Cancel, Contract!EndIn, Decided, Reported
  <2> QED
    BY <2>3 DEF Contract!ContractStep, Contract!ContractNext
<1>4. CASE x.status = "running" /\ y.status = "completed"
  <2>1. Decided(x) /\ Decided(y)
    BY <1>0, <1>4 DEF RowMove, Decided
  <2>2. Reported(outbox'[r]) \in {Reported(outbox[r]), "completed"}
    BY <1>4, ReportedEvent
  <2>3. Contract(r)!Complete
    BY <1>0, <1>4, <2>1, <2>2
       DEF Contract!Complete, Contract!EndIn, Decided, Reported
  <2> QED
    BY <2>3 DEF Contract!ContractStep, Contract!ContractNext
<1>5. CASE x.status = "running" /\ y.status = "failed"
  <2>1. ~Decided(y)
    BY <1>0, <1>5 DEF RowLife, Decided
  <2>2. Reported(outbox'[r]) \in {Reported(outbox[r]), "failed"}
    BY <1>5, ReportedEvent
  <2>3. Contract(r)!Fail
    BY <1>0, <1>5, <2>1, <2>2 DEF Contract!Fail, Contract!EndIn, Decided, Reported
  <2> QED
    BY <2>3 DEF Contract!ContractStep, Contract!ContractNext
<1>6. CASE x.status = "running" /\ y.status = "running"
  <2>1. outbox'[r] = outbox[r]
    BY <1>6, ReportedEvent DEF IsTerminal
  <2>2. Decided(y) \/ Decided(y) = Decided(x)
    BY <1>0, <1>6 DEF RowLife, RowStep, IsPending, Decided
  <2>3. Contract(r)!Decide \/ UNCHANGED Contract(r)!contractVars
    BY <1>0, <1>6, <2>1, <2>2 DEF Contract!Decide, Contract!contractVars, Decided
  <2> QED
    BY <2>3 DEF Contract!ContractStep, Contract!ContractNext
<1>7. CASE x.status # "running" /\ y.status = x.status
  <2>1. y.publication_state = x.publication_state
    BY <1>0, <1>7 DEF RowMove
  <2>2. CASE outbox'[r] = outbox[r]
    <3>1. UNCHANGED Contract(r)!contractVars
      BY <1>0, <1>7, <2>1, <2>2 DEF Contract!contractVars
    <3> QED
      BY <3>1 DEF Contract!ContractStep
  <2>3. CASE outbox'[r] # outbox[r]
    <3>1. /\ outbox[r] = None /\ outbox'[r] # None
          /\ Reported(outbox'[r]) = x.status /\ x.status \in Terminal
      BY <1>7, <2>3, ReportedEvent DEF IsTerminal
    <3>2. Contract(r)!Announce
      BY <1>0, <1>7, <2>1, <3>1
         DEF Contract!Announce, Contract!Ended, Reported
    <3> QED
      BY <3>2 DEF Contract!ContractStep, Contract!ContractNext
  <2> QED
    BY <2>2, <2>3
<1> QED
  BY <1>0, <1>1, <1>2, <1>3, <1>4, <1>5, <1>6, <1>7 DEF RowMove

LEMMA SinkStepKeepsContract ==
  ASSUME NEW r \in Run, UNCHANGED storeVars, WorkerInv, WorkerInv',
         sink'[r] # sink[r] => sink[r] = None /\ PastCutoff(row[r])
  PROVE  Contract(r)!ContractStep
<1>1. row'[r] = row[r] /\ outbox'[r] = outbox[r]
  BY DEF storeVars
<1>2. CASE sink'[r] = sink[r]
  <2>1. UNCHANGED Contract(r)!contractVars
    BY <1>1, <1>2 DEF Contract!contractVars
  <2> QED
    BY <2>1 DEF Contract!ContractStep
<1>3. CASE sink'[r] # sink[r]
  <2>1. sink[r] = None /\ PastCutoff(row[r]) /\ sink'[r] # None
    BY <1>3
  <2>2. row[r].status # "completed"
    BY <2>1 DEF WorkerInv, RunOK
  <2>3. (row[r].status = "running" /\ Decided(row[r])) \/ row[r].status = "failed"
    BY <2>1, <2>2 DEF PastCutoff, IsPending, Decided
  <2>4. Contract(r)!Publish
    BY <1>1, <2>1, <2>3 DEF Contract!Publish, Decided
  <2> QED
    BY <2>4 DEF Contract!ContractStep, Contract!ContractNext
<1> QED
  BY <1>2, <1>3

(* Every step of the workers takes every run by at most one step of its    *)
(* contract.                                                               *)
LEMMA EveryContractStep ==
  ASSUME WorkerInv, LifeInv, [WNext]_vars, NEW r \in Run
  PROVE  Contract(r)!ContractStep
<1>1. WorkerInv' /\ [Next]_storeVars
  BY EveryStepKeeps DEF Kept
<1>2. SinkStep
  BY EverySinkStep
<1>3. CASE sink' = sink
  <2>1. Stepped
    BY <1>1, EveryRowSteps DEF WorkerInv
  <2>2. RowMove(row[r], row'[r])
    BY <1>1, EveryRowMoves
  <2>3. /\ RowOK(row[r]) /\ RowLife(row[r]) /\ EventOK(row[r], outbox[r])
        /\ RowStep(row[r], row'[r]) /\ outbox'[r] = Announced(row'[r], outbox[r])
        /\ RowOK(row'[r])
    BY <2>1 DEF LifeInv, StoreInv, Stepped, RowStep
  <2>4. /\ row'[r].status = "completed" =>
             row'[r].publication_state = "published" /\ sink'[r] # None
        /\ row'[r].status = "canceled" => sink'[r] = None
    BY <1>1 DEF WorkerInv, RunOK, PastCutoff
  <2> QED
    BY <1>3, <2>2, <2>3, <2>4, StoreStepKeepsContract DEF ContractFacts
<1>4. CASE sink' # sink
  BY <1>1, <1>2, <1>4, SinkStepKeepsContract DEF SinkStep
<1> QED
  BY <1>3, <1>4

(* The workers implement the contract of every run: through crashes,       *)
(* detached attempts and recoveries a run is accepted once, decided once,  *)
(* ends once, is published only after the decision, never after a          *)
(* cancellation, and is announced once with the status it ended in.        *)
THEOREM WorkersImplementContract == WSpec => ImplementsContract
<1>1. WInit => \A r \in Run : Contract(r)!ContractInit
  <2> SUFFICES ASSUME WInit, NEW r \in Run PROVE Contract(r)!ContractInit
    OBVIOUS
  <2>1. row[r] = AbsentRow /\ outbox[r] = None /\ sink[r] = None
    BY DEF WInit, Init
  <2>2. AbsentRow.status = "absent" /\ AbsentRow.publication_state = "none"
    BY DEF AbsentRow
  <2> QED
    BY <2>1, <2>2 DEF Contract!ContractInit
<1>2. WSpec => []LifeInv
  BY WorkersUseTheStore, StoreLife, PTL
<1>3. WorkerInv /\ LifeInv /\ [WNext]_vars
        => [\A r \in Run : Contract(r)!ContractStep]_vars
  BY EveryContractStep
<1> QED
  BY <1>1, <1>2, <1>3, WorkerInvariant, PTL DEF WSpec, ImplementsContract

-----------------------------------------------------------------------------
(* Containment: what an attempt holds ends with it. *)

ThreadOK(a) ==
  /\ pc[a] \in Working => owner[a] \in Worker
  /\ pc[a] \in LockedSteps => lock[owner[a]] = a
  /\ beat[a] = "on" => owner[a] \in Worker /\ main[owner[a]] = a
  /\ pc[a] = "unborn" => owner[a] = None /\ beat[a] = "off"
  /\ pc[a] # "unborn" => a[2] <= row[a[1]].attempt_number

ProcessOK(w) ==
  /\ main[w] # None => owner[main[w]] = w
  /\ lock[w] # None => owner[lock[w]] = w /\ pc[lock[w]] \in LockedSteps

(* The inductive invariant; the last part of ThreadOK makes the attempt    *)
(* that a claim starts a new one.                                          *)
ThreadInv ==
  /\ \A a \in Attempt : ThreadOK(a)
  /\ \A w \in Worker : ProcessOK(w)

(* Attempt numbers only grow. *)
Aged == \A a \in Attempt :
          a[2] <= row[a[1]].attempt_number => a[2] <= row'[a[1]].attempt_number

LEMMA EveryStepAges ==
  ASSUME LifeInv, LifeInv', [Next]_storeVars
  PROVE  Aged
<1> SUFFICES ASSUME NEW a \in Attempt, a[2] <= row[a[1]].attempt_number
             PROVE  a[2] <= row'[a[1]].attempt_number
  BY DEF Aged
<1>1. a[1] \in Run /\ a[2] \in Int
  BY AttemptParts
<1>2. row[a[1]].attempt_number \in Int /\ row'[a[1]].attempt_number \in Int
  BY <1>1 DEF LifeInv, StoreInv, Row
<1>3. row[a[1]].attempt_number <= row'[a[1]].attempt_number
  BY <1>1, EveryRowMoves DEF RowMove
<1> QED
  BY <1>1, <1>2, <1>3

(* Steps that move no thread. *)
LEMMA ThreadsStay ==
  ASSUME ThreadInv, Aged, UNCHANGED <<main, lock, pc, owner, beat>>
  PROVE  ThreadInv'
<1>1. ASSUME NEW a \in Attempt PROVE ThreadOK(a)'
  BY DEF ThreadInv, ThreadOK, Aged
<1>2. ASSUME NEW w \in Worker PROVE ProcessOK(w)'
  BY DEF ThreadInv, ProcessOK
<1> QED
  BY <1>1, <1>2 DEF ThreadInv

(* A step of an attempt thread: it stays on its side of the lock, gives    *)
(* the lock back, or takes it.                                             *)
LEMMA ThreadMoves ==
  ASSUME WorkerTypes, ThreadInv, Aged, NEW a \in Attempt, NEW step,
         UNCHANGED <<main, owner, beat>>,
         pc' = [pc EXCEPT ![a] = step],
         pc[a] \in Working, step # "unborn",
         \/ lock' = lock /\ (step \in LockedSteps <=> pc[a] \in LockedSteps)
         \/ Unlock(a) /\ step \notin LockedSteps
         \/ /\ lock[owner[a]] = None
            /\ lock' = [lock EXCEPT ![owner[a]] = a]
            /\ step \in LockedSteps
  PROVE  ThreadInv'
<1>0. /\ owner[a] \in Worker /\ pc[a] # "unborn"
      /\ None \notin Attempt
  BY NoAttemptAssumption
     DEF ThreadInv, ThreadOK, Working, LockedSteps, OpenSteps
<1>1. /\ pc'[a] = step
      /\ \A c \in Attempt : c # a => pc'[c] = pc[c]
  BY DEF WorkerTypes
<1>2. /\ step \in LockedSteps => lock'[owner[a]] = a
      /\ \A w \in Worker : w # owner[a] => lock'[w] = lock[w]
      /\ lock'[owner[a]] \in {lock[owner[a]], a, None}
      /\ lock'[owner[a]] = a => step \in LockedSteps
      /\ lock[owner[a]] \in Attempt \ {a} => lock'[owner[a]] = lock[owner[a]]
  <2>1. lock[owner[a]] = a <=> pc[a] \in LockedSteps
    BY <1>0 DEF ThreadInv, ThreadOK, ProcessOK
  <2> QED
    BY <1>0, <2>1 DEF WorkerTypes, Unlock
<1>3. ASSUME NEW c \in Attempt PROVE ThreadOK(c)'
  <2>0. ThreadOK(c)
    BY DEF ThreadInv
  <2>1. CASE c = a
    BY <1>0, <1>1, <1>2, <2>0, <2>1 DEF ThreadOK, Aged
  <2>2. CASE c # a
    <3>1. pc[c] \in LockedSteps => lock'[owner[c]] = c
      BY <1>2, <2>0, <2>2 DEF ThreadOK, Working
    <3> QED
      BY <1>1, <2>0, <2>2, <3>1 DEF ThreadOK, Aged
  <2> QED
    BY <2>1, <2>2
<1>4. ASSUME NEW w \in Worker PROVE ProcessOK(w)'
  <2>0. ProcessOK(w) /\ lock[w] \in Attempt \cup {None}
    BY DEF ThreadInv, WorkerTypes
  <2>1. CASE lock'[w] = a
    <3>1. w = owner[a]
      BY <1>0, <1>2, <2>0, <2>1 DEF ProcessOK
    <3> QED
      BY <1>1, <1>2, <2>0, <2>1, <3>1 DEF ProcessOK
  <2>2. CASE lock'[w] # a
    <3>1. lock'[w] \in {lock[w], None}
      BY <1>2, <2>2
    <3> QED
      BY <1>0, <1>1, <2>0, <2>2, <3>1 DEF ProcessOK
  <2> QED
    BY <2>1, <2>2
<1> QED
  BY <1>3, <1>4 DEF ThreadInv

(* A step of the main thread that watches a: the attempt stays or moves    *)
(* outside the lock, and its heartbeat stays, starts or, with the watch,   *)
(* is told to stop.                                                        *)
LEMMA WatchMoves ==
  ASSUME WorkerTypes, ThreadInv, Aged, NEW w \in Worker, NEW a \in Attempt, NEW step,
         main[w] = a, UNCHANGED <<lock, owner>>,
         \/ pc' = pc
         \/ /\ pc' = [pc EXCEPT ![a] = step]
            /\ pc[a] \notin LockedSteps /\ step \notin LockedSteps \cup {"unborn"}
         ,
         \/ UNCHANGED <<main, beat>>
         \/ main' = main /\ beat' = [beat EXCEPT ![a] = "on"] /\ pc'[a] # "unborn"
         \/ Unwatch(w, a)
  PROVE  ThreadInv'
<1>0. owner[a] = w /\ pc[a] # "unborn" /\ w # None
  <2>1. a # None /\ w # None
    BY NoAttemptAssumption, NoneAssumption
  <2> QED
    BY <2>1 DEF ThreadInv, ThreadOK, ProcessOK
<1>1. /\ \A c \in Attempt : c # a => pc'[c] = pc[c] /\ beat'[c] = beat[c]
      /\ pc'[a] # "unborn"
      /\ pc'[a] \in LockedSteps <=> pc[a] \in LockedSteps
      /\ pc[a] \in LockedSteps => pc'[a] = pc[a]
  BY <1>0 DEF WorkerTypes, Unwatch
<1>2. /\ \A v \in Worker : v # w => main'[v] = main[v]
      /\ main'[w] \in {a, None}
      /\ beat'[a] = "on" => main'[w] = a
  BY DEF WorkerTypes, Unwatch, ThreadInv, ThreadOK
<1>3. ASSUME NEW c \in Attempt PROVE ThreadOK(c)'
  <2>0. ThreadOK(c)
    BY DEF ThreadInv
  <2>1. CASE c = a
    BY <1>0, <1>1, <1>2, <2>0, <2>1 DEF ThreadOK, Aged
  <2>2. CASE c # a
    BY <1>1, <1>2, <2>0, <2>2 DEF ThreadOK, Aged
  <2> QED
    BY <2>1, <2>2
<1>4. ASSUME NEW v \in Worker PROVE ProcessOK(v)'
  <2>0. ProcessOK(v) /\ lock[v] \in Attempt \cup {None}
    BY DEF ThreadInv, WorkerTypes
  <2>1. main'[v] # None => owner[main'[v]] = v
    BY <1>0, <1>2, <2>0 DEF ProcessOK
  <2>2. lock[v] # None => pc'[lock[v]] \in LockedSteps
    BY <1>1, <2>0 DEF ProcessOK
  <2> QED
    BY <2>0, <2>1, <2>2 DEF ProcessOK
<1> QED
  BY <1>3, <1>4 DEF ThreadInv

LEMMA WatchContained ==
  ASSUME WorkerTypes, ThreadInv, Aged, NEW w \in Worker, NEW a \in Attempt, Watch(w, a)
  PROVE  ThreadInv'
<1>1. CASE Launch(w, a)
  <2>1. pc[a] \notin LockedSteps /\ "start" \notin LockedSteps \cup {"unborn"}
    BY <1>1 DEF Launch, LockedSteps
  <2>2. pc'[a] = "start"
    BY <1>1 DEF Launch, WorkerTypes
  <2> QED
    BY <1>1, <2>1, <2>2, WatchMoves DEF Launch
<1>2. CASE StopWatching(w, a)
  BY <1>2, WatchMoves DEF StopWatching
<1>3. CASE ReadBeforeFailing(w, a)
  <2>1. PICK step \in Failing : pc' = [pc EXCEPT ![a] = step]
    BY <1>3 DEF ReadBeforeFailing, Failing
  <2>2. pc[a] \notin LockedSteps /\ step \notin LockedSteps \cup {"unborn"}
    BY <1>3 DEF ReadBeforeFailing, Raised, Failing, LockedSteps
  <2> QED
    BY <1>3, <2>1, <2>2, WatchMoves DEF ReadBeforeFailing
<1>4. CASE PersistFailure(w, a) \/ PersistenceFault(w, a)
  <2>1. pc[a] \notin LockedSteps /\ "finished" \notin LockedSteps \cup {"unborn"}
    BY <1>4 DEF PersistFailure, PersistenceFault, Raised, Failing, LockedSteps
  <2> QED
    BY <1>4, <2>1, WatchMoves DEF PersistFailure, PersistenceFault
<1> QED
  BY <1>1, <1>2, <1>3, <1>4 DEF Watch

(* The heartbeat thread goes on or ends. *)
LEMMA HeartbeatContained ==
  ASSUME WorkerTypes, ThreadInv, Aged, NEW a \in Attempt,
         Heartbeat(a) \/ HeartbeatEnds(a)
  PROVE  ThreadInv'
<1>1. /\ UNCHANGED <<main, lock, pc, owner>>
      /\ \A c \in Attempt : beat'[c] \in {beat[c], "off"}
  BY DEF Heartbeat, HeartbeatEnds, WorkerTypes
<1>2. ASSUME NEW c \in Attempt PROVE ThreadOK(c)'
  <2>1. ThreadOK(c) /\ beat'[c] \in {beat[c], "off"}
    BY <1>1 DEF ThreadInv
  <2> QED
    BY <1>1, <2>1 DEF ThreadOK, Aged
<1>3. ASSUME NEW w \in Worker PROVE ProcessOK(w)'
  BY <1>1 DEF ThreadInv, ProcessOK
<1> QED
  BY <1>2, <1>3 DEF ThreadInv

(* A process that ends takes its threads, its lock and its watch with it. *)
LEMMA ExitContained ==
  ASSUME WorkerTypes, ThreadInv, Aged, NEW w \in Worker, Exit(w)
  PROVE  ThreadInv'
<1>0. /\ owner' = owner /\ w # None
      /\ main' = [main EXCEPT ![w] = None] /\ lock' = [lock EXCEPT ![w] = None]
      /\ \A c \in Attempt :
           /\ pc'[c] = IF owner[c] = w /\ pc[c] # "finished" THEN "killed" ELSE pc[c]
           /\ beat'[c] = IF owner[c] = w THEN "off" ELSE beat[c]
  BY NoneAssumption DEF Exit
<1>1. ASSUME NEW c \in Attempt PROVE ThreadOK(c)'
  <2>0. ThreadOK(c)
    BY DEF ThreadInv
  <2>1. CASE owner[c] = w
    <3>1. pc'[c] \in {"killed", "finished"} /\ beat'[c] = "off" /\ pc[c] # "unborn"
      BY <1>0, <2>0, <2>1 DEF ThreadOK
    <3> QED
      BY <2>0, <3>1 DEF ThreadOK, Aged, Working, LockedSteps, OpenSteps
  <2>2. CASE owner[c] # w
    <3>1. /\ pc'[c] = pc[c] /\ beat'[c] = beat[c]
          /\ owner[c] \in Worker => /\ main'[owner[c]] = main[owner[c]]
                                    /\ lock'[owner[c]] = lock[owner[c]]
      BY <1>0, <2>2 DEF WorkerTypes
    <3> QED
      BY <1>0, <2>0, <3>1 DEF ThreadOK, Aged, Working
  <2> QED
    BY <2>1, <2>2
<1>2. ASSUME NEW v \in Worker PROVE ProcessOK(v)'
  <2>0. /\ ProcessOK(v) /\ lock[v] \in Attempt \cup {None}
        /\ main[v] \in Attempt \cup {None}
    BY DEF ThreadInv, WorkerTypes
  <2>1. CASE v = w
    BY <1>0, <2>1 DEF ProcessOK, WorkerTypes
  <2>2. CASE v # w
    <3>1. main'[v] = main[v] /\ lock'[v] = lock[v]
      BY <1>0, <2>2 DEF WorkerTypes
    <3> QED
      BY <1>0, <2>0, <2>2, <3>1 DEF ProcessOK
  <2> QED
    BY <2>1, <2>2
<1> QED
  BY <1>1, <1>2 DEF ThreadInv

(* The attempt that a claim starts is a new one: nothing of it runs yet. *)
LEMMA ClaimContained ==
  ASSUME WorkerInv, LifeInv, ThreadInv, Aged, NEW w \in Worker, NEW r \in Run,
         ClaimRun(w, r)
  PROVE  ThreadInv'
<1> DEFINE n == row[r].attempt_number + 1
           a == <<r, n>>
<1>0. WorkerTypes /\ w # None /\ RowOK(row[r]) /\ Claimable(row[r])
  BY NoneAssumption, SweptClaimable
     DEF WorkerInv, StoreInv, ClaimRun, ClaimLifecycleRun
<1>1. /\ row[r].attempt_number \in 0 .. MaxAttempts
      /\ row[r].attempt_number < MaxAttempts
  BY <1>0 DEF RowOK, Row, Claimable
<1>2. n \in 1 .. MaxAttempts /\ ~(n <= row[r].attempt_number)
  BY <1>1, MaxAttemptsAssumption
<1>3. a \in Attempt /\ a[1] = r /\ a[2] = n
  BY <1>2 DEF Attempt
<1>4. row'[r].attempt_number = n
  <2>1. row'[r] = ClaimedRow(row[r], w)
    BY <1>0, SweptClaimable DEF ClaimRun, ClaimLifecycleRun, WorkerInv, StoreInv
  <2> QED
    BY <1>0, <2>1, ClaimedMoves DEF LifeInv
<1>5. /\ main[w] = None
      /\ main' = [main EXCEPT ![w] = a]
      /\ pc' = [pc EXCEPT ![a] = "claimed"]
      /\ owner' = [owner EXCEPT ![a] = w]
      /\ UNCHANGED <<lock, beat>>
  BY DEF ClaimRun
<1> HIDE DEF a
<1>6. pc[a] = "unborn" /\ owner[a] = None /\ beat[a] = "off"
  BY <1>2, <1>3 DEF ThreadInv, ThreadOK
<1>7. \A v \in Worker : main[v] # a /\ lock[v] # a
  <2>1. a # None
    BY <1>3, NoAttemptAssumption
  <2> QED
    BY <1>6, <2>1, NoneAssumption DEF ThreadInv, ProcessOK
<1>8. ASSUME NEW c \in Attempt PROVE ThreadOK(c)'
  <2>0. ThreadOK(c)
    BY DEF ThreadInv
  <2>1. CASE c = a
    <3>1. pc'[a] = "claimed" /\ beat'[a] = "off"
      BY <1>0, <1>3, <1>5, <1>6 DEF WorkerTypes
    <3>2. a[2] <= row'[a[1]].attempt_number
      BY <1>2, <1>3, <1>4
    <3> QED
      BY <2>1, <3>1, <3>2 DEF ThreadOK, Working, LockedSteps, OpenSteps
  <2>2. CASE c # a
    <3>1. /\ pc'[c] = pc[c] /\ beat'[c] = beat[c] /\ owner'[c] = owner[c]
          /\ \A v \in Worker : v # w => main'[v] = main[v]
      BY <1>0, <1>3, <1>5, <2>2 DEF WorkerTypes
    <3>2. beat[c] = "on" => owner[c] # w
      BY <1>5, <2>0, NoAttemptAssumption DEF ThreadOK
    <3> QED
      BY <1>5, <2>0, <3>1, <3>2 DEF ThreadOK, Aged
  <2> QED
    BY <2>1, <2>2
<1>9. ASSUME NEW v \in Worker PROVE ProcessOK(v)'
  <2>0. /\ ProcessOK(v) /\ lock[v] \in Attempt \cup {None}
        /\ main[v] \in Attempt \cup {None}
    BY <1>0 DEF ThreadInv, WorkerTypes
  <2>1. /\ main'[v] = IF v = w THEN a ELSE main[v]
        /\ owner'[a] = w
        /\ \A c \in Attempt : c # a => owner'[c] = owner[c] /\ pc'[c] = pc[c]
    BY <1>0, <1>3, <1>5 DEF WorkerTypes
  <2> QED
    BY <1>5, <1>7, <2>0, <2>1 DEF ProcessOK
<1> QED
  BY <1>8, <1>9 DEF ThreadInv

(* _abort_if_requested gives the lock back when it stops the attempt. *)
LEMMA CheckContained ==
  ASSUME WorkerTypes, ThreadInv, Aged, NEW a \in Attempt, NEW next,
         pc[a] \in Working, next # "unborn", AbortIfRequested(a, next),
         next \in LockedSteps <=> pc[a] \in LockedSteps
  PROVE  ThreadInv'
<1>1. PICK stops \in BOOLEAN :
        /\ pc' = [pc EXCEPT ![a] = IF stops THEN "finished" ELSE next]
        /\ IF stops THEN Unlock(a) ELSE UNCHANGED lock
        /\ UNCHANGED <<main, owner, beat>>
  <2> DEFINE x == row[a[1]]
             owns == OwnedBy(x, owner[a], a[2])
             s == ~owns \/ (~IsPending(x) /\ (x.cancel_requested \/ abort[a]))
  <2>1. /\ s \in BOOLEAN
        /\ pc' = [pc EXCEPT ![a] = IF s THEN "finished" ELSE next]
        /\ IF s THEN Unlock(a) ELSE UNCHANGED lock
        /\ UNCHANGED <<main, owner, beat>>
    BY DEF AbortIfRequested, Goto, Continue
  <2> HIDE DEF s
  <2> QED
    BY <2>1
<1>2. CASE stops
  BY <1>1, <1>2, ThreadMoves DEF LockedSteps
<1>3. CASE ~stops
  BY <1>1, <1>3, ThreadMoves
<1> QED
  BY <1>2, <1>3

(* Every step of an attempt thread takes the lock, keeps it or gives it    *)
(* back with the step it goes to.                                          *)
LEMMA AttemptStepContained ==
  ASSUME WorkerTypes, ThreadInv, Aged, NEW a \in Attempt, AttemptStep(a)
  PROVE  ThreadInv'
<1>1. CASE CheckBeforeWork(a) \/ CheckAfterWork(a)
  <2>1. PICK next \in {"lookup", "want-stage"} : AbortIfRequested(a, next)
    BY <1>1 DEF CheckBeforeWork, CheckAfterWork
  <2>2. pc[a] \in OpenSteps /\ pc[a] \notin LockedSteps
    BY <1>1 DEF CheckBeforeWork, CheckAfterWork, OpenSteps, LockedSteps
  <2> QED
    BY <2>1, <2>2, CheckContained DEF Working, LockedSteps
<1>2. CASE CheckBeforeStaging(a) \/ CheckBeforePublishing(a)
  <2>1. PICK next \in {"prepare", "begin"} : AbortIfRequested(a, next)
    BY <1>2 DEF CheckBeforeStaging, CheckBeforePublishing
  <2>2. pc[a] \in LockedSteps
    BY <1>2 DEF CheckBeforeStaging, CheckBeforePublishing, LockedSteps
  <2> QED
    BY <2>1, <2>2, CheckContained DEF Working, LockedSteps
<1>3. CASE \/ ReadPrepared(a) \/ LookupRun(a) \/ (\E b \in Bytes : Generate(a, b))
           \/ GenerateRaises(a) \/ OperationCancelled(a) \/ RereadPrepared(a)
  <2>1. /\ pc[a] \in {"start", "lookup", "invoke", "reread"}
        /\ UNCHANGED <<main, lock, owner, beat>>
    BY <1>3 DEF ReadPrepared, LookupRun, Generate, GenerateRaises,
                OperationCancelled, RereadPrepared
  <2>2. PICK step \in {"check-before", "want-publish", "invoke", "want-stage",
                       "check-after", "raised", "finished"} :
          pc' = [pc EXCEPT ![a] = step]
    BY <1>3 DEF ReadPrepared, LookupRun, Generate, GenerateRaises,
                OperationCancelled, RereadPrepared, Goto, Continue
  <2>3. /\ pc[a] \in Working /\ pc[a] \notin LockedSteps
        /\ step # "unborn" /\ step \notin LockedSteps
    BY <2>1, <2>2 DEF Working, OpenSteps, LockedSteps
  <2> QED
    BY <2>1, <2>2, <2>3, ThreadMoves
<1>4. CASE AcquirePublishLock(a)
  <2>1. PICK step \in {"check-stage", "check-publish", "begin"} :
          pc' = [pc EXCEPT ![a] = step]
    BY <1>4 DEF AcquirePublishLock, Goto, Continue
  <2>2. pc[a] \in Working /\ step # "unborn" /\ step \in LockedSteps
    BY <1>4, <2>1 DEF AcquirePublishLock, Working, OpenSteps, LockedSteps
  <2>3. /\ lock[owner[a]] = None
        /\ lock' = [lock EXCEPT ![owner[a]] = a]
        /\ UNCHANGED <<main, owner, beat>>
    BY <1>4 DEF AcquirePublishLock
  <2> QED
    BY <2>1, <2>2, <2>3, ThreadMoves
<1>5. CASE StageResult(a) \/ CompleteRun(a) \/ RepositoryFault(a)
  <2>1. PICK step \in {"reread", "finished", "raised"} :
          pc' = [pc EXCEPT ![a] = step]
    BY <1>5 DEF StageResult, CompleteRun, RepositoryFault, Goto, Continue
  <2>2. pc[a] \in Working /\ step # "unborn" /\ step \notin LockedSteps
    BY <1>5, <2>1 DEF StageResult, CompleteRun, RepositoryFault, RepositoryCalls,
                      Working, OpenSteps, LockedSteps
  <2>3. Unlock(a) /\ UNCHANGED <<main, owner, beat>>
    BY <1>5 DEF StageResult, CompleteRun, RepositoryFault
  <2> QED
    BY <2>1, <2>2, <2>3, ThreadMoves
<1>6. CASE \/ BeginPublication(a)
           \/ \E wrote \in BOOLEAN, outcome \in {"complete"} \cup Raised :
                SaveCompletedRun(a, wrote, outcome)
  <2>1. PICK step \in {"save", "complete", "finished"} \cup Raised :
          /\ pc' = [pc EXCEPT ![a] = step]
          /\ step \in {"save", "complete"} => lock' = lock
          /\ step \notin {"save", "complete"} => Unlock(a)
    BY <1>6 DEF BeginPublication, SaveCompletedRun, Raised, Goto, Continue
  <2>2. pc[a] \in LockedSteps /\ UNCHANGED <<main, owner, beat>>
    BY <1>6 DEF BeginPublication, SaveCompletedRun, LockedSteps
  <2>3. step # "unborn" /\ (step \in LockedSteps <=> step \in {"save", "complete"})
    BY <2>1 DEF Raised, LockedSteps
  <2> QED
    BY <2>1, <2>2, <2>3, ThreadMoves DEF Working
<1> QED
  BY <1>1, <1>2, <1>3, <1>4, <1>5, <1>6 DEF AttemptStep

(* No thread exists before the first claim. *)
LEMMA ThreadInvInit == WInit => ThreadInv
BY DEF WInit, ThreadInv, ThreadOK, ProcessOK, Working, LockedSteps, OpenSteps

(* Every step of the workers contains their threads. *)
LEMMA EveryStepContains ==
  ASSUME WorkerInv, LifeInv, ThreadInv, [WNext]_vars
  PROVE  ThreadInv'
<1>0. WorkerTypes
  BY DEF WorkerInv
<1>1. Aged
  <2>1. [Next]_storeVars
    BY EveryStepKeeps DEF Kept
  <2> QED
    BY <2>1, LifeInvNext, EveryStepAges
<1>2. CASE UNCHANGED vars
  BY <1>1, <1>2, ThreadsStay DEF vars
<1>3. ASSUME NEW r \in Run,
             \/ \E cb \in SubmittedCallbacks : SubmitRun(r, cb)
             \/ ReplayWithCallback(r)
             \/ TimePasses(r)
      PROVE  ThreadInv'
  BY <1>1, <1>3, ThreadsStay DEF SubmitRun, ReplayWithCallback, TimePasses, workerVars
<1>4. ASSUME NEW w \in Worker, NEW r \in Run,
             CancelRun(w, r) \/ NotifyCancellation(w, r)
      PROVE  ThreadInv'
  BY <1>1, <1>4, ThreadsStay DEF CancelRun, NotifyCancellation
<1>5. ASSUME NEW w \in Worker, Start(w) \/ Stop(w) \/ PollNothing(w)
      PROVE  ThreadInv'
  BY <1>1, <1>5, ThreadsStay DEF Start, Stop, PollNothing, workerVars
<1>6. ASSUME NEW w \in Worker, Exit(w)
      PROVE  ThreadInv'
  BY <1>0, <1>1, <1>6, ExitContained
<1>7. ASSUME NEW w \in Worker, NEW r \in Run, ClaimRun(w, r)
      PROVE  ThreadInv'
  BY <1>1, <1>7, ClaimContained
<1>8. ASSUME NEW w \in Worker, NEW a \in Attempt, Watch(w, a)
      PROVE  ThreadInv'
  BY <1>0, <1>1, <1>8, WatchContained
<1>9. ASSUME NEW a \in Attempt, Heartbeat(a) \/ HeartbeatEnds(a) \/ AttemptStep(a)
      PROVE  ThreadInv'
  BY <1>0, <1>1, <1>9, HeartbeatContained, AttemptStepContained
<1> QED
  BY <1>2, <1>3, <1>4, <1>5, <1>6, <1>7, <1>8, <1>9 DEF WNext, Claim

(* Whatever an attempt holds ends with it: its publish lock is held only   *)
(* inside the locked blocks of _process and its heartbeat only while       *)
(* _execute watches it, through faults, abandonment, stop and crash.       *)
THEOREM WorkersAreContained == WSpec => []AttemptsAreContained
<1>1. WSpec => []LifeInv
  BY WorkersUseTheStore, StoreLife, PTL
<1>2. WorkerInv /\ LifeInv /\ ThreadInv /\ [WNext]_vars => ThreadInv'
  BY EveryStepContains
<1>3. ThreadInv => AttemptsAreContained
  BY DEF ThreadInv, ThreadOK, ProcessOK, AttemptsAreContained, LockHeldInside,
         NoOrphanHeartbeat
<1> QED
  BY <1>1, <1>2, <1>3, ThreadInvInit, WorkerInvariant, PTL DEF WSpec
=============================================================================
