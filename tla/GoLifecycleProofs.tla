-------------------------- MODULE GoLifecycleProofs -------------------------
(***************************************************************************)
(* What the Go service keeps although FailLifecycleRun does not look at    *)
(* the row's owner, for any number of runs, attempts and worker processes. *)
(*                                                                         *)
(* GoInv adds to GoTypeOK what the one worker may rely on from its claim   *)
(* to its last statement: the run it holds was not completed by anybody    *)
(* else, and the result it is about to point at is in the table.           *)
(***************************************************************************)
EXTENDS GoLifecycle, FiniteSetTheorems, TLAPS

USE DEF Terminal

Holding == {"claimed", "invoking", "checking", "saving", "failing", "completing"}

(* The result ids of a run are the numbers of its saves that took effect. *)
Numbered(S) == \E n \in Nat : S = 1 .. n

WorkerOK ==
  /\ worker.step \in Holding =>
       /\ worker.run \in Run
       /\ row[worker.run].status # "completed"
  /\ worker.step = "completing" => results[worker.run] # {}

(* The inductive invariant. *)
GoInv ==
  /\ GoTypeOK
  /\ \A r \in Run : Numbered(results[r])
  /\ CompletedPointsAtResult
  /\ WorkerOK

-----------------------------------------------------------------------------
(* Numbering: the next id is fresh, and the number of ids is the last one. *)

LEMMA NumberedNext ==
  ASSUME NEW S, Numbered(S)
  PROVE  /\ Cardinality(S) \in Nat
         /\ Cardinality(S) + 1 \notin S
         /\ Numbered(S \cup {Cardinality(S) + 1})
         /\ S # {} => Cardinality(S) \in S
<1>1. PICK n \in Nat : S = 1 .. n
  BY DEF Numbered
<1>2. Cardinality(S) = n
  BY <1>1, FS_Interval
<1>3. S \cup {n + 1} = 1 .. (n + 1) /\ n + 1 \in Nat
  BY <1>1
<1>4. Numbered(S \cup {n + 1})
  BY <1>3 DEF Numbered
<1>5. n + 1 \notin S /\ (S # {} => n \in S)
  BY <1>1
<1> QED
  BY <1>2, <1>4, <1>5

(* created_at is a number. *)
LEMMA CreatedAtIsNat ==
  1 + Cardinality({q \in Run : row[q].status # "absent"}) \in Nat
<1> DEFINE Present == {q \in Run : row[q].status # "absent"}
<1>1. IsFiniteSet(Present)
  BY GoRunAssumption, FS_Subset, Present \subseteq Run
<1>2. Cardinality(Present) \in Nat
  BY <1>1, FS_CardinalityType
<1> QED
  BY <1>2

-----------------------------------------------------------------------------
(* The initial state, and one lemma for each kind of step. *)

LEMMA GoInvInit == Init => GoInv
<1> SUFFICES ASSUME Init PROVE GoInv
  OBVIOUS
<1>1. GoTypeOK
  BY GoBoundsAssumption DEF Init, AbsentRow, GoTypeOK, Row, Step
<1>2. Numbered({})
  <2>1. {} = 1 .. 0
    OBVIOUS
  <2> QED
    BY <2>1 DEF Numbered
<1> QED
  BY <1>1, <1>2 DEF Init, AbsentRow, GoInv, CompletedPointsAtResult, WorkerOK, Holding

WorkerType == [id : 0 .. Incarnations, step : Step, run : Run \cup {None},
               attempt : 0 .. MaxAttempts]

RowOK(x) == /\ x \in Row
            /\ x.status = "running" <=> x.worker_id # None
            /\ x.status = "running" <=> x.lease # "none"

(* A row that is replaced by a well-formed one. *)
LEMMA RowsOK ==
  ASSUME GoTypeOK, NEW run \in Run, NEW x, RowOK(x), row' = [row EXCEPT ![run] = x],
         results' = results, worker' \in WorkerType
  PROVE  GoTypeOK'
<1>1. row' \in [Run -> Row]
  BY DEF GoTypeOK, RowOK
<1>2. \A q \in Run : row'[q] = IF q = run THEN x ELSE row[q]
  BY DEF GoTypeOK
<1>3. \A q \in Run : RowOK(row'[q])
  BY <1>2 DEF GoTypeOK, RowOK
<1>4. /\ results' \in [Run -> SUBSET (Nat \ {0})]
      /\ \A q \in Run : /\ row'[q].status = "running" <=> row'[q].worker_id # None
                        /\ row'[q].status = "running" <=> row'[q].lease # "none"
  BY <1>3 DEF RowOK, GoTypeOK
<1> QED
  BY <1>1, <1>4 DEF GoTypeOK, WorkerType

(* A step that changes one row, and neither the results nor the worker,    *)
(* keeps GoInv if the row stays well formed and is not newly completed.    *)
LEMMA RowStepKeeps ==
  ASSUME GoInv, UNCHANGED <<results, worker>>,
         NEW r \in Run, NEW x, RowOK(x), x.status # "completed",
         row' = [row EXCEPT ![r] = x]
  PROVE  GoInv'
<1>1. GoTypeOK'
  <2>1. GoTypeOK /\ worker' \in WorkerType
    BY DEF GoInv, GoTypeOK, WorkerType
  <2> QED
    BY <2>1, RowsOK
<1>2. CompletedPointsAtResult'
  BY DEF GoInv, GoTypeOK, CompletedPointsAtResult
<1>3. WorkerOK'
  BY DEF GoInv, GoTypeOK, WorkerOK
<1> QED
  BY <1>1, <1>2, <1>3 DEF GoInv

LEMMA CreateKeeps ==
  ASSUME GoInv, NEW r \in Run, CreateLifecycleRun(r)
  PROVE  GoInv'
<1> DEFINE n == 1 + Cardinality({q \in Run : row[q].status # "absent"})
           x == [AbsentRow EXCEPT !.status = "queued", !.created_at = n]
<1>1. n \in Nat
  BY CreatedAtIsNat
<1>2. row' = [row EXCEPT ![r] = x]
  BY DEF CreateLifecycleRun
<1> HIDE DEF n
<1>3. AbsentRow \in Row /\ AbsentRow.worker_id = None /\ AbsentRow.lease = "none"
  BY GoBoundsAssumption DEF AbsentRow, Row
<1>4. RowOK(x) /\ x.status # "completed"
  <2>1. x \in Row
    BY <1>1, <1>3 DEF Row
  <2>2. x.status = "queued" /\ x.worker_id = None /\ x.lease = "none"
    BY <1>3 DEF Row
  <2> QED
    BY <2>1, <2>2 DEF RowOK
<1> HIDE DEF x
<1> QED
  BY <1>2, <1>4, RowStepKeeps DEF CreateLifecycleRun

LEMMA CancelKeeps ==
  ASSUME GoInv, NEW r \in Run, RequestCancellation(r)
  PROVE  GoInv'
<1>1. RowOK(CanceledRow(row[r])) /\ CanceledRow(row[r]).status # "completed"
  BY ZenonT(40) DEF GoInv, GoTypeOK, CanceledRow, RowOK, Row
<1>2. row' = [row EXCEPT ![r] = CanceledRow(row[r])]
  BY DEF RequestCancellation
<1> QED
  BY <1>1, <1>2, RowStepKeeps DEF RequestCancellation

LEMMA ExpireKeeps ==
  ASSUME GoInv, NEW r \in Run, ExpireLease(r)
  PROVE  GoInv'
<1> DEFINE x == [row[r] EXCEPT !.lease = "expired"]
<1>1. RowOK(x) /\ x.status # "completed"
  BY DEF GoInv, GoTypeOK, ExpireLease, RowOK, Row
<1>2. row' = [row EXCEPT ![r] = x]
  BY DEF ExpireLease, GoInv, GoTypeOK
<1> HIDE DEF x
<1> QED
  BY <1>1, <1>2, RowStepKeeps DEF ExpireLease

LEMMA HeartbeatKeeps ==
  ASSUME GoInv, Heartbeat
  PROVE  GoInv'
<1> DEFINE r == worker.run
           x == [row[r] EXCEPT !.lease = "live"]
<1>1. r \in Run
  BY DEF GoInv, WorkerOK, Holding, Heartbeat
<1>2. RowOK(x) /\ x.status # "completed"
  BY <1>1 DEF GoInv, GoTypeOK, Heartbeat, Mine, RowOK, Row
<1>3. row' = [row EXCEPT ![r] = x]
  BY DEF Heartbeat, GoInv, GoTypeOK
<1> HIDE DEF r, x
<1> QED
  BY <1>1, <1>2, <1>3, RowStepKeeps DEF Heartbeat

LEMMA ClaimKeeps ==
  ASSUME GoInv, NEW r \in Run, Claim(r)
  PROVE  GoInv'
<1> DEFINE x == [row[r] EXCEPT !.status = "running", !.worker_id = worker.id,
                               !.lease = "live", !.attempt_number = @ + 1]
<1>1. RowOK(x)
  BY GoNoneAssumption, GoBoundsAssumption
     DEF GoInv, GoTypeOK, Claim, Claimable, RowOK, Row
<1>2. x.status = "running"
  BY DEF GoInv, GoTypeOK, Row
<1>3. row' = [row EXCEPT ![r] = x]
  BY DEF Claim, GoInv, GoTypeOK
<1> HIDE DEF x
<1>4. GoTypeOK'
  <2>1. worker' \in WorkerType
    BY DEF GoInv, GoTypeOK, WorkerType, Claim, Step
  <2> QED
    BY <1>1, <1>3, <2>1, RowsOK DEF GoInv, Claim
<1>5. CompletedPointsAtResult'
  BY <1>2, <1>3 DEF GoInv, GoTypeOK, CompletedPointsAtResult, Claim
<1>6. WorkerOK'
  BY <1>2, <1>3 DEF GoInv, GoTypeOK, WorkerOK, Claim
<1> QED
  BY <1>4, <1>5, <1>6 DEF GoInv, Claim

(* A step of the worker alone. *)
LEMMA WorkerStepKeeps ==
  ASSUME GoInv, UNCHANGED <<row, results>>,
         worker' \in WorkerType, WorkerOK'
  PROVE  GoInv'
BY DEF GoInv, GoTypeOK, CompletedPointsAtResult, WorkerType

(* An idle worker holds no run. *)
LEMMA IdleHoldsNothing ==
  ASSUME GoTypeOK, Idle
  PROVE  worker' \in WorkerType /\ WorkerOK'
<1>1. worker \in WorkerType /\ 0 \in 0 .. MaxAttempts /\ "idle" \in Step
  BY GoBoundsAssumption DEF GoTypeOK, WorkerType, Step
<1>2. worker' \in WorkerType
  BY <1>1 DEF Idle, WorkerType
<1>3. worker'.step = "idle"
  BY <1>1 DEF Idle, WorkerType
<1> QED
  BY <1>2, <1>3 DEF WorkerOK, Holding

(* Start, Die, the SELECT after the claim, the calls that only read. *)
WorkerOnly ==
  \/ Start \/ Die \/ ClaimNothing \/ ReadNothing \/ Invoke \/ StatementFails
  \/ \E r \in Run : ReadClaimed(r)
  \/ \E readable \in BOOLEAN : CheckCancellation(readable)

LEMMA WorkerOnlyKeeps ==
  ASSUME GoInv, WorkerOnly
  PROVE  GoInv'
<1> USE GoBoundsAssumption
<1> SUFFICES UNCHANGED <<row, results>> /\ worker' \in WorkerType /\ WorkerOK'
  BY WorkerStepKeeps
<1>0. GoTypeOK
  BY DEF GoInv
<1>1. CASE Start
  <2>1. worker.id + 1 \in 0 .. Incarnations /\ "idle" \in Step
    BY <1>0, <1>1 DEF GoTypeOK, Start, Step
  <2>2. worker' \in WorkerType /\ worker'.step = "idle"
    BY <1>0, <1>1, <2>1 DEF GoTypeOK, Start, WorkerType
  <2> QED
    BY <1>1, <2>2 DEF Start, WorkerOK, Holding
<1>2. CASE Die
  <2>1. 0 \in 0 .. MaxAttempts /\ "down" \in Step
    BY DEF Step
  <2>2. worker' \in WorkerType /\ worker'.step = "down"
    BY <1>0, <1>2, <2>1 DEF GoTypeOK, Die, WorkerType
  <2> QED
    BY <1>2, <2>2 DEF Die, WorkerOK, Holding
<1>3. CASE ClaimNothing
  BY <1>3 DEF ClaimNothing, vars, GoInv, GoTypeOK, WorkerType, WorkerOK
<1>4. CASE ReadNothing
  BY <1>0, <1>4, IdleHoldsNothing DEF ReadNothing
<1>5. CASE Invoke
  BY <1>5 DEF Invoke, GoInv, GoTypeOK, WorkerType, Step, WorkerOK, Holding
<1>6. CASE StatementFails
  BY <1>0, <1>6, IdleHoldsNothing DEF StatementFails
<1>7. ASSUME NEW r \in Run, ReadClaimed(r)
      PROVE  UNCHANGED <<row, results>> /\ worker' \in WorkerType /\ WorkerOK'
  <2>1. row[r].attempt_number \in 0 .. MaxAttempts
    BY DEF GoInv, GoTypeOK, Row
  <2> QED
    BY <1>7, <2>1 DEF ReadClaimed, Mine, GoInv, GoTypeOK, WorkerType, Step,
                           WorkerOK, Holding
<1>8. ASSUME NEW readable \in BOOLEAN, CheckCancellation(readable)
      PROVE  UNCHANGED <<row, results>> /\ worker' \in WorkerType /\ WorkerOK'
  <2>1. CASE readable /\ row[worker.run].cancel_requested
    BY <1>0, <1>8, <2>1, IdleHoldsNothing DEF CheckCancellation
  <2>2. CASE ~(readable /\ row[worker.run].cancel_requested)
    BY <1>8, <2>2 DEF CheckCancellation, GoInv, GoTypeOK, WorkerType, Step,
                        WorkerOK, Holding
  <2> QED
    BY <2>1, <2>2
<1> QED
  BY <1>1, <1>2, <1>3, <1>4, <1>5, <1>6, <1>7, <1>8 DEF WorkerOnly

(* A save appends the next id or nothing; "completing" means it appended. *)
LEMMA SaveKeeps ==
  ASSUME GoInv, NEW saved \in BOOLEAN, NEW ok \in BOOLEAN,
         SaveCompletedRun(saved, ok)
  PROVE  GoInv'
<1> DEFINE r == worker.run
           S == IF saved THEN results[r] \cup {Cardinality(results[r]) + 1}
                         ELSE results[r]
<1>1. r \in Run /\ row[r].status # "completed"
  BY DEF GoInv, WorkerOK, Holding, SaveCompletedRun
<1>2. /\ S \in SUBSET (Nat \ {0})
      /\ Numbered(S)
      /\ results[r] \subseteq S
      /\ ok => S # {}
  <2>1. Numbered(results[r]) /\ results[r] \in SUBSET (Nat \ {0})
    BY <1>1 DEF GoInv, GoTypeOK
  <2>2. /\ Cardinality(results[r]) \in Nat
        /\ Numbered(results[r] \cup {Cardinality(results[r]) + 1})
    BY <2>1, NumberedNext
  <2>3. ok => saved
    BY DEF SaveCompletedRun
  <2> QED
    BY <2>1, <2>2, <2>3
<1>3. results' = [results EXCEPT ![r] = S]
  BY DEF SaveCompletedRun
<1> HIDE DEF S
<1>4. worker' = [worker EXCEPT !.step = IF ok THEN "completing" ELSE "failing"]
      /\ row' = row
  BY DEF SaveCompletedRun
<1>5. GoTypeOK'
  BY <1>1, <1>2, <1>3, <1>4 DEF GoInv, GoTypeOK, Step
<1>6. \A q \in Run : Numbered(results'[q])
  BY <1>1, <1>2, <1>3 DEF GoInv, GoTypeOK
<1>7. CompletedPointsAtResult'
  BY <1>1, <1>2, <1>3, <1>4 DEF GoInv, GoTypeOK, CompletedPointsAtResult
<1>8. WorkerOK'
  BY <1>1, <1>2, <1>3, <1>4 DEF GoInv, GoTypeOK, WorkerOK, Holding
<1> QED
  BY <1>5, <1>6, <1>7, <1>8 DEF GoInv

(* The unfenced statement writes the row of a run that is not completed. *)
LEMMA FailKeeps ==
  ASSUME GoInv, FailLifecycleRun
  PROVE  GoInv'
<1> DEFINE r == worker.run
           x == [row[r] EXCEPT !.status = IF worker.attempt < MaxAttempts
                                          THEN "queued" ELSE "failed",
                               !.worker_id = None, !.lease = "none"]
<1>1. r \in Run
  BY DEF GoInv, WorkerOK, Holding, FailLifecycleRun
<1>2. RowOK(x) /\ x.status # "completed"
  <2>1. row[r] \in Row
    BY <1>1 DEF GoInv, GoTypeOK
  <2>2. x.status \in {"queued", "failed"} /\ x.worker_id = None /\ x.lease = "none"
    BY <2>1 DEF Row
  <2>3. x \in Row
    BY <2>1 DEF Row
  <2> QED
    BY <2>2, <2>3 DEF RowOK
<1>3. row' = [row EXCEPT ![r] = x]
  BY <1>1 DEF FailLifecycleRun, GoInv, GoTypeOK
<1> HIDE DEF x
<1>4. GoTypeOK'
  BY <1>1, <1>2, <1>3, IdleHoldsNothing, RowsOK
     DEF GoInv, FailLifecycleRun
<1>5. CompletedPointsAtResult'
  BY <1>1, <1>2, <1>3 DEF GoInv, GoTypeOK, CompletedPointsAtResult, FailLifecycleRun
<1>6. WorkerOK'
  BY IdleHoldsNothing DEF GoInv, FailLifecycleRun
<1> QED
  BY <1>4, <1>5, <1>6 DEF GoInv, FailLifecycleRun

(* The fenced one completes the run only with a result that is in the table. *)
LEMMA CompleteKeeps ==
  ASSUME GoInv, CompleteLifecycleRun
  PROVE  GoInv'
<1> DEFINE r == worker.run
           n == Cardinality(results[r])
           y == [row[r] EXCEPT !.status = "completed", !.worker_id = None,
                               !.lease = "none", !.result_id = n]
           x == IF row[r].worker_id # worker.id THEN row[r] ELSE y
<1>1. r \in Run
  BY DEF GoInv, WorkerOK, Holding, CompleteLifecycleRun
<1>2. n \in Nat /\ n \in results[r]
  BY <1>1, NumberedNext DEF GoInv, WorkerOK, CompleteLifecycleRun
<1>3. row' = [row EXCEPT ![r] = x]
  BY <1>1 DEF CompleteLifecycleRun, GoInv, GoTypeOK
<1> HIDE DEF n
<1>4. RowOK(row[r]) /\ row[r].status # "completed"
  BY <1>1 DEF GoInv, GoTypeOK, RowOK, WorkerOK, Holding, CompleteLifecycleRun
<1>5. RowOK(y) /\ y.result_id = n
  BY <1>1, <1>2, <1>4 DEF RowOK, Row
<1>6. RowOK(x) /\ (x.status = "completed" => x.result_id \in results[r])
  BY <1>2, <1>4, <1>5
<1> HIDE DEF x
<1>7. GoTypeOK'
  BY <1>1, <1>3, <1>6, IdleHoldsNothing, RowsOK
     DEF GoInv, CompleteLifecycleRun
<1>8. CompletedPointsAtResult'
  BY <1>1, <1>3, <1>6 DEF GoInv, GoTypeOK, CompletedPointsAtResult, CompleteLifecycleRun
<1>9. WorkerOK'
  BY IdleHoldsNothing DEF GoInv, CompleteLifecycleRun
<1> QED
  BY <1>7, <1>8, <1>9 DEF GoInv, CompleteLifecycleRun

-----------------------------------------------------------------------------
(* GoInv holds in every reachable state of the Go service. *)
THEOREM GoInvariant == Spec => []GoInv
<1>1. GoInv /\ UNCHANGED vars => GoInv'
  BY DEF vars, GoInv, GoTypeOK, CompletedPointsAtResult, WorkerOK
<1>2. GoInv /\ Next => GoInv'
  BY CreateKeeps, CancelKeeps, ExpireKeeps, HeartbeatKeeps, ClaimKeeps,
     WorkerOnlyKeeps, SaveKeeps, FailKeeps, CompleteKeeps
     DEF Next, ProcessOne, WorkerOnly
<1> QED
  BY <1>1, <1>2, GoInvInit, PTL DEF Spec

(* Rows, results and the worker keep their types, no attempt number        *)
(* exceeds WORKER_MAX_ATTEMPTS, and a run has an owner and a lease exactly *)
(* while it is running.                                                    *)
THEOREM GoTypeCorrect == Spec => []GoTypeOK
<1>1. GoInv => GoTypeOK
  BY DEF GoInv
<1> QED
  BY <1>1, GoInvariant, PTL

(* The result that a completed run points at is in the results table. *)
THEOREM GoCompletedPointsAtResult == Spec => []CompletedPointsAtResult
<1>1. GoInv => CompletedPointsAtResult
  BY DEF GoInv
<1> QED
  BY <1>1, GoInvariant, PTL

-----------------------------------------------------------------------------
(* What is left of two rules that the service does not keep.  A run may    *)
(* get more results than it had attempts: a SELECT after the claim that    *)
(* finds the claimed run canceled takes up a run that an earlier call left *)
(* behind, without a claim of its own.  But every save has a claim, of     *)
(* this run or of another.  And a run that has ended may be reopened, but  *)
(* only a canceled one, and by one statement only.                         *)

Saves == {p \in Run \X Nat : p[2] \in results[p[1]]}

Claims == {p \in Run \X (1 .. MaxAttempts) : p[2] <= row[p[1]].attempt_number}

(* The claim that the worker has not used yet. *)
Unused == IF worker.step \in {"claimed", "invoking", "checking", "saving"} THEN 1 ELSE 0

(* The results table gets at most one row for every claim of the queue,    *)
(* and so at most WORKER_MAX_ATTEMPTS rows for every run on the average,   *)
(* whatever fails, dies or is canceled.                                    *)
SavesAreClaims ==
  /\ Cardinality(Saves) <= Cardinality(Claims)
  /\ Cardinality(Saves) <= Cardinality(Run) * MaxAttempts

(* The inductive invariant, beside GoInv. *)
CountInv ==
  /\ IsFiniteSet(Saves)
  /\ Cardinality(Saves) + Unused <= Cardinality(Claims)
  /\ \A r \in Run : row[r].status = "absent" => row[r].attempt_number = 0
  /\ worker.step \in Holding => row[worker.run].status # "failed"

LEMMA ClaimsAreFinite ==
  /\ IsFiniteSet(Claims) /\ Cardinality(Claims) \in Nat
  /\ Cardinality(Run) \in Nat /\ Cardinality(Claims) <= Cardinality(Run) * MaxAttempts
<1>1. IsFiniteSet(1 .. MaxAttempts) /\ Cardinality(1 .. MaxAttempts) = MaxAttempts
  BY GoBoundsAssumption, FS_Interval
<1>2. /\ IsFiniteSet(Run \X (1 .. MaxAttempts))
      /\ Cardinality(Run \X (1 .. MaxAttempts)) = Cardinality(Run) * MaxAttempts
  BY <1>1, GoRunAssumption, FS_Product
<1>3. Claims \in SUBSET (Run \X (1 .. MaxAttempts))
  BY DEF Claims
<1>4. IsFiniteSet(Claims) /\ Cardinality(Claims) <= Cardinality(Run \X (1 .. MaxAttempts))
  BY <1>2, <1>3, FS_Subset
<1> QED
  BY <1>2, <1>4, GoRunAssumption, FS_CardinalityType

(* A step that neither claims nor saves; it may give up the claim. *)
LEMMA NothingCounted ==
  ASSUME CountInv, results' = results, Unused' <= Unused,
         \A q \in Run : row'[q].attempt_number = row[q].attempt_number
  PROVE  IsFiniteSet(Saves') /\ Cardinality(Saves') + Unused' <= Cardinality(Claims')
<1>1. Saves' = Saves
  BY DEF Saves
<1>2. Claims' = Claims
  BY DEF Claims
<1>3. Unused \in {0, 1} /\ Unused' \in {0, 1}
  BY DEF Unused
<1>4. Cardinality(Saves) \in Nat /\ Cardinality(Claims) \in Nat
  BY FS_CardinalityType, ClaimsAreFinite DEF CountInv
<1> QED
  BY <1>1, <1>2, <1>3, <1>4 DEF CountInv

LEMMA ClaimCounted ==
  ASSUME GoInv, CountInv, NEW r \in Run, Claim(r)
  PROVE  IsFiniteSet(Saves') /\ Cardinality(Saves') + Unused' <= Cardinality(Claims')
<1>1. PICK n \in Nat : n = row[r].attempt_number /\ n < MaxAttempts
  BY GoBoundsAssumption DEF GoInv, GoTypeOK, Row, Claim, Claimable
<1>2. \A q \in Run : row'[q].attempt_number = IF q = r THEN n + 1 ELSE row[q].attempt_number
  BY <1>1 DEF GoInv, GoTypeOK, Row, Claim
<1>3. Claims' = Claims \cup {<<r, n + 1>>}
  <2>1. <<r, n + 1>> \in Run \X (1 .. MaxAttempts)
    BY <1>1, GoBoundsAssumption
  <2>2. \A q \in Run, i \in 1 .. MaxAttempts :
          i <= row'[q].attempt_number <=>
            i <= row[q].attempt_number \/ (q = r /\ i = n + 1)
    BY <1>1, <1>2, GoBoundsAssumption
  <2>3. \A p \in Run \X (1 .. MaxAttempts) :
          p \in Claims' <=> p \in Claims \/ p = <<r, n + 1>>
    BY <2>2 DEF Claims
  <2>4. Claims \subseteq Run \X (1 .. MaxAttempts) /\ Claims' \subseteq Run \X (1 .. MaxAttempts)
    BY DEF Claims
  <2> QED
    BY <2>1, <2>3, <2>4
<1>4. <<r, n + 1>> \notin Claims
  BY <1>1 DEF Claims
<1>5. Cardinality(Claims') = Cardinality(Claims) + 1
  BY <1>3, <1>4, ClaimsAreFinite, FS_AddElement
<1>6. Saves' = Saves
  BY DEF Saves, Claim
<1>7. Unused = 0 /\ Unused' = 1
  BY DEF Unused, Claim, GoInv, GoTypeOK
<1>8. Cardinality(Saves) \in Nat /\ Cardinality(Claims) \in Nat
  BY FS_CardinalityType, ClaimsAreFinite DEF CountInv
<1> QED
  BY <1>5, <1>6, <1>7, <1>8 DEF CountInv

LEMMA SaveCounted ==
  ASSUME GoInv, CountInv, NEW saved \in BOOLEAN, NEW ok \in BOOLEAN,
         SaveCompletedRun(saved, ok)
  PROVE  IsFiniteSet(Saves') /\ Cardinality(Saves') + Unused' <= Cardinality(Claims')
<1>1. worker.run \in Run /\ row' = row
  BY DEF GoInv, WorkerOK, Holding, SaveCompletedRun
<1>2. PICK r \in Run : r = worker.run
  BY <1>1
<1>3. PICK n \in Nat : n = Cardinality(results[r]) + 1 /\ n \notin results[r]
  <2>1. Numbered(results[r])
    BY DEF GoInv
  <2>2. Cardinality(results[r]) \in Nat /\ Cardinality(results[r]) + 1 \notin results[r]
    BY <2>1, NumberedNext
  <2> QED
    BY <2>2
<1>4. \/ results' = results
      \/ results' = [results EXCEPT ![r] = @ \cup {n}]
  BY <1>2, <1>3 DEF SaveCompletedRun, GoInv, GoTypeOK
<1>5. Claims' = Claims
  BY <1>1 DEF Claims
<1>6. Unused = 1 /\ Unused' = 0
  BY DEF Unused, SaveCompletedRun, GoInv, GoTypeOK
<1>7. Cardinality(Saves) \in Nat /\ Cardinality(Claims) \in Nat
  BY FS_CardinalityType, ClaimsAreFinite DEF CountInv
<1>8. CASE results' = results
  <2>1. Saves' = Saves
    BY <1>8 DEF Saves
  <2> QED
    BY <2>1, <1>5, <1>6, <1>7 DEF CountInv
<1>9. CASE results' = [results EXCEPT ![r] = @ \cup {n}]
  <2>1. \A q \in Run, i \in Nat : i \in results'[q] <=> i \in results[q] \/ (q = r /\ i = n)
    BY <1>9 DEF GoInv, GoTypeOK
  <2>2. \A p \in Run \X Nat : p \in Saves' <=> p \in Saves \/ p = <<r, n>>
    BY <2>1 DEF Saves
  <2>3. Saves \subseteq Run \X Nat /\ Saves' \subseteq Run \X Nat /\ <<r, n>> \in Run \X Nat
    BY DEF Saves
  <2>4. Saves' = Saves \cup {<<r, n>>} /\ <<r, n>> \notin Saves
    <3>1. <<r, n>> \notin Saves
      BY <1>3 DEF Saves
    <3> QED
      BY <2>2, <2>3, <3>1
  <2>5. IsFiniteSet(Saves') /\ Cardinality(Saves') = Cardinality(Saves) + 1
    BY <2>4, FS_AddElement DEF CountInv
  <2> QED
    BY <2>5, <1>5, <1>6, <1>7 DEF CountInv
<1> QED
  BY <1>4, <1>8, <1>9

LEMMA CountInvInit == Init => CountInv
<1> SUFFICES ASSUME Init PROVE CountInv
  OBVIOUS
<1>1. Saves = {}
  BY DEF Init, Saves
<1>2. IsFiniteSet(Saves) /\ Cardinality(Saves) = 0
  BY <1>1, FS_EmptySet
<1>3. Unused = 0 /\ worker.step \notin Holding
  BY DEF Init, Unused, Holding
<1> QED
  BY <1>2, <1>3, ClaimsAreFinite DEF CountInv, Init, AbsentRow

(* What a statement makes of the rows, and when it may change one that has *)
(* ended.                                                                  *)
LEMMA RowsCounted ==
  ASSUME GoInv, CountInv, [Next]_vars
  PROVE  \A q \in Run :
           /\ row'[q].attempt_number = row[q].attempt_number \/ Claim(q)
           /\ row'[q].status = "absent" => row'[q].attempt_number = 0
           /\ row[q].status \in Terminal /\ row'[q] # row[q] => Reopened(q)
           /\ row'[q].status = "failed" =>
                row[q].status = "failed" \/ worker'.step = "idle"
<1> SUFFICES ASSUME NEW q \in Run
             PROVE  /\ row'[q].attempt_number = row[q].attempt_number \/ Claim(q)
                    /\ row'[q].status = "absent" => row'[q].attempt_number = 0
                    /\ row[q].status \in Terminal /\ row'[q] # row[q] => Reopened(q)
                    /\ row'[q].status = "failed" =>
                         row[q].status = "failed" \/ worker'.step = "idle"
  OBVIOUS
<1>0. /\ row \in [Run -> Row] /\ row[q] \in Row
      /\ row[q].status = "running" <=> row[q].worker_id # None
      /\ row[q].status = "running" <=> row[q].lease # "none"
      /\ row[q].status = "absent" => row[q].attempt_number = 0
  BY DEF GoInv, GoTypeOK, CountInv
<1>1. CASE row' = row
  BY <1>0, <1>1
<1>2. ASSUME NEW r \in Run,
             CreateLifecycleRun(r) \/ RequestCancellation(r) \/ ExpireLease(r) \/ Claim(r)
      PROVE  /\ row'[q].attempt_number = row[q].attempt_number \/ Claim(q)
             /\ row'[q].status = "absent" => row'[q].attempt_number = 0
             /\ row[q].status \in Terminal /\ row'[q] # row[q] => Reopened(q)
             /\ row'[q].status = "failed" => row[q].status = "failed"
  <2>1. CASE q # r
    BY <1>0, <1>2, <2>1 DEF CreateLifecycleRun, RequestCancellation, ExpireLease, Claim
  <2>2. CASE q = r
    <3>1. CASE CreateLifecycleRun(q)
      BY <1>0, <3>1 DEF CreateLifecycleRun, AbsentRow
    <3>2. CASE RequestCancellation(q)
      BY <1>0, <3>2 DEF RequestCancellation, CanceledRow, Row
    <3>3. CASE ExpireLease(q)
      BY <1>0, <3>3 DEF ExpireLease, Row
    <3>4. CASE Claim(q)
      BY <1>0, <3>4 DEF Claim, Claimable, Row
    <3> QED
      BY <1>2, <2>2, <3>1, <3>2, <3>3, <3>4
  <2> QED
    BY <2>1, <2>2
<1>3. CASE Heartbeat
  <2>1. row'[q] = row[q] \/ (Mine(q) /\ row'[q] = [row[q] EXCEPT !.lease = "live"])
    BY <1>0, <1>3 DEF Heartbeat
  <2> QED
    BY <1>0, <2>1 DEF Mine, Row
<1>4. CASE FailLifecycleRun
  <2>1. worker'.step = "idle"
    BY <1>4 DEF FailLifecycleRun, Idle, GoInv, GoTypeOK
  <2>2. worker.run \in Run /\ row[worker.run].status \notin {"completed", "failed"}
    BY <1>4 DEF FailLifecycleRun, GoInv, WorkerOK, CountInv, Holding
  <2>3. \/ row'[q] = row[q]
        \/ /\ worker.run = q
           /\ row'[q] = [row[q] EXCEPT !.status = IF worker.attempt < MaxAttempts
                                                  THEN "queued" ELSE "failed",
                                       !.worker_id = None, !.lease = "none"]
    BY <1>0, <1>4, <2>2 DEF FailLifecycleRun
  <2>4. CASE worker.run = q /\ row'[q] # row[q]
    <3>1. /\ row'[q].status \in {"queued", "failed"}
          /\ row'[q].attempt_number = row[q].attempt_number
      BY <1>0, <2>3, <2>4 DEF Row
    <3> QED
      BY <1>4, <2>1, <2>2, <2>4, <3>1 DEF FailLifecycleRun, Reopened
  <2> QED
    BY <1>0, <2>3, <2>4
<1>5. CASE CompleteLifecycleRun
  <2>1. worker.run \in Run /\ worker.id \in Nat
    BY <1>5 DEF CompleteLifecycleRun, GoInv, GoTypeOK, WorkerOK, Holding
  <2>2. \/ row'[q] = row[q]
        \/ /\ row[q].worker_id = worker.id
           /\ row'[q] = [row[q] EXCEPT !.status = "completed", !.worker_id = None,
                          !.lease = "none", !.result_id = Cardinality(results[q])]
    BY <1>0, <1>5, <2>1 DEF CompleteLifecycleRun
  <2> QED
    BY <1>0, <2>1, <2>2, GoNoneAssumption, ZenonT(40) DEF Row
<1>6. CASE WorkerOnly \/ \E saved, ok \in BOOLEAN : SaveCompletedRun(saved, ok)
  BY <1>1, <1>6 DEF WorkerOnly, Start, Die, ClaimNothing, ReadNothing, Invoke,
              StatementFails, ReadClaimed, CheckCancellation, SaveCompletedRun, vars
<1>7. CASE UNCHANGED vars
  BY <1>1, <1>7 DEF vars
<1> QED
  BY <1>2, <1>3, <1>4, <1>5, <1>6, <1>7 DEF Next, ProcessOne, WorkerOnly

(* Only a claim brings an unused one; a worker that holds a run goes on    *)
(* with the claim it has.                                                  *)
LEMMA OtherStepsCount ==
  ASSUME GoInv, CountInv, [Next]_vars,
         \A r \in Run : ~Claim(r),
         ~ \E saved, ok \in BOOLEAN : SaveCompletedRun(saved, ok)
  PROVE  /\ results' = results /\ Unused' <= Unused
         /\ worker'.step \in Holding =>
              /\ worker.step \in Holding
              /\ worker'.run = worker.run \/ row'[worker'.run].status = "running"
<1>0. worker \in WorkerType
  BY DEF GoInv, GoTypeOK, WorkerType
<1>1. CASE worker' = worker /\ results' = results
  BY <1>1 DEF Unused
<1>2. CASE Start \/ Die
  <2>1. worker'.step \in {"idle", "down"} /\ results' = results
    BY <1>0, <1>2 DEF Start, Die, WorkerType
  <2> QED
    BY <2>1 DEF Unused, Holding
<1>3. CASE Idle /\ results' = results
  <2>1. worker'.step = "idle"
    BY <1>0, <1>3 DEF Idle, WorkerType
  <2> QED
    BY <1>3, <2>1 DEF Unused, Holding
<1>4. CASE \E r \in Run : ReadClaimed(r)
  <2>1. PICK r \in Run : ReadClaimed(r)
    BY <1>4
  <2>2. /\ worker.step = "claimed" /\ worker'.step = "invoking" /\ worker'.run = r
        /\ row'[r].status = "running" /\ results' = results
    BY <1>0, <2>1 DEF ReadClaimed, Mine, WorkerType
  <2> QED
    BY <2>2 DEF Unused, Holding
<1>5. CASE Invoke
  BY <1>0, <1>5 DEF Invoke, WorkerType, Unused, Holding
<1>6. ASSUME NEW readable \in BOOLEAN, CheckCancellation(readable)
      PROVE  \/ Idle /\ results' = results
             \/ /\ worker.step = "checking" /\ worker'.step = "saving"
                /\ worker'.run = worker.run /\ results' = results
  BY <1>0, <1>6 DEF CheckCancellation, WorkerType
<1>7. CASE /\ worker.step = "checking" /\ worker'.step = "saving"
           /\ worker'.run = worker.run /\ results' = results
  BY <1>7 DEF Unused, Holding
<1>8. (\E r \in Run : CreateLifecycleRun(r) \/ RequestCancellation(r) \/ ExpireLease(r))
        \/ Heartbeat \/ ClaimNothing \/ UNCHANGED vars => worker' = worker /\ results' = results
  BY DEF CreateLifecycleRun, RequestCancellation, ExpireLease, Heartbeat, ClaimNothing, vars
<1>9. ReadNothing \/ FailLifecycleRun \/ CompleteLifecycleRun \/ StatementFails =>
        Idle /\ results' = results
  BY DEF ReadNothing, FailLifecycleRun, CompleteLifecycleRun, StatementFails
<1> QED
  BY <1>1, <1>2, <1>3, <1>4, <1>5, <1>6, <1>7, <1>8, <1>9 DEF Next, ProcessOne

LEMMA CountInvNext == GoInv /\ CountInv /\ [Next]_vars => CountInv'
<1> SUFFICES ASSUME GoInv, CountInv, [Next]_vars PROVE CountInv'
  OBVIOUS
<1>0. worker \in WorkerType
  BY DEF GoInv, GoTypeOK, WorkerType
<1>1. \A q \in Run :
        /\ row'[q].attempt_number = row[q].attempt_number \/ Claim(q)
        /\ row'[q].status = "absent" => row'[q].attempt_number = 0
        /\ row'[q].status = "failed" => row[q].status = "failed" \/ worker'.step = "idle"
  BY RowsCounted
<1>2. IsFiniteSet(Saves') /\ Cardinality(Saves') + Unused' <= Cardinality(Claims')
  <2>1. CASE \E r \in Run : Claim(r)
    BY <2>1, ClaimCounted
  <2>2. CASE \E saved, ok \in BOOLEAN : SaveCompletedRun(saved, ok)
    BY <2>2, SaveCounted
  <2>3. CASE (\A r \in Run : ~Claim(r)) /\ ~ \E saved, ok \in BOOLEAN : SaveCompletedRun(saved, ok)
    BY <2>3, <1>1, OtherStepsCount, NothingCounted
  <2> QED
    BY <2>1, <2>2, <2>3
<1>3. worker'.step \in Holding => row'[worker'.run].status # "failed"
  <2>1. CASE \E r \in Run : Claim(r)
    <3>1. PICK r \in Run : Claim(r)
      BY <2>1
    <3>2. worker'.run = r /\ row'[r].status = "running"
      BY <1>0, <3>1 DEF Claim, WorkerType, GoInv, GoTypeOK, Row
    <3> QED
      BY <3>2
  <2>2. ASSUME worker'.run = worker.run, worker.step \in Holding, worker'.step \in Holding
        PROVE  row'[worker'.run].status # "failed"
    <3>1. worker.run \in Run /\ row[worker.run].status # "failed" /\ worker'.step # "idle"
      BY <2>2 DEF GoInv, WorkerOK, CountInv, Holding
    <3> QED
      BY <1>1, <2>2, <3>1
  <2>3. CASE \E saved, ok \in BOOLEAN : SaveCompletedRun(saved, ok)
    <3>1. worker'.run = worker.run /\ worker.step \in Holding
      BY <1>0, <2>3 DEF SaveCompletedRun, WorkerType, Holding
    <3> QED
      BY <2>2, <3>1
  <2>4. CASE (\A r \in Run : ~Claim(r)) /\ ~ \E saved, ok \in BOOLEAN : SaveCompletedRun(saved, ok)
    BY <2>2, <2>4, OtherStepsCount
  <2> QED
    BY <2>1, <2>3, <2>4
<1> QED
  BY <1>1, <1>2, <1>3 DEF CountInv

(* CountInv holds in every reachable state: claims and saves are counted.  *)
THEOREM GoCounts == Spec => []CountInv
BY CountInvInit, CountInvNext, GoInvariant, PTL DEF Spec

(* However often the saves and the statements after them fail, the         *)
(* processes die and the runs are canceled, there is a claim for every row *)
(* of the results table.                                                   *)
THEOREM GoSavesAreClaims == Spec => []SavesAreClaims
<1>1. CountInv => SavesAreClaims
  <2> SUFFICES ASSUME CountInv PROVE SavesAreClaims
    OBVIOUS
  <2>1. Cardinality(Saves) \in Nat /\ Unused \in {0, 1}
    BY FS_CardinalityType DEF CountInv, Unused
  <2>2. Cardinality(Saves) <= Cardinality(Claims)
    BY <2>1, ClaimsAreFinite DEF CountInv
  <2>3. Cardinality(Run) * MaxAttempts \in Nat
    BY ClaimsAreFinite, GoBoundsAssumption
  <2> QED
    BY <2>1, <2>2, <2>3, ClaimsAreFinite DEF SavesAreClaims
<1> QED
  BY <1>1, GoCounts, PTL

(* Completed and failed runs are final, and a cancellation is undone only  *)
(* by the FailLifecycleRun of an attempt of the run it was about.          *)
THEOREM GoEndedIsFinal == Spec => EndedIsFinal
<1>1. GoInv /\ CountInv /\ [Next]_vars =>
        [\A r \in Run : row[r].status \in Terminal => row'[r] = row[r] \/ Reopened(r)]_vars
  BY RowsCounted
<1> QED
  BY <1>1, GoInvariant, GoCounts, PTL DEF Spec, EndedIsFinal
=============================================================================
