------------------------ MODULE LifecycleStoreProofs ------------------------
(***************************************************************************)
(* What the SQL guards of the lifecycle store give for any number of runs, *)
(* workers, results and attempts, and for any sequence of repository calls.*)
(*                                                                         *)
(* The argument is per row.  RowOK says what holds of one row between two  *)
(* transactions, RowStep what one transaction may do to it; EveryRowSteps  *)
(* shows that every action takes every row by a RowStep and writes to the  *)
(* outbox exactly what Announced says.  The theorems follow from that one  *)
(* lemma.                                                                  *)
(***************************************************************************)
EXTENDS LifecycleStore, FiniteSetTheorems, TLAPS

USE DEF DomainState, Terminal, Status, PublicationState, DeliveryStatus

(* One row between two transactions. *)
RowOK(x) ==
  /\ x \in Row
  /\ x.status = "absent" => x = AbsentRow
  /\ x.status = "running" <=> x.worker_id # None
  /\ x.status = "running" <=> x.lease # "none"
  /\ x.status = "running" /\ x.cancel_requested => IsPending(x)
  /\ x.publication_state = "none" <=> x.prepared = None

(* The outbox entry of a row. *)
EventOK(x, e) ==
  /\ e \in Event \cup {None}
  /\ e # None <=> IsTerminal(x) /\ x.callback
  /\ e # None => e.terminal_status = x.status

(* The inductive invariant. *)
StoreInv ==
  /\ row \in [Run -> Row]
  /\ outbox \in [Run -> Event \cup {None}]
  /\ \A r \in Run : RowOK(row[r]) /\ EventOK(row[r], outbox[r])

(* What a transaction may do to one row. *)
RowStep(x, y) ==
  /\ RowOK(y)
  /\ x.callback => y.callback
  /\ IsTerminal(x) => y \in {x, [x EXCEPT !.callback = TRUE]}
  /\ x.prepared # None => y.prepared = x.prepared
  /\ x.status = "running" /\ IsPending(x) =>
       \/ y.status = "running" /\ IsPending(y)
       \/ y.status = "completed" /\ y.publication_state = "published"
       \/ y.status = "failed" /\ y.publication_state = "prepared"

-----------------------------------------------------------------------------
(* The row updates are row steps. *)

(* Leaving a row alone is a row step. *)
LEMMA SameRowStep ==
  ASSUME NEW x, RowOK(x) PROVE RowStep(x, x)
BY DEF RowStep, RowOK

(* A row that is queued or running before the cutoff may be canceled. *)
LEMMA CanceledRowStep ==
  ASSUME NEW x, RowOK(x), ~IsTerminal(x), ~(x.status = "running" /\ IsPending(x))
  PROVE  /\ RowStep(x, CanceledRow(x))
         /\ RowStep(x, [CanceledRow(x) EXCEPT !.cancel_requested = TRUE])
         /\ RowStep(x, [CanceledRow(x) EXCEPT !.result = None])
BY NoneAssumption, ZenonT(40)
   DEF RowStep, RowOK, Row, CanceledRow, Released, IsTerminal, IsPending

(* A running row may fail, with or without a result. *)
LEMMA FailedRowStep ==
  ASSUME NEW x, RowOK(x), x.status = "running"
  PROVE  /\ RowStep(x, FailedRow(x))
         /\ \A b \in Bytes \cup {None} :
              RowStep(x, [FailedRow(x) EXCEPT !.result = b])
<1> DEFINE y == FailedRow(x)
<1>1. RowStep(x, y)
  <2>1. CASE IsPending(x)
    BY <2>1 DEF RowStep, RowOK, Row, FailedRow, Released, IsTerminal, IsPending
  <2>2. CASE ~IsPending(x)
    BY <2>2 DEF RowStep, RowOK, Row, FailedRow, Released, IsTerminal, IsPending
  <2> QED
    BY <2>1, <2>2
<1>2. ASSUME NEW b \in Bytes \cup {None}
      PROVE  RowStep(x, [y EXCEPT !.result = b])
  <2>1. y.status = "failed"
    BY DEF FailedRow, Released, RowOK, Row
  <2> HIDE DEF y
  <2> QED
    BY <1>1, <2>1 DEF RowStep, RowOK, Row, IsTerminal, IsPending
<1> QED
  BY <1>1, <1>2

(* The sweep leaves a row, fails it or cancels it. *)
LEMMA SweptCases ==
  ASSUME NEW x
  PROVE  \/ Swept(x) = x
         \/ x.status = "running" /\ Swept(x) = FailedRow(x)
         \/ /\ x.status = "running"
            /\ ~IsPending(x)
            /\ Swept(x) = CanceledRow(x)
BY DEF Swept, IsPending, CanceledBeforeCutoff

(* The sweep with which a claim begins takes every row by a row step. *)
LEMMA SweptRowStep ==
  ASSUME NEW x, RowOK(x) PROVE RowStep(x, Swept(x))
<1>1. CASE Swept(x) = x
  BY <1>1, SameRowStep
<1>2. CASE x.status = "running" /\ Swept(x) = FailedRow(x)
  BY <1>2, FailedRowStep
<1>3. CASE x.status = "running" /\ ~IsPending(x) /\ Swept(x) = CanceledRow(x)
  BY <1>3, CanceledRowStep DEF IsTerminal
<1> QED
  BY <1>1, <1>2, <1>3, SweptCases

(* A row that can be claimed is one the sweep has left alone. *)
LEMMA SweptClaimable ==
  ASSUME NEW x, RowOK(x), Claimable(Swept(x))
  PROVE  Swept(x) = x
<1>1. Swept(x).status \in {"queued", "running"}
  BY DEF Claimable
<1>2. /\ FailedRow(x).status = "failed"
      /\ CanceledRow(x).status = "canceled"
  BY DEF FailedRow, CanceledRow, Released, RowOK, Row
<1> QED
  BY <1>1, <1>2, SweptCases

(* The updates of the other statements. *)
LEMMA ClaimedRowStep ==
  ASSUME NEW x, RowOK(x), NEW w \in Worker, Claimable(x)
  PROVE  RowStep(x, ClaimedRow(x, w))
<1>1. /\ x.attempt_number < MaxAttempts
      /\ x.attempt_number \in 0 .. MaxAttempts
  BY DEF Claimable, RowOK, Row
<1>2. x.attempt_number + 1 \in 0 .. MaxAttempts
  BY <1>1, MaxAttemptsAssumption
<1>3. ~IsTerminal(x) /\ (x.cancel_requested => IsPending(x))
  BY DEF Claimable, IsTerminal
<1> QED
  BY <1>2, <1>3, NoneAssumption, ZenonT(40)
     DEF RowStep, RowOK, Row, ClaimedRow, IsTerminal, IsPending

(* complete_lifecycle_run takes an owned row by a row step. *)
LEMMA CompletedRowStep ==
  ASSUME NEW x, RowOK(x), NEW b \in Bytes, x.status = "running"
  PROVE  RowStep(x, CompletedRow(x, b))
<1>1. TerminalStateOf[b] \in DomainState
  BY BytesAssumption
<1>2. CASE IsPending(x)
  BY <1>1, <1>2
     DEF RowStep, RowOK, Row, CompletedRow, Released, IsTerminal, IsPending
<1>3. CASE ~IsPending(x)
  BY <1>1, <1>3, ZenonT(40)
     DEF RowStep, RowOK, Row, CompletedRow, Released, IsTerminal, IsPending
<1> QED
  BY <1>2, <1>3

(* cancel_lifecycle_run takes every row by a row step. *)
LEMMA CancellationRowStep ==
  ASSUME NEW x, RowOK(x)
  PROVE  RowStep(x, CancellationOf(x))
<1>1. CASE x.status = "queued" \/ (x.status = "running" /\ ~IsPending(x))
  BY <1>1, CanceledRowStep DEF CancellationOf, IsTerminal
<1>2. CASE x.status = "running" /\ IsPending(x)
  <2> DEFINE y == [x EXCEPT !.cancel_requested = TRUE]
  <2>1. CancellationOf(x) = y
    BY <1>2 DEF CancellationOf
  <2>2. RowStep(x, y)
    BY <1>2 DEF RowStep, RowOK, Row, IsTerminal, IsPending
  <2> QED
    BY <2>1, <2>2
<1>3. CASE x.status \notin {"queued", "running"}
  BY <1>3, SameRowStep DEF CancellationOf
<1> QED
  BY <1>1, <1>2, <1>3

-----------------------------------------------------------------------------
(* The actions take every row by a row step. *)

(* A transaction: every row steps, every outbox entry is what Announced    *)
(* makes of the new row.                                                   *)
Stepped ==
  /\ row' \in [Run -> Row]
  /\ outbox' = [q \in Run |-> Announced(row'[q], outbox[q])]
  /\ \A q \in Run : RowStep(row[q], row'[q])

(* An entry that agrees with its row stays as it is. *)
LEMMA AnnouncedAgain ==
  ASSUME NEW x, NEW e, EventOK(x, e)
  PROVE  Announced(x, e) = e
BY DEF EventOK, Announced

(* Leaving the store alone steps no row. *)
LEMMA NothingSteps ==
  ASSUME StoreInv, UNCHANGED storeVars
  PROVE  Stepped
<1>1. \A q \in Run : outbox[q] = Announced(row[q], outbox[q])
  BY AnnouncedAgain DEF StoreInv
<1>2. outbox' = [q \in Run |-> Announced(row'[q], outbox[q])]
  BY <1>1 DEF StoreInv, storeVars
<1> QED
  BY <1>2, SameRowStep DEF StoreInv, Stepped, storeVars

(* An UPDATE with its outbox insert steps one row. *)
LEMMA WriteSteps ==
  ASSUME StoreInv, NEW r \in Run, NEW y, RowStep(row[r], y), Write(r, y)
  PROVE  Stepped
<1>1. y \in Row
  BY DEF RowStep, RowOK
<1>2. row' \in [Run -> Row] /\ row' = [row EXCEPT ![r] = y]
  BY <1>1 DEF StoreInv, Write
<1>3. \A q \in Run : q # r => outbox[q] = Announced(row[q], outbox[q])
  BY AnnouncedAgain DEF StoreInv
<1>4. outbox' = [q \in Run |-> Announced(row'[q], outbox[q])]
  BY <1>2, <1>3 DEF StoreInv, Write
<1>5. \A q \in Run : RowStep(row[q], row'[q])
  BY <1>2, SameRowStep DEF StoreInv
<1> QED
  BY <1>2, <1>4, <1>5 DEF Stepped

(* An UPDATE of a run that is not ended by it needs no outbox insert. *)
LEMMA QuietSteps ==
  ASSUME StoreInv, NEW r \in Run, NEW y, RowStep(row[r], y), ~IsTerminal(y),
         WriteQuietly(r, y)
  PROVE  Stepped
<1>1. Announced(y, outbox[r]) = outbox[r]
  BY DEF Announced
<1>2. Write(r, y)
  BY <1>1 DEF Write, WriteQuietly, StoreInv
<1> QED
  BY <1>2, WriteSteps

(* A claim that finds no run steps the rows it sweeps. *)
LEMMA ClaimNothingSteps ==
  ASSUME StoreInv, ClaimNothing
  PROVE  Stepped
<1>1. \A q \in Run : RowStep(row[q], Swept(row[q]))
  BY SweptRowStep DEF StoreInv
<1>2. \A q \in Run : Swept(row[q]) \in Row
  BY <1>1 DEF RowStep, RowOK
<1> QED
  BY <1>1, <1>2 DEF ClaimNothing, Stepped

(* A claim steps the rows it sweeps and the one it claims. *)
LEMMA ClaimRunSteps ==
  ASSUME StoreInv, NEW w \in Worker, NEW r \in Run, ClaimLifecycleRun(w, r)
  PROVE  Stepped
<1>1. \A q \in Run : RowStep(row[q], Swept(row[q]))
  BY SweptRowStep DEF StoreInv
<1>2. RowOK(row[r]) /\ Swept(row[r]) = row[r] /\ Claimable(row[r])
  BY SweptClaimable DEF StoreInv, ClaimLifecycleRun
<1>3. RowStep(row[r], ClaimedRow(row[r], w))
  BY <1>2, ClaimedRowStep
<1>4. \A q \in Run : RowStep(row[q], row'[q])
  BY <1>1, <1>2, <1>3 DEF ClaimLifecycleRun
<1>5. row' \in [Run -> Row]
  BY <1>4 DEF RowStep, RowOK, ClaimLifecycleRun
<1>6. ~IsTerminal(row[r]) /\ ~IsTerminal(ClaimedRow(row[r], w))
  BY <1>2 DEF Claimable, ClaimedRow, IsTerminal, RowOK, Row
<1>7. \A q \in Run : Announced(Swept(row[q]), outbox[q])
                       = Announced(row'[q], outbox[q])
  BY <1>2, <1>6 DEF ClaimLifecycleRun, Announced
<1>8. outbox' = [q \in Run |-> Announced(row'[q], outbox[q])]
  BY <1>7 DEF ClaimLifecycleRun
<1> QED
  BY <1>4, <1>5, <1>8 DEF Stepped

(* Creating a run steps its row. *)
LEMMA CreateSteps ==
  ASSUME StoreInv, NEW r \in Run, NEW cb \in BOOLEAN, CreateLifecycleRun(r, cb)
  PROVE  Stepped
<1> DEFINE count == Cardinality({q \in Run : row[q].status # "absent"})
           y == [AbsentRow EXCEPT !.status = "queued", !.callback = cb,
                                  !.created_at = 1 + count]
<1>1. count \in Nat
  BY RunAssumption, FS_Subset, FS_CardinalityType
<1>2. 1 + count \in Nat
  BY <1>1
<1>3. RowOK(y) /\ ~IsTerminal(y)
  <2> HIDE DEF count
  <2>1. AbsentRow \in Row
    BY MaxAttemptsAssumption, 0 \in 0 .. MaxAttempts DEF AbsentRow, Row
  <2>2. /\ y \in Row
        /\ y.status = "queued"
        /\ y.worker_id = None
        /\ y.lease = "none"
        /\ y.publication_state = "none"
        /\ y.prepared = None
    BY <1>2, <2>1 DEF AbsentRow, Row
  <2> QED
    BY <2>2 DEF RowOK, IsTerminal
<1>4. row[r].prepared = None /\ ~row[r].callback /\ row[r].status = "absent"
  BY DEF CreateLifecycleRun, StoreInv, RowOK, AbsentRow
<1>5. RowStep(row[r], y)
  BY <1>3, <1>4 DEF RowStep, IsTerminal
<1> QED
  BY <1>3, <1>5, QuietSteps DEF CreateLifecycleRun

(* Binding callback metadata steps its row. *)
LEMMA BindSteps ==
  ASSUME StoreInv, NEW r \in Run, BindCallback(r)
  PROVE  Stepped
<1> DEFINE x == row[r]
           y == [x EXCEPT !.callback = TRUE]
<1>1. RowOK(x) /\ x.status # "absent" /\ Write(r, y)
  BY DEF StoreInv, BindCallback
<1>2. RowStep(x, y)
  BY <1>1, ZenonT(40) DEF RowStep, RowOK, Row, IsTerminal, IsPending
<1> QED
  BY <1>1, <1>2, WriteSteps

(* The writes of an owner to a row that stays running. *)
LEMMA OwnerSteps ==
  ASSUME StoreInv, NEW r \in Run, NEW w \in Worker, NEW n \in 1 .. MaxAttempts
  PROVE  /\ HeartbeatLifecycleRun(r, w, n) => Stepped
         /\ BeginLifecyclePublication(r, w, n) => Stepped
         /\ \A b \in Bytes : PrepareLifecyclePublication(r, w, n, b) => Stepped
<1> DEFINE x == row[r]
<1>0. RowOK(x)
  BY DEF StoreInv
<1>1. ASSUME HeartbeatLifecycleRun(r, w, n) PROVE Stepped
  <2> DEFINE y == [x EXCEPT !.lease = "live"]
  <2>1. x.status = "running" /\ WriteQuietly(r, y)
    BY <1>1 DEF HeartbeatLifecycleRun, OwnedBy
  <2>2. RowStep(x, y) /\ ~IsTerminal(y)
    BY <1>0, <2>1 DEF RowStep, RowOK, Row, IsTerminal, IsPending
  <2> QED
    BY <2>1, <2>2, QuietSteps
<1>2. ASSUME BeginLifecyclePublication(r, w, n) PROVE Stepped
  <2> DEFINE y == [x EXCEPT !.publication_state = "publication-pending"]
  <2>1. /\ x.status = "running" /\ x.publication_state = "prepared"
        /\ WriteQuietly(r, y)
    BY <1>2 DEF BeginLifecyclePublication, CanBegin, OwnedBy
  <2>2. RowStep(x, y) /\ ~IsTerminal(y)
    BY <1>0, <2>1 DEF RowStep, RowOK, Row, IsTerminal, IsPending
  <2> QED
    BY <2>1, <2>2, QuietSteps
<1>3. ASSUME NEW b \in Bytes, PrepareLifecyclePublication(r, w, n, b)
      PROVE  Stepped
  <2> DEFINE y == [x EXCEPT !.publication_state = "prepared", !.prepared = b]
  <2>1. /\ x.status = "running" /\ x.publication_state = "none"
        /\ ~x.cancel_requested
        /\ WriteQuietly(r, y)
    BY <1>3 DEF PrepareLifecyclePublication, CanPrepare, OwnedBy
  <2>2. RowStep(x, y) /\ ~IsTerminal(y)
    BY <1>0, <2>1, NoneAssumption DEF RowStep, RowOK, Row, IsTerminal, IsPending
  <2> QED
    BY <2>1, <2>2, QuietSteps
<1> QED
  BY <1>1, <1>2, <1>3

(* The writes that end a run. *)
LEMMA EndingSteps ==
  ASSUME StoreInv, NEW r \in Run, NEW w \in Worker, NEW n \in 1 .. MaxAttempts
  PROVE  /\ \A b \in Bytes : CompleteLifecycleRun(r, w, n, b) => Stepped
         /\ \A b \in Bytes \cup {None} : FailLifecycleRun(r, w, n, b) => Stepped
<1> DEFINE x == row[r]
<1>0. RowOK(x)
  BY DEF StoreInv
<1>2. ASSUME NEW b \in Bytes, CompleteLifecycleRun(r, w, n, b) PROVE Stepped
  <2>1. CASE CancelsAtCompletion(x, w, n)
    <3>1. Write(r, CanceledRow(x)) /\ x.status = "running" /\ ~IsPending(x)
      BY <1>2, <2>1
         DEF CompleteLifecycleRun, CompletionOf, CancelsAtCompletion, OwnedBy
    <3> QED
      BY <1>0, <3>1, CanceledRowStep, WriteSteps DEF IsTerminal
  <2>2. CASE ~CancelsAtCompletion(x, w, n)
    <3>1. Write(r, CompletedRow(x, b)) /\ x.status = "running"
      BY <1>2, <2>2 DEF CompleteLifecycleRun, CompletionOf, CanComplete, OwnedBy
    <3> QED
      BY <1>0, <3>1, CompletedRowStep, WriteSteps
  <2> QED
    BY <2>1, <2>2
<1>3. ASSUME NEW b \in Bytes \cup {None}, FailLifecycleRun(r, w, n, b)
      PROVE  Stepped
  <2>1. x.status = "running" /\ Write(r, FailureOf(x, b))
    BY <1>3 DEF FailLifecycleRun, CanFail, OwnedBy
  <2>2. CASE ~IsPending(x) /\ x.cancel_requested
    BY <1>0, <2>1, <2>2, CanceledRowStep, WriteSteps DEF FailureOf, IsTerminal
  <2>3. CASE ~(~IsPending(x) /\ x.cancel_requested)
    BY <1>0, <2>1, <2>3, FailedRowStep, WriteSteps DEF FailureOf
  <2> QED
    BY <2>2, <2>3
<1> QED
  BY <1>2, <1>3

(* Canceling a run steps its row. *)
LEMMA CancelSteps ==
  ASSUME StoreInv, NEW r \in Run, CancelLifecycleRun(r)
  PROVE  Stepped
BY CancellationRowStep, WriteSteps DEF StoreInv, CancelLifecycleRun

(* A lease that runs out steps its row. *)
LEMMA ExpireSteps ==
  ASSUME StoreInv, NEW r \in Run, ExpireLease(r)
  PROVE  Stepped
<1> DEFINE x == row[r]
           y == [x EXCEPT !.lease = "expired"]
<1>1. RowOK(x) /\ x.lease = "live" /\ WriteQuietly(r, y)
  BY DEF StoreInv, ExpireLease, LeaseLive
<1>2. x.status = "running"
  BY <1>1 DEF RowOK
<1>3. RowStep(x, y) /\ ~IsTerminal(y)
  BY <1>1, <1>2 DEF RowStep, RowOK, Row, IsTerminal, IsPending
<1> QED
  BY <1>1, <1>3, QuietSteps

(* Every step of the store, and every stuttering step, is a transaction. *)
LEMMA EveryRowSteps ==
  ASSUME StoreInv, [Next]_storeVars
  PROVE  Stepped
<1>1. CASE UNCHANGED storeVars
  BY <1>1, NothingSteps
<1>2. CASE ClaimNothing
  BY <1>2, ClaimNothingSteps
<1>3. ASSUME NEW r \in Run,
             \/ \E cb \in BOOLEAN : CreateLifecycleRun(r, cb)
             \/ BindCallback(r)
             \/ CancelLifecycleRun(r)
             \/ ExpireLease(r)
      PROVE  Stepped
  BY <1>3, CreateSteps, BindSteps, CancelSteps, ExpireSteps
<1>4. ASSUME NEW r \in Run, NEW w \in Worker, ClaimLifecycleRun(w, r)
      PROVE  Stepped
  BY <1>4, ClaimRunSteps
<1>5. ASSUME NEW r \in Run, NEW w \in Worker, NEW n \in 1 .. MaxAttempts,
             \/ HeartbeatLifecycleRun(r, w, n)
             \/ BeginLifecyclePublication(r, w, n)
             \/ FailLifecycleRun(r, w, n, None)
             \/ \E b \in Bytes : \/ PrepareLifecyclePublication(r, w, n, b)
                                 \/ CompleteLifecycleRun(r, w, n, b)
                                 \/ FailLifecycleRun(r, w, n, b)
      PROVE  Stepped
  BY <1>5, OwnerSteps, EndingSteps
<1> QED
  BY <1>1, <1>2, <1>3, <1>4, <1>5 DEF Next

(* The outbox entry of the new row agrees with it. *)
LEMMA SteppedEvent ==
  ASSUME NEW x, NEW y, NEW e, EventOK(x, e), RowStep(x, y)
  PROVE  EventOK(y, Announced(y, e))
<1>1. CASE e = None
  <2>1. CASE IsTerminal(y) /\ y.callback
    <3> DEFINE f == [terminal_status |-> y.status, delivery_status |-> "pending",
                     attempts |-> 0]
    <3>1. Announced(y, e) = f /\ f \in Event
      BY <1>1, <2>1 DEF Announced, Event, IsTerminal
    <3> QED
      BY <2>1, <3>1, NoneAssumption DEF EventOK
  <2>2. CASE ~(IsTerminal(y) /\ y.callback)
    BY <1>1, <2>2 DEF EventOK, Announced
  <2> QED
    BY <2>1, <2>2
<1>2. CASE e # None
  <2>1. IsTerminal(x) /\ x.callback /\ e.terminal_status = x.status /\ e \in Event
    BY <1>2 DEF EventOK
  <2>2. y.callback /\ y.status = x.status
    BY <2>1 DEF RowStep, RowOK, Row
  <2> QED
    BY <1>2, <2>1, <2>2 DEF EventOK, Announced, IsTerminal
<1> QED
  BY <1>1, <1>2

-----------------------------------------------------------------------------
(* The theorems. *)

(* The empty store satisfies the invariant. *)
LEMMA StoreInvInit == Init => StoreInv
<1> SUFFICES ASSUME Init PROVE StoreInv
  OBVIOUS
<1>1. AbsentRow \in Row
  BY MaxAttemptsAssumption, 0 \in 0 .. MaxAttempts DEF AbsentRow, Row
<1>2. RowOK(AbsentRow) /\ ~IsTerminal(AbsentRow)
  BY <1>1 DEF RowOK, AbsentRow, IsTerminal
<1>3. EventOK(AbsentRow, None)
  BY <1>2 DEF EventOK
<1> QED
  BY <1>1, <1>2, <1>3 DEF Init, StoreInv

(* Every transaction keeps the invariant. *)
LEMMA StoreInvNext == StoreInv /\ [Next]_storeVars => StoreInv'
<1> SUFFICES ASSUME StoreInv, [Next]_storeVars PROVE StoreInv'
  OBVIOUS
<1>1. Stepped
  BY EveryRowSteps
<1>2. \A q \in Run : RowOK(row'[q])
  BY <1>1 DEF Stepped, RowStep
<1>3. \A q \in Run : EventOK(row'[q], outbox'[q])
  BY <1>1, SteppedEvent DEF Stepped, StoreInv
<1>4. outbox' \in [Run -> Event \cup {None}]
  BY <1>1, <1>3 DEF Stepped, EventOK
<1> QED
  BY <1>1, <1>2, <1>3, <1>4 DEF Stepped, StoreInv

(* StoreInv is an invariant of the store. *)
THEOREM StoreInvariant == Spec => []StoreInv
BY StoreInvInit, StoreInvNext, PTL DEF Spec

(* Every row and every event keeps its type: in particular no sequence of  *)
(* repository calls claims a run more than MaxAttempts times.              *)
THEOREM StoreTypeCorrect == Spec => []TypeOK
<1>1. StoreInv => TypeOK
  BY DEF StoreInv, TypeOK
<1> QED
  BY <1>1, StoreInvariant, PTL

(* A run is owned exactly while it is running. *)
THEOREM StoreOwnership == Spec => []OwnedWhileRunning
<1>1. StoreInv => OwnedWhileRunning
  BY DEF StoreInv, RowOK, OwnedWhileRunning
<1> QED
  BY <1>1, StoreInvariant, PTL

(* A cancellation recorded on a running run came after its cutoff. *)
THEOREM StoreCutoff == Spec => []CancelRequestedOnlyPastCutoff
<1>1. StoreInv => CancelRequestedOnlyPastCutoff
  BY DEF StoreInv, RowOK, CancelRequestedOnlyPastCutoff
<1> QED
  BY <1>1, StoreInvariant, PTL

(* A run with a callback address has an event exactly when it has ended,   *)
(* and the event reports the status it ended with.                         *)
THEOREM StoreOutbox == Spec => []OutboxTellsTheTruth
<1>1. StoreInv => OutboxTellsTheTruth
  BY DEF StoreInv, EventOK, OutboxTellsTheTruth
<1> QED
  BY <1>1, StoreInvariant, PTL

(* No repository call changes a run that has ended. *)
THEOREM StoreTerminalIsFinal == Spec => TerminalIsFinal
<1>1. StoreInv /\ [Next]_storeVars
        => [\A r \in Run : IsTerminal(row[r]) =>
              row'[r] \in {row[r], [row[r] EXCEPT !.callback = TRUE]}]_storeVars
  BY EveryRowSteps DEF Stepped, RowStep
<1> QED
  BY <1>1, StoreInvariant, PTL DEF Spec, TerminalIsFinal

(* No repository call replaces staged bytes. *)
THEOREM StorePreparedIsWriteOnce == Spec => PreparedIsWriteOnce
<1>1. StoreInv /\ [Next]_storeVars
        => [\A r \in Run : row[r].prepared # None =>
              row'[r].prepared = row[r].prepared]_storeVars
  BY EveryRowSteps DEF Stepped, RowStep
<1> QED
  BY <1>1, StoreInvariant, PTL DEF Spec, PreparedIsWriteOnce

(* Past the cutoff a run completes or fails; it is never canceled. *)
THEOREM StoreCompletionBeatsCancel == Spec => CompletionBeatsCancel
<1>1. StoreInv /\ [Next]_storeVars
        => [\A r \in Run : row[r].status = "running" /\ IsPending(row[r]) =>
              \/ row'[r].status = "running" /\ IsPending(row'[r])
              \/ row'[r].status = "completed" /\ row'[r].publication_state = "published"
              \/ row'[r].status = "failed" /\ row'[r].publication_state = "prepared"]_storeVars
  BY EveryRowSteps DEF Stepped, RowStep
<1> QED
  BY <1>1, StoreInvariant, PTL DEF Spec, CompletionBeatsCancel
=============================================================================
