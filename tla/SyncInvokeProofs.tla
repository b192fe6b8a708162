-------------------------- MODULE SyncInvokeProofs --------------------------
(***************************************************************************)
(* Invocations and publications over the result sinks, for any number of   *)
(* calls, keys and request contents: answers are durable and fit their     *)
(* requests, publications are held, conflicts are real, and invocations    *)
(* with one key agree.                                                     *)
(***************************************************************************)
EXTENDS SyncInvoke, FiniteSetTheorems, WellFoundedInduction, TLAPS

Step == {"new"} \cup Busy \cup Ended

(* The calls that have a start time, and the results that have a name. *)
Begun == {c \in Call : call[c].started_at > 0}
Made(r) == call[r].makes = r /\ call[r].started_at > 0

WorkerStep == {"staging", "answered", "lost"} \cup Saving \cup Permanent

RequestOK(c) ==
  /\ call[c].step = "new" => call[c].key = None
  /\ call[c].step \in {"new", "lookup", "translate"} =>
       call[c].origin = "invoke" /\ call[c].started_at = 0
  /\ call[c].step \in {"lookup", "recover"} => call[c].key # None
  /\ call[c].step = "staging" => call[c].origin = "worker"
  /\ call[c].step \in {"staging", "recover"} \cup Saving => call[c].started_at > 0
  /\ call[c].origin = "worker" => call[c].step \in WorkerStep

(* An invocation saves its own result, an attempt that of its run. *)
MakesOK(c) ==
  /\ call[c].origin = "invoke" => call[c].makes = c
  /\ call[c].origin = "worker" =>
       /\ call[c].key # None
       /\ Made(call[c].makes)
       /\ call[call[c].makes].origin = "worker"
       /\ call[call[c].makes].key = call[c].key
       /\ call[call[c].makes].kind = call[c].kind
       /\ call[call[c].makes].input = call[c].input
       /\ call[call[c].makes].started_at = call[c].started_at

OneRunPerKey ==
  \A c, d \in Call : /\ call[c].origin = "worker" /\ call[d].origin = "worker"
                     /\ call[c].key = call[d].key
                     => call[c].makes = call[d].makes

OneResultPerTime ==
  \A r, s \in Call : /\ Made(r) /\ Made(s)
                     /\ call[r].started_at = call[s].started_at
                     => r = s

(* Who is who: the part of the invariant that is about the calls alone. *)
IdentityInv ==
  /\ SyncTypeOK
  /\ \A c \in Call : /\ RequestOK(c) /\ MakesOK(c)
                     /\ call[c].started_at <= Cardinality(Begun)
  /\ OneRunPerKey
  /\ OneResultPerTime
  /\ \A r \in stored \cup late : Made(r)

(* Where a save can be, and how it can end, with each sink. *)
Fits(step, m) ==
  /\ step \in {"merge", "readback"} => backend = "databricks"
  /\ step \in {"upload", "register", "resolve"} \cup Permanent =>
       backend = "workflow-lab"
  /\ step \in {"check", "insert"} =>
       /\ backend # "databricks"
       /\ backend = "workflow-lab" => lab[m] = "ours"
  /\ step = "publication_conflict" => lab[m] = "foreign"

AnswerOK(c) ==
  call[c].step = "answered" =>
    /\ call[c].result \in stored
    /\ call[call[c].result].input = call[c].input
    /\ call[call[c].result].key = call[c].key
    /\ call[c].origin = "worker" => call[c].result = call[c].makes

(* What the sink holds: the part about the calls and the sink. *)
HeldInv ==
  /\ \A c \in Call : Fits(call[c].step, call[c].makes) /\ AnswerOK(c)
  /\ backend = "workflow-lab" =>
       \A c \in Call : call[c].origin = "invoke" => call[c].step = "new"
  /\ LocalFollowsLab
  /\ backend = "sqlite" =>
       \A r, s \in stored : call[r].key = call[s].key /\ call[r].key # None => r = s

(* The order of the rows of a key, when there is no unique index and calls *)
(* with the key do not overlap: one result at a time is in progress and    *)
(* will be later than every row, an invocation that goes on after its      *)
(* lookup is the only one to have saved, and the answers are the first     *)
(* row.                                                                    *)
OneInProgress(k) ==
  \A c, d \in InProgress(k) : call[c].makes = call[d].makes

ComesLater(k) ==
  \A c \in InProgress(k) :
    call[c].started_at > 0 /\ call[c].makes \notin stored =>
      \A r \in RowsOf(k) : call[r].started_at < call[c].started_at

SavesAlone(c) ==
  call[c].step \in {"translate", "recover"} \cup Saving =>
    RowsOf(call[c].key) \subseteq {c}

AnsweredFirst(c) ==
  call[c].step = "answered" =>
    /\ call[c].result \in RowsOf(call[c].key)
    /\ \A r \in RowsOf(call[c].key) :
         call[call[c].result].started_at <= call[r].started_at

OrderOK(k) ==
  /\ OneInProgress(k)
  /\ ComesLater(k)
  /\ \A c \in Call : /\ call[c].origin = "invoke"
                     /\ call[c].kind = "v1" /\ call[c].key = k
                     => SavesAlone(c) /\ AnsweredFirst(c)

OrderInv == backend = "databricks" => \A k \in Key \ overlapped : OrderOK(k)

(* The inductive invariant. *)
SyncInv == IdentityInv /\ HeldInv /\ OrderInv

-----------------------------------------------------------------------------
(* Steps. *)

(* What no step changes of a call that has begun, and of the others. *)
SameCall(d) == call'[d] = call[d]
SameRequest(d) ==
  /\ call'[d].origin = call[d].origin /\ call'[d].kind = call[d].kind
  /\ call'[d].key = call[d].key /\ call'[d].input = call[d].input
  /\ call'[d].makes = call[d].makes /\ call'[d].started_at = call[d].started_at

(* How a save changes the sink: it adds its own result at most, to the     *)
(* table or to what is under way, and registrations stay.                  *)
SinkGrows(m) ==
  /\ backend' = backend
  /\ stored \subseteq stored' /\ stored' \subseteq stored \cup {m}
  /\ late' \subseteq late \cup {m}
  /\ \A r \in Call : lab'[r] # lab[r] => lab[r] = "absent" /\ lab'[r] = "ours"
  /\ lab' \in [Call -> Registration]

(* How a step answers a call: as before, with the result it has just       *)
(* saved, or with the first row of its key.                                *)
Answers(c, result) ==
  \/ call[c].step = "answered" /\ result = call[c].result
  \/ /\ call[c].step \in Saving
     /\ result = call[c].makes /\ result \in stored'
  \/ /\ call[c].step \in {"lookup", "recover"}
     /\ Matches(c, result)
     /\ result \in RowsOf(call[c].key)
     /\ \A r \in RowsOf(call[c].key) : call[result].started_at <= call[r].started_at
     /\ stored' = stored

(* A step of one call in progress that moves the call, ends it, or writes  *)
(* into the sink for it.                                                   *)
Moves(c, step, result) ==
  /\ call' \in [Call -> CallRecord]
  /\ call'[c].step = step /\ call'[c].result = result
  /\ SameRequest(c) /\ \A d \in Call \ {c} : SameCall(d)
  /\ overlapped' = overlapped
  /\ call[c].step \in Busy \/ (call[c].makes \in late /\ SameCall(c))
  /\ SinkGrows(call[c].makes)
  /\ Made(call[c].makes) \/ UNCHANGED <<stored, late>>
  /\ step = "answered" <=> result # None
  /\ step = "answered" => Answers(c, result)
  /\ step \notin {"new", "lookup"}
  /\ step = "translate" => call[c].step = "lookup" /\ RowsOf(call[c].key) = {}
  /\ call[c].step = "lookup" => step \in {"translate"} \cup Ended
  /\ step = "recover" => call[c].key # None
  /\ step = "staging" => call[c].origin = "worker"
  /\ step \in {"staging", "recover"} \cup Saving => call[c].started_at > 0
  /\ call[c].origin = "worker" => step \in WorkerStep
  /\ Fits(step, call[c].makes)'
  /\ stored' # stored =>
       /\ backend = "workflow-lab" => lab'[call[c].makes] = "ours"
       /\ backend = "sqlite" /\ call[c].key # None =>
            \A r \in stored : call[r].key # call[c].key

(* A match has the kind and the content of the call, whichever of the two  *)
(* hashes its row has: they agree only where they hash the same text.      *)
LEMMA MatchIsOwn ==
  ASSUME NEW c, NEW e, Matches(c, e)
  PROVE  e # None /\ call[e].kind = call[c].kind /\ call[e].input = call[c].input
<1>1. e # None /\ RequestHash(e) = CanonicalRequestHash(c)
  BY DEF Matches
<1>2. CanonicalRequestHash(c).form = "canonical"
  BY DEF CanonicalRequestHash
<1>3. RequestHash(e) = CanonicalRequestHash(e)
  <2>1. [CanonicalRequestHash(e) EXCEPT !.form = "normalized"].form = "normalized"
    BY DEF CanonicalRequestHash
  <2> QED
    BY <1>1, <1>2, <2>1 DEF RequestHash, NormalizedRequestDigest
<1> QED
  BY <1>1, <1>3 DEF CanonicalRequestHash

(* A step of one call that has begun: only where it is and its answer      *)
(* change.                                                                 *)
LEMMA EndFields ==
  ASSUME call \in [Call -> CallRecord], NEW c \in Call, NEW step \in Step,
         NEW result \in Call \cup {None}, End(c, step, result)
  PROVE  /\ call' \in [Call -> CallRecord]
         /\ call'[c].step = step /\ call'[c].result = result
         /\ SameRequest(c)
         /\ \A d \in Call \ {c} : SameCall(d)
<1>1. call[c] \in CallRecord
  OBVIOUS
<1> DEFINE x == [[call[c] EXCEPT !.step = step] EXCEPT !.result = result]
<1>2. /\ x \in CallRecord /\ x.step = step /\ x.result = result
      /\ x.origin = call[c].origin /\ x.kind = call[c].kind
      /\ x.key = call[c].key /\ x.input = call[c].input
      /\ x.makes = call[c].makes /\ x.started_at = call[c].started_at
  BY <1>1 DEF CallRecord, Step
<1>3. call' = [call EXCEPT ![c] = x]
  BY DEF End
<1> HIDE DEF x
<1> QED
  BY <1>2, <1>3 DEF SameRequest, SameCall

LEMMA MovesFields ==
  ASSUME NEW c \in Call, NEW step, NEW result, Moves(c, step, result)
  PROVE  \A d \in Call : /\ SameRequest(d)
                         /\ d # c => SameCall(d)
BY DEF Moves, SameRequest, SameCall

(* Such a step leaves open who is who to nobody. *)
LEMMA IdentityKept ==
  ASSUME IdentityInv, NEW c \in Call, NEW step, NEW result, Moves(c, step, result)
  PROVE  IdentityInv'
<1>0. SyncTypeOK /\ call \in [Call -> CallRecord]
  BY DEF IdentityInv, SyncTypeOK
<1>1. \A d \in Call : SameRequest(d) /\ (d # c => SameCall(d))
  BY MovesFields
<1>2. Begun' = Begun /\ \A r \in Call : Made(r)' <=> Made(r)
  BY <1>1 DEF Begun, Made, SameRequest
<1>m. call[c].makes \in Call
  BY <1>0 DEF CallRecord
<1>3. SyncTypeOK'
  <2>1. SinkTypeOK'
    BY <1>0, <1>m DEF Moves, SinkGrows, SyncTypeOK, SinkTypeOK
  <2> QED
    BY <1>0, <1>1, <2>1 DEF Moves, SyncTypeOK, SameCall
<1>4. ASSUME NEW d \in Call
      PROVE  RequestOK(d)' /\ MakesOK(d)' /\ call'[d].started_at <= Cardinality(Begun')
  <2>0. RequestOK(d) /\ MakesOK(d) /\ call[d].makes \in Call
    BY <1>0 DEF IdentityInv, CallRecord
  <2>1. RequestOK(d)'
    <3>1. CASE d = c
      BY <1>1, <1>2, <2>0, <3>1 DEF Moves, RequestOK, SameRequest, Saving
    <3>2. CASE d # c
      BY <1>1, <1>2, <2>0, <3>2 DEF RequestOK, SameRequest, SameCall
    <3> QED
      BY <3>1, <3>2
  <2>2. MakesOK(d)'
    BY <1>1, <1>2, <2>0 DEF MakesOK, SameRequest
  <2>3. call'[d].started_at <= Cardinality(Begun')
    BY <1>1, <1>2 DEF IdentityInv, SameRequest
  <2> QED
    BY <2>1, <2>2, <2>3
<1>5. OneRunPerKey' /\ OneResultPerTime'
  BY <1>1, <1>2 DEF IdentityInv, OneRunPerKey, OneResultPerTime, SameRequest
<1>6. \A r \in (stored \cup late)' : Made(r)'
  BY <1>0, <1>2, <1>m DEF IdentityInv, Moves, SinkGrows, SyncTypeOK, SinkTypeOK
<1> QED
  BY <1>3, <1>4, <1>5, <1>6 DEF IdentityInv

(* A result belongs to the request of every call that saves it. *)
LEMMA ResultOfCall ==
  ASSUME IdentityInv, NEW c \in Call
  PROVE  /\ call[c].makes \in Call
         /\ call[call[c].makes].makes = call[c].makes
         /\ call[call[c].makes].key = call[c].key
         /\ call[call[c].makes].kind = call[c].kind
         /\ call[call[c].makes].input = call[c].input
         /\ call[call[c].makes].started_at = call[c].started_at
<1>1. call[c] \in CallRecord /\ MakesOK(c)
  BY DEF IdentityInv, SyncTypeOK
<1>2. call[c].makes \in Call /\ call[c].origin \in {"invoke", "worker"}
  BY <1>1 DEF CallRecord, Origin
<1> QED
  BY <1>1, <1>2 DEF MakesOK, Made

(* The sink keeps what it holds. *)
LEMMA HeldKept ==
  ASSUME IdentityInv, HeldInv, NEW c \in Call, NEW step, NEW result,
         Moves(c, step, result)
  PROVE  HeldInv'
<1> DEFINE m == call[c].makes
<1>0. call \in [Call -> CallRecord] /\ stored \subseteq Call
  BY DEF IdentityInv, SyncTypeOK, SinkTypeOK
<1>1. \A d \in Call : SameRequest(d) /\ (d # c => SameCall(d))
  BY MovesFields
<1>2. SinkGrows(m) /\ m \in Call
  BY ResultOfCall DEF Moves
<1>3. stored' \subseteq Call
  BY <1>0, <1>2 DEF SinkGrows
<1>4. ASSUME NEW d \in Call PROVE Fits(call[d].step, call[d].makes)'
  <2>1. CASE d = c
    BY <1>1, <2>1 DEF Moves, SameRequest, Fits
  <2>2. CASE d # c
    <3>1. /\ call'[d].step = call[d].step /\ call'[d].makes = call[d].makes
          /\ call[d].makes \in Call /\ Fits(call[d].step, call[d].makes)
      BY <1>1, <2>2, ResultOfCall DEF SameCall, HeldInv
    <3> QED
      BY <1>2, <3>1 DEF Fits, SinkGrows
  <2> QED
    BY <2>1, <2>2
<1>5. ASSUME NEW d \in Call PROVE AnswerOK(d)'
  <2>0. AnswerOK(d) /\ SameRequest(d)
    BY <1>1 DEF HeldInv
  <2>1. CASE d # c
    BY <1>0, <1>1, <1>2, <2>0, <2>1 DEF AnswerOK, SameRequest, SameCall, SinkGrows
  <2>2. CASE d = c /\ step = "answered"
    <3>1. /\ result \in stored' /\ result \in Call
          /\ call[result].input = call[c].input /\ call[result].key = call[c].key
          /\ call[c].origin = "worker" => result = m
      <4>1. CASE call[c].step = "answered" /\ result = call[c].result
        BY <1>0, <1>2, <2>0, <2>2, <4>1 DEF AnswerOK, SinkGrows
      <4>2. CASE call[c].step \in Saving /\ result = m /\ result \in stored'
        BY <1>2, <4>2, ResultOfCall
      <4>3. CASE /\ call[c].step \in {"lookup", "recover"} /\ stored' = stored
                 /\ Matches(c, result) /\ result \in RowsOf(call[c].key)
        <5>1. call[c].origin # "worker"
          BY <4>3 DEF IdentityInv, RequestOK, WorkerStep, Saving, Permanent
        <5> QED
          BY <1>0, <4>3, <5>1, MatchIsOwn DEF RowsOf
      <4> QED
        BY <2>2, <4>1, <4>2, <4>3 DEF Moves, Answers
    <3>2. /\ call'[result].input = call[result].input
          /\ call'[result].key = call[result].key
      BY <1>1, <3>1 DEF SameRequest
    <3> QED
      BY <2>0, <2>2, <3>1, <3>2 DEF AnswerOK, SameRequest, Moves
  <2>3. CASE d = c /\ step # "answered"
    BY <2>3 DEF AnswerOK, Moves
  <2> QED
    BY <2>1, <2>2, <2>3
<1>6. (backend = "workflow-lab" =>
         \A d \in Call : call[d].origin = "invoke" => call[d].step = "new")'
  <2> SUFFICES ASSUME backend = "workflow-lab", NEW d \in Call,
                      call[d].origin = "invoke"
               PROVE  call'[d].step = "new"
    BY <1>1, <1>2 DEF SameRequest, SinkGrows
  <2>1. call[d].step = "new"
    BY DEF HeldInv
  <2>2. call[d].makes = d /\ ~Made(d)
    BY <2>1 DEF IdentityInv, MakesOK, RequestOK, Made
  <2>3. d # c
    BY <2>1, <2>2 DEF Moves, Busy, Saving, IdentityInv
  <2> QED
    BY <1>1, <2>1, <2>3 DEF SameCall
<1>7. LocalFollowsLab'
  <2> SUFFICES ASSUME backend = "workflow-lab", NEW r \in stored'
               PROVE  lab'[r] = "ours"
    BY <1>2 DEF LocalFollowsLab, SinkGrows
  <2>1. CASE r \in stored
    BY <1>0, <1>2, <2>1 DEF HeldInv, LocalFollowsLab, SinkGrows
  <2>2. CASE r \notin stored
    BY <1>2, <2>2 DEF Moves, SinkGrows
  <2> QED
    BY <2>1, <2>2
<1>8. (backend = "sqlite" => \A r, s \in stored :
         call[r].key = call[s].key /\ call[r].key # None => r = s)'
  <2> SUFFICES ASSUME backend = "sqlite", NEW r \in stored', NEW s \in stored',
                      call[r].key = call[s].key, call[r].key # None
               PROVE  r = s
    BY <1>1, <1>2, <1>3 DEF SameRequest, SinkGrows
  <2>1. CASE stored' = stored
    BY <2>1 DEF HeldInv
  <2>2. CASE stored' # stored
    <3>1. call[m].key = call[c].key
      BY ResultOfCall
    <3>2. call[c].key # None => \A q \in stored : call[q].key # call[c].key
      BY <2>2 DEF Moves
    <3>3. r \in stored \cup {m} /\ s \in stored \cup {m}
      BY <1>2 DEF SinkGrows
    <3>4. r \in stored /\ s \in stored => r = s
      BY DEF HeldInv
    <3> HIDE DEF m
    <3> QED
      BY <3>1, <3>2, <3>3, <3>4
  <2> QED
    BY <2>1, <2>2
<1> QED
  BY <1>4, <1>5, <1>6, <1>7, <1>8 DEF HeldInv

(* What a step of one call adds to the rows of a key, and what is in       *)
(* progress afterwards.                                                    *)
LEMMA ProgressKept ==
  ASSUME IdentityInv, NEW c \in Call, NEW step, NEW result, Moves(c, step, result),
         NEW k \in Key
  PROVE  /\ RowsOf(k) \subseteq RowsOf(k)'
         /\ \A r \in RowsOf(k)' \ RowsOf(k) :
              r = call[c].makes /\ r \notin stored /\ c \in InProgress(k)
                /\ call[c].started_at > 0
         /\ \A d \in InProgress(k)' :
              \E e \in InProgress(k) : /\ call[e].makes = call[d].makes
                                       /\ call[e].started_at = call[d].started_at
<1> DEFINE m == call[c].makes
<1>0. stored \subseteq Call /\ m \in Call /\ call[m].key = call[c].key
  BY ResultOfCall DEF IdentityInv, SyncTypeOK, SinkTypeOK
<1>1. \A d \in Call : SameRequest(d) /\ (d # c => SameCall(d))
  BY MovesFields
<1>2. /\ backend' = backend /\ stored \subseteq stored'
      /\ stored' \subseteq stored \cup {m} /\ late' \subseteq late \cup {m}
  BY DEF Moves, SinkGrows
<1>3. c \in InProgress(call[c].key)
  BY DEF InProgress, Moves
<1>4. RowsOf(k) \subseteq RowsOf(k)'
  BY <1>0, <1>1, <1>2 DEF RowsOf, SameRequest
<1>5. ASSUME NEW r \in RowsOf(k)' \ RowsOf(k)
      PROVE  r = m /\ r \notin stored /\ c \in InProgress(k) /\ call[c].started_at > 0
  <2>1. r \in stored' /\ r \in Call /\ call[r].key = k
    BY <1>0, <1>1, <1>2 DEF RowsOf, SameRequest
  <2>2. r \notin stored
    BY <1>0, <1>1, <1>2 DEF RowsOf, SameRequest
  <2>3. r = m
    BY <1>2, <2>1, <2>2
  <2>4. Made(m)
    BY <2>1, <2>2 DEF Moves
  <2> QED
    BY <1>0, <1>3, <2>1, <2>2, <2>3, <2>4, ResultOfCall DEF Made
<1>6. ASSUME NEW d \in InProgress(k)'
      PROVE  \E e \in InProgress(k) : /\ call[e].makes = call[d].makes
                                      /\ call[e].started_at = call[d].started_at
  <2>0. d \in Call /\ call[d].key = k
    BY <1>1 DEF InProgress, SameRequest
  <2>1. CASE d \in InProgress(k)
    BY <2>1
  <2>2. CASE d \notin InProgress(k)
    <3>1. d # c
      BY <1>3, <2>0, <2>2
    <3>2. call[d].makes \in late' /\ call[d].makes \notin late
      BY <1>1, <1>2, <2>0, <2>2, <3>1 DEF InProgress, Unfinished, SameCall
    <3>3. call[d].makes = m
      BY <1>2, <3>2
    <3>4. call[c].key = k /\ call[c].started_at = call[d].started_at
      BY <1>0, <2>0, <3>3, ResultOfCall
    <3> QED
      BY <1>3, <3>3, <3>4
  <2> QED
    BY <2>1, <2>2
<1> QED
  BY <1>4, <1>5, <1>6

(* The answers to a key stay the first row. *)
LEMMA OrderKept ==
  ASSUME IdentityInv, HeldInv, OrderInv, NEW c \in Call, NEW step, NEW result,
         Moves(c, step, result)
  PROVE  OrderInv'
<1> SUFFICES ASSUME backend = "databricks", NEW k \in Key \ overlapped
             PROVE  OrderOK(k)'
  BY DEF OrderInv, Moves, SinkGrows
<1> DEFINE m == call[c].makes
<1>0. OrderOK(k)
  BY DEF OrderInv
<1>1. \A d \in Call : SameRequest(d) /\ (d # c => SameCall(d))
  BY MovesFields
<1>2. /\ stored \subseteq stored' /\ stored' \subseteq stored \cup {m}
      /\ stored \subseteq Call /\ stored' \subseteq Call
      /\ m \in Call /\ call[m].started_at = call[c].started_at
      /\ \A r \in Call : call[r].started_at \in Nat
  BY ResultOfCall
     DEF Moves, SinkGrows, IdentityInv, SyncTypeOK, SinkTypeOK, CallRecord
<1>3. /\ RowsOf(k) \subseteq RowsOf(k)' /\ RowsOf(k)' \subseteq Call
      /\ \A r \in RowsOf(k)' \ RowsOf(k) :
           r = m /\ r \notin stored /\ c \in InProgress(k) /\ call[c].started_at > 0
  BY <1>2, ProgressKept DEF RowsOf
<1>4. \A d \in InProgress(k)' :
        /\ d \in Call
        /\ \E e \in InProgress(k) : /\ call[e].makes = call[d].makes
                                    /\ call[e].started_at = call[d].started_at
  BY ProgressKept DEF InProgress
<1>5. OneInProgress(k)'
  BY <1>0, <1>1, <1>4 DEF OrderOK, OneInProgress, SameRequest
<1>6. ComesLater(k)'
  <2> SUFFICES ASSUME NEW d \in InProgress(k)', call[d].started_at > 0,
                      call[d].makes \notin stored', NEW r \in RowsOf(k)'
               PROVE  call[r].started_at < call[d].started_at
    BY <1>1, <1>3, <1>4 DEF ComesLater, SameRequest
  <2>1. PICK e \in InProgress(k) : /\ call[e].makes = call[d].makes
                                   /\ call[e].started_at = call[d].started_at
    BY <1>4
  <2>2. r \in RowsOf(k)
    BY <1>0, <1>2, <1>3, <2>1 DEF OrderOK, OneInProgress, RowsOf
  <2> QED
    BY <1>0, <1>2, <2>1, <2>2 DEF OrderOK, ComesLater
<1>7. ASSUME NEW d \in Call, call[d].origin = "invoke", call[d].kind = "v1",
             call[d].key = k
      PROVE  SavesAlone(d)' /\ AnsweredFirst(d)'
  <2>0. SavesAlone(d) /\ AnsweredFirst(d) /\ call[d].makes = d
    BY <1>0, <1>7 DEF OrderOK, IdentityInv, MakesOK
  <2>1. call'[d].key = k
    BY <1>1, <1>7 DEF SameRequest
  <2>2. CASE call[d].step \in {"translate", "recover"} \cup Saving
    <3>1. RowsOf(k)' \subseteq {d}
      <4>1. d \in InProgress(k)
        BY <1>7, <2>2 DEF InProgress, Busy
      <4> QED
        BY <1>0, <1>3, <1>7, <2>0, <2>2, <4>1
           DEF SavesAlone, OrderOK, OneInProgress
    <3>2. ASSUME call'[d].step = "answered"
          PROVE  call'[d].result = d /\ d \in RowsOf(k)'
      <4>1. d = c /\ step = "answered" /\ call'[d].result = result
        BY <1>1, <2>2, <3>2 DEF SameCall, Moves, Saving
      <4>2. Answers(c, result)
        BY <4>1 DEF Moves
      <4>3. CASE call[c].step \in Saving /\ result = m /\ result \in stored'
        BY <1>1, <1>7, <2>0, <4>1, <4>3 DEF RowsOf, SameRequest
      <4>4. CASE result \in RowsOf(call[c].key)
        BY <1>3, <1>7, <3>1, <4>1, <4>4
      <4> QED
        BY <2>2, <4>1, <4>2, <4>3, <4>4 DEF Answers, Saving
    <3>3. SavesAlone(d)'
      BY <2>1, <3>1 DEF SavesAlone
    <3>4. AnsweredFirst(d)'
      BY <1>1, <1>2, <2>1, <3>1, <3>2 DEF AnsweredFirst, SameRequest
    <3> QED
      BY <3>3, <3>4
  <2>3. CASE call[d].step = "answered" /\ call'[d].step = "answered"
    <3>1. call'[d].result = call[d].result
      BY <1>1, <2>3 DEF SameCall, Moves, Answers, Saving
    <3>2. /\ call[d].result \in RowsOf(k) /\ call[d].result \in Call
          /\ \A r \in RowsOf(k) : call[call[d].result].started_at <= call[r].started_at
      BY <1>2, <1>7, <2>0, <2>3 DEF AnsweredFirst, RowsOf
    <3>3. ASSUME NEW r \in RowsOf(k)'
          PROVE  call[call[d].result].started_at <= call[r].started_at
      <4>1. CASE r \in RowsOf(k)
        BY <3>2, <4>1
      <4>2. CASE r \notin RowsOf(k)
        <5>1. r = m /\ r \notin stored /\ c \in InProgress(k) /\ call[c].started_at > 0
          BY <1>3, <4>2
        <5>2. call[call[d].result].started_at < call[c].started_at
          BY <1>0, <3>2, <5>1 DEF OrderOK, ComesLater
        <5> QED
          BY <1>2, <3>2, <5>1, <5>2
      <4> QED
        BY <4>1, <4>2
    <3>4. AnsweredFirst(d)'
      BY <1>1, <1>3, <2>1, <3>1, <3>2, <3>3 DEF AnsweredFirst, SameRequest
    <3>5. SavesAlone(d)'
      BY <2>3 DEF SavesAlone, Saving
    <3> QED
      BY <3>4, <3>5
  <2>4. CASE call[d].step = "lookup" /\ d = c
    <3>1. stored' = stored
      <4>1. ~Made(m)
        BY <1>2, <2>4 DEF Made, IdentityInv, RequestOK
      <4> QED
        BY <4>1 DEF Moves
    <3>2. RowsOf(k)' = RowsOf(k)
      BY <1>2, <1>3, <3>1 DEF RowsOf
    <3>3. SavesAlone(d)'
      BY <1>7, <2>1, <2>4, <3>2 DEF SavesAlone, Moves, Ended, Saving, Permanent
    <3>4. AnsweredFirst(d)'
      <4> SUFFICES ASSUME step = "answered" PROVE AnsweredFirst(d)'
        BY <2>4 DEF AnsweredFirst, Moves
      <4>1. Answers(c, result) /\ call'[d].result = result
        BY <2>4 DEF Moves
      <4>2. /\ result \in RowsOf(k)
            /\ \A r \in RowsOf(k) : call[result].started_at <= call[r].started_at
        BY <1>7, <2>4, <4>1 DEF Answers, Saving
      <4> QED
        BY <1>1, <1>3, <2>1, <3>2, <4>1, <4>2 DEF AnsweredFirst, SameRequest
    <3> QED
      BY <3>3, <3>4
  <2>5. CASE SameCall(d) /\ call[d].step \notin {"translate", "recover", "answered"} \cup Saving
    BY <2>5 DEF SameCall, SavesAlone, AnsweredFirst
  <2>6. CASE ~SameCall(d)
    <3>1. d = c /\ call[d].step \in Busy \ {"staging"}
      BY <1>1, <1>7, <2>6 DEF Moves, IdentityInv, RequestOK
    <3> QED
      BY <2>2, <2>4, <3>1 DEF Busy
  <2> QED
    BY <2>2, <2>3, <2>5, <2>6 DEF SameCall
<1>8. \A d \in Call : /\ call'[d].origin = call[d].origin
                      /\ call'[d].kind = call[d].kind /\ call'[d].key = call[d].key
  BY <1>1 DEF SameRequest
<1> QED
  BY <1>5, <1>6, <1>7, <1>8 DEF OrderOK

(* The lookup finds a row that began first, if there is a row. *)
LEMMA FirstRow ==
  ASSUME IdentityInv, NEW k, RowsOf(k) # {}
  PROVE  /\ Existing(k) \in RowsOf(k)
         /\ \A r \in RowsOf(k) : call[Existing(k)].started_at <= call[r].started_at
<1> DEFINE T == {call[r].started_at : r \in RowsOf(k)}
<1>1. \A r \in RowsOf(k) : r \in Call /\ call[r].started_at \in Nat
  BY DEF RowsOf, IdentityInv, SyncTypeOK, SinkTypeOK, CallRecord
<1>2. T \subseteq Nat /\ T # {}
  BY <1>1
<1>3. PICK n \in T : \A i \in T : ~(<<i, n>> \in OpToRel(<, Nat))
  BY <1>2, NatLessThanWellFounded, WFMin
<1>4. \A i \in T : n <= i
  <2> TAKE i \in T
  <2>1. i \in Nat /\ n \in Nat
    BY <1>2, <1>3
  <2>2. ~(i < n)
    BY <1>3, <2>1 DEF OpToRel
  <2> QED
    BY <2>1, <2>2
<1>5. PICK c \in RowsOf(k) : call[c].started_at = n
  BY <1>3
<1>6. \A r \in RowsOf(k) : call[c].started_at <= call[r].started_at
  BY <1>4, <1>5
<1> QED
  BY <1>6 DEF Existing

(* What has begun to be saved has a name. *)
LEMMA BegunIsMade ==
  ASSUME IdentityInv, NEW c \in Call, call[c].started_at > 0
  PROVE  Made(call[c].makes)
BY ResultOfCall DEF Made

LEMMA FirstStepFits ==
  ASSUME IdentityInv, NEW m
  PROVE  FirstStep \in {"check", "merge", "upload"}
         /\ (FirstStep = "check" /\ backend # "workflow-lab" => Fits(FirstStep, m))
         /\ (FirstStep # "check" => Fits(FirstStep, m))
         /\ (FirstStep = "check" <=> backend = "sqlite")
<1>1. backend \in {"sqlite", "databricks", "workflow-lab"}
  BY DEF IdentityInv, SyncTypeOK, SinkTypeOK, Backend
<1> QED
  BY <1>1 DEF FirstStep, Fits, Permanent

(* Steps that leave the sink alone. *)
LEMMA QuietMove ==
  ASSUME IdentityInv, HeldInv, NEW c \in Call, NEW step \in Step,
         NEW result \in Call \cup {None},
         End(c, step, result), UNCHANGED <<sinkVars, overlapped>>,
         call[c].step \in Busy,
         step = "answered" <=> result # None,
         step = "answered" => Answers(c, result),
         step \notin {"new", "lookup", "staging"},
         step = "translate" => call[c].step = "lookup" /\ RowsOf(call[c].key) = {},
         call[c].step = "lookup" => step \in {"translate"} \cup Ended,
         step = "recover" => call[c].key # None,
         step \in {"recover"} \cup Saving => call[c].started_at > 0,
         call[c].origin = "worker" => step \in WorkerStep,
         Fits(step, call[c].makes)
  PROVE  Moves(c, step, result)
<1>1. call \in [Call -> CallRecord] /\ lab \in [Call -> Registration]
  BY DEF IdentityInv, SyncTypeOK, SinkTypeOK
<1>2. SinkGrows(call[c].makes)
  BY <1>1 DEF SinkGrows, sinkVars
<1>3. Fits(step, call[c].makes)'
  <2>1. SameRequest(c)
    BY <1>1, EndFields
  <2> QED
    BY <2>1 DEF Fits, sinkVars, SameRequest
<1> QED
  BY <1>1, <1>2, <1>3, EndFields DEF Moves, sinkVars

(* What the lookups of an invocation answer. *)
LEMMA LookupMoves ==
  ASSUME IdentityInv, HeldInv, NEW c \in Call, Lookup(c) \/ Recover(c)
  PROVE  \E step, result : Moves(c, step, result)
<1> DEFINE e == Existing(call[c].key)
<1>0. /\ call[c].step \in {"lookup", "recover"} /\ call[c].step \in Busy
      /\ UNCHANGED <<sinkVars, overlapped>>
      /\ None \notin Call
  BY SyncNoneAssumption DEF Lookup, Recover, Busy
<1>1. call[c].origin # "worker"
  BY <1>0 DEF IdentityInv, RequestOK, WorkerStep, Saving, Permanent
<1>2. e # None => /\ e \in RowsOf(call[c].key) /\ e \in Call
                  /\ \A r \in RowsOf(call[c].key) :
                       call[e].started_at <= call[r].started_at
  <2>1. RowsOf(call[c].key) \subseteq Call
    BY DEF RowsOf, IdentityInv, SyncTypeOK, SinkTypeOK
  <2>2. e # None => RowsOf(call[c].key) # {}
    BY DEF Existing
  <2> QED
    BY <2>1, <2>2, FirstRow
<1>3. e = None => RowsOf(call[c].key) = {}
  <2>1. RowsOf(call[c].key) \subseteq Call
    BY DEF RowsOf, IdentityInv, SyncTypeOK, SinkTypeOK
  <2> QED
    BY <1>0, <2>1, FirstRow
<1> HIDE DEF e
<1>4. CASE End(c, "unavailable", None)
  <2>1. Moves(c, "unavailable", None)
    BY <1>0, <1>1, <1>4, QuietMove
       DEF Step, Ended, Fits, Permanent, Saving
  <2> QED
    BY <2>1
<1>5. CASE Matches(c, e) /\ End(c, "answered", e)
  <2>1. e \in Call /\ e # None
    BY <1>2, <1>5, MatchIsOwn
  <2>2. Answers(c, e)
    BY <1>0, <1>2, <1>5, <2>1 DEF Answers, sinkVars
  <2>3. Moves(c, "answered", e)
    BY <1>0, <1>1, <1>5, <2>1, <2>2, QuietMove
       DEF Step, Ended, Fits, Permanent, Saving
  <2> QED
    BY <2>3
<1>6. CASE call[c].step = "lookup" /\ e = None /\ End(c, "translate", None)
  <2>1. Moves(c, "translate", None)
    BY <1>0, <1>1, <1>3, <1>6, QuietMove
       DEF Step, Busy, Fits, Permanent, Saving
  <2> QED
    BY <2>1
<1>7. CASE End(c, "conflict", None)
  <2>1. Moves(c, "conflict", None)
    BY <1>0, <1>1, <1>7, QuietMove
       DEF Step, Ended, Fits, Permanent, Saving
  <2> QED
    BY <2>1
<1> QED
  BY <1>4, <1>5, <1>6, <1>7 DEF Lookup, Recover, e

(* Calls that begin to save what is staged, end without a save, or are     *)
(* lost.                                                                   *)
LEMMA EndingMoves ==
  ASSUME IdentityInv, HeldInv, NEW c \in Call,
         \/ Publish(c) \/ Lose(c)
         \/ /\ call[c].step = "translate" /\ End(c, "rejected", None)
            /\ UNCHANGED <<sinkVars, overlapped>>
  PROVE  \E step, result : Moves(c, step, result)
<1>0. UNCHANGED <<sinkVars, overlapped>>
  BY DEF Publish, Lose
<1>1. CASE Publish(c)
  <2>1. call[c].started_at > 0 /\ call[c].origin = "worker"
    BY <1>1 DEF Publish, IdentityInv, RequestOK
  <2>2. FirstStep \in {"check", "merge", "upload"} /\ Fits(FirstStep, call[c].makes)
    BY FirstStepFits
  <2>3. Moves(c, FirstStep, None)
    BY <1>0, <1>1, <2>1, <2>2, QuietMove
       DEF Publish, Step, Busy, Ended, Saving, WorkerStep
  <2> QED
    BY <2>3
<1>2. CASE Lose(c)
  <2>1. Moves(c, "lost", None)
    BY <1>0, <1>2, QuietMove
       DEF Lose, Step, Ended, Saving, WorkerStep, Fits, Permanent
  <2> QED
    BY <2>1
<1>3. CASE call[c].step = "translate" /\ End(c, "rejected", None)
  <2>1. call[c].origin # "worker"
    BY <1>3 DEF IdentityInv, RequestOK
  <2>2. Moves(c, "rejected", None)
    BY <1>0, <1>3, <2>1, QuietMove
       DEF Step, Ended, Busy, Saving, Fits, Permanent
  <2> QED
    BY <2>2
<1> QED
  BY <1>1, <1>2, <1>3

(* A request without a client takes effect. *)
LEMMA LandMoves ==
  ASSUME IdentityInv, HeldInv, NEW r \in Call, Land(r), UNCHANGED <<call, overlapped>>
  PROVE  Moves(r, call[r].step, call[r].result)
<1>0. /\ call \in [Call -> CallRecord] /\ lab \in [Call -> Registration]
      /\ call[r].step = "answered" <=> call[r].result # None
  BY DEF IdentityInv, SyncTypeOK, SinkTypeOK
<1>1. Made(r) /\ call[r].makes = r /\ call[r].started_at > 0
  BY DEF Land, IdentityInv, Made
<1>2. RequestOK(r) /\ MakesOK(r) /\ Fits(call[r].step, r)
  BY <1>1 DEF IdentityInv, HeldInv
<1>3. SinkGrows(r)
  BY <1>0 DEF Land, SinkGrows, Registered, Registration
<1>4. Fits(call[r].step, r)'
  BY <1>2, <1>3 DEF Fits, SinkGrows
<1>5. stored' # stored => backend = "databricks"
  BY DEF Land
<1>6. SameRequest(r) /\ \A d \in Call : SameCall(d)
  BY DEF SameRequest, SameCall
<1>7. /\ call[r].step \notin {"new", "lookup", "translate"}
      /\ call[r].step = "recover" => call[r].key # None
      /\ call[r].step = "staging" => call[r].origin = "worker"
      /\ call[r].origin = "worker" => call[r].step \in WorkerStep
  BY <1>1, <1>2 DEF RequestOK
<1>8. call[r].step = "answered" => Answers(r, call[r].result)
  BY DEF Answers
<1>9. Fits(call[r].step, call[r].makes)'
  BY <1>1, <1>4
<1>10. r \in late
  BY DEF Land
<1> QED
  BY <1>0, <1>1, <1>3, <1>5, <1>6, <1>7, <1>8, <1>9, <1>10 DEF Moves

(* What one statement or request of a save does to the sink, and where it  *)
(* can lead.                                                               *)
LEMMA SaveGrows ==
  ASSUME IdentityInv, HeldInv, NEW c \in Call, NEW m \in Call, m = call[c].makes,
         NEW next \in Saving \cup Permanent \cup {"saved", "failed"},
         SaveCompletedRun(c, next)
  PROVE  /\ SinkGrows(m)
         /\ next = "saved" => m \in stored'
         /\ next \in Saving \cup Permanent => Fits(next, m)'
         /\ stored' # stored =>
              /\ backend = "workflow-lab" => lab'[m] = "ours"
              /\ backend = "sqlite" /\ call[c].key # None =>
                   \A r \in stored : call[r].key # call[c].key
<1>0. /\ call[c].step \in Saving
      /\ SaveStep(call[c].step, m, Insertable(c), next)
      /\ Fits(call[c].step, m)
      /\ lab \in [Call -> Registration]
  BY DEF SaveCompletedRun, HeldInv, IdentityInv, SyncTypeOK, SinkTypeOK
<1>1. CASE call[c].step = "check"
  <2>1. CheckRow(m, next)
    BY <1>0, <1>1 DEF SaveStep
  <2>2. /\ UNCHANGED sinkVars
        /\ next = "saved" => m \in stored
        /\ next \in {"failed", "saved", "insert"}
    BY <2>1 DEF CheckRow
  <2> QED
    BY <1>0, <1>1, <2>2 DEF sinkVars, SinkGrows, Fits, Saving, Permanent
<1>2. CASE call[c].step = "insert"
  <2>1. InsertRow(m, Insertable(c), next)
    BY <1>0, <1>2 DEF SaveStep
  <2>2. /\ UNCHANGED <<backend, lab, late>>
        /\ \/ next = "failed" /\ stored' = stored
           \/ next = "saved" /\ Insertable(c) /\ stored' = stored \cup {m}
    BY <2>1 DEF InsertRow
  <2> QED
    BY <1>0, <1>2, <2>2 DEF SinkGrows, Fits, Saving, Permanent, Insertable
<1>3. CASE call[c].step = "merge"
  <2>1. MergeRow(m, next)
    BY <1>0, <1>3 DEF SaveStep
  <2>2. /\ UNCHANGED <<backend, lab>> /\ backend = "databricks"
        /\ next \in {"readback", "failed"}
        /\ stored' \in {stored, stored \cup {m}} /\ late' \in {late, late \cup {m}}
    BY <1>0, <1>3, <2>1 DEF MergeRow, Fits
  <2> QED
    BY <1>0, <2>2 DEF SinkGrows, Fits, Saving, Permanent
<1>4. CASE call[c].step = "readback"
  <2>1. Readback(m, next)
    BY <1>0, <1>4 DEF SaveStep
  <2>2. /\ UNCHANGED sinkVars
        /\ next = "saved" => m \in stored
        /\ next \in {"failed", "saved"}
    BY <2>1 DEF Readback
  <2> QED
    BY <1>0, <2>2 DEF sinkVars, SinkGrows, Saving, Permanent
<1>5. CASE call[c].step = "upload"
  <2>1. UploadObject(next)
    BY <1>0, <1>5 DEF SaveStep
  <2>2. /\ UNCHANGED sinkVars /\ backend = "workflow-lab"
        /\ next \in {"register", "failed", "publication_integrity"}
    BY <1>0, <1>5, <2>1 DEF UploadObject, Fits
  <2> QED
    BY <1>0, <2>2 DEF sinkVars, SinkGrows, Fits, Saving, Permanent
<1>6. CASE call[c].step = "register"
  <2>1. RegisterResult(m, next)
    BY <1>0, <1>6 DEF SaveStep
  <2>2. /\ UNCHANGED <<backend, stored>> /\ backend = "workflow-lab"
        /\ next \in {"register", "failed", "resolve", "publication_integrity"}
        /\ lab' \in {lab, Registered(m)} /\ late' \in {late, late \cup {m}}
    BY <1>0, <1>6, <2>1
       DEF RegisterResult, LostRegistration, AnsweredRegistration, TakesEffect, Fits
  <2>3. SinkGrows(m)
    BY <1>0, <2>2 DEF SinkGrows, Registered, Registration
  <2> QED
    BY <2>2, <2>3 DEF Fits, Saving, Permanent
<1>7. CASE call[c].step = "resolve"
  <2>1. ResolveResult(m, next)
    BY <1>0, <1>7 DEF SaveStep
  <2>2. /\ UNCHANGED sinkVars /\ backend = "workflow-lab"
        /\ lab[m] \in {"absent", "ours", "foreign"}
    BY <1>0, <1>7, <2>1 DEF ResolveResult, Fits, Registration
  <2>3. /\ next \in {"failed", "publication_integrity", "check", "publication_conflict"}
        /\ next = "check" => lab[m] = "ours"
        /\ next = "publication_conflict" => lab[m] = "foreign"
    BY <2>1, <2>2 DEF ResolveResult, Resolution
  <2> QED
    BY <1>0, <2>2, <2>3 DEF sinkVars, SinkGrows, Fits, Saving, Permanent
<1> QED
  BY <1>0, <1>1, <1>2, <1>3, <1>4, <1>5, <1>6, <1>7 DEF Saving

(* One step of a save, with what follows when it has ended. *)
LEMMA SaveMoves ==
  ASSUME IdentityInv, HeldInv, NEW c \in Call,
         NEW next \in Saving \cup Permanent \cup {"saved", "failed"},
         SaveCompletedRun(c, next)
  PROVE  \E step, result : Moves(c, step, result)
<1>0. PICK m \in Call : m = call[c].makes
  BY ResultOfCall
<1>1. /\ call \in [Call -> CallRecord] /\ None \notin Call
      /\ call[c].step \in Saving /\ call[c].started_at > 0 /\ overlapped' = overlapped
  BY SyncNoneAssumption DEF IdentityInv, SyncTypeOK, RequestOK, SaveCompletedRun
<1>2. /\ Made(m) /\ call[c].step \in Busy
      /\ call[c].step \notin {"lookup", "answered"}
  BY <1>0, <1>1, BegunIsMade DEF Busy, Saving
<1>3. /\ SinkGrows(m)
      /\ next = "saved" => m \in stored'
      /\ next \in Saving \cup Permanent => Fits(next, m)'
      /\ stored' # stored =>
           /\ backend = "workflow-lab" => lab'[m] = "ours"
           /\ backend = "sqlite" /\ call[c].key # None =>
                \A r \in stored : call[r].key # call[c].key
  BY <1>0, SaveGrows
<1>4. ASSUME NEW step \in Step, NEW result \in Call \cup {None}, End(c, step, result),
             step = "answered" <=> result # None,
             step = "answered" => result = m /\ m \in stored',
             step \notin {"new", "lookup", "translate", "staging"},
             step = "recover" => call[c].key # None,
             call[c].origin = "worker" => step \in WorkerStep,
             Fits(step, m)'
      PROVE  Moves(c, step, result)
  <2>1. /\ call' \in [Call -> CallRecord]
        /\ call'[c].step = step /\ call'[c].result = result
        /\ SameRequest(c)
        /\ \A d \in Call \ {c} : SameCall(d)
    BY <1>1, <1>4, EndFields
  <2>2. step = "answered" => Answers(c, result)
    BY <1>0, <1>1, <1>4 DEF Answers
  <2>3. Fits(step, call[c].makes)'
    BY <1>0, <1>4, <2>1 DEF SameRequest
  <2> QED
    BY <1>0, <1>1, <1>2, <1>3, <1>4, <2>1, <2>2, <2>3 DEF Moves
<1>5. CASE next = "saved"
  <2>1. End(c, "answered", m)
    BY <1>0, <1>5 DEF SaveCompletedRun
  <2>2. Fits("answered", m)'
    BY DEF Fits, Permanent
  <2> QED
    BY <1>1, <1>3, <1>4, <1>5, <2>1, <2>2 DEF Step, Ended, WorkerStep
<1>6. CASE next = "failed" /\ call[c].origin = "worker"
  <2>1. End(c, FirstStep, None)
    BY <1>6 DEF SaveCompletedRun, AfterFailedSave
  <2>2. /\ FirstStep \in {"check", "merge", "upload"}
        /\ FirstStep = "check" <=> backend = "sqlite"
        /\ Fits(FirstStep, m)
    BY FirstStepFits
  <2>3. ASSUME NEW s, s = FirstStep PROVE Fits(s, m)'
    BY <1>3, <2>2, <2>3 DEF Fits, SinkGrows, Permanent
  <2>4. PICK s \in {"check", "merge", "upload"} : s = FirstStep
    BY <2>2
  <2> QED
    BY <1>4, <2>1, <2>3, <2>4 DEF Step, Busy, Saving, WorkerStep
<1>7. CASE next = "failed" /\ call[c].origin # "worker"
  <2>1. PICK s \in {"recover", "unavailable"} :
          End(c, s, None) /\ (s = "recover" => call[c].key # None)
    BY <1>7 DEF SaveCompletedRun, AfterFailedSave
  <2>2. Fits(s, m)'
    BY <2>1 DEF Fits, Permanent
  <2> QED
    BY <1>4, <1>7, <2>1, <2>2 DEF Step, Busy, Ended
<1>8. CASE next \in Saving \cup Permanent
  <2>1. End(c, next, None)
    BY <1>8 DEF SaveCompletedRun, Saving, Permanent
  <2>2. next \in Step /\ next \in WorkerStep
        /\ next \notin {"new", "lookup", "translate", "staging", "recover", "answered"}
    BY <1>8 DEF Step, Busy, Ended, WorkerStep, Saving, Permanent
  <2> QED
    BY <1>3, <1>4, <1>8, <2>1, <2>2
<1> QED
  BY <1>5, <1>6, <1>7, <1>8

-----------------------------------------------------------------------------
(* Calls that begin. *)

(* A call that begins now began after all the others. *)
LEMMA NowIsLater ==
  ASSUME IdentityInv
  PROVE  /\ Now \in Nat /\ Now > 0
         /\ \A c \in Call : call[c].started_at \in Nat /\ call[c].started_at < Now
<1>1. \A c \in Call : call[c].started_at \in Nat
                      /\ call[c].started_at <= Cardinality(Begun)
  BY DEF IdentityInv, SyncTypeOK, CallRecord
<1>2. Cardinality(Begun) \in Nat
  BY CallAssumption, FS_Subset, FS_CardinalityType DEF Begun
<1>3. Now = 1 + Cardinality(Begun)
  BY DEF Now, Begun
<1> QED
  BY <1>1, <1>2, <1>3

(* A call that has not begun is known to nobody else. *)
LEMMA Unknown ==
  ASSUME IdentityInv, NEW c \in Call, call[c].started_at = 0
  PROVE  /\ c \notin stored \cup late
         /\ \A d \in Call \ {c} : call[d].makes # c
<1>1. ~Made(c)
  BY DEF Made
<1>2. ASSUME NEW d \in Call \ {c} PROVE call[d].makes # c
  <2>1. MakesOK(d) /\ call[d].origin \in {"invoke", "worker"}
    BY DEF IdentityInv, SyncTypeOK, CallRecord, Origin
  <2> QED
    BY <1>1, <2>1 DEF MakesOK
<1> QED
  BY <1>1, <1>2 DEF IdentityInv

(* One call, that has not begun, receives its request or its time. *)
Begins(c) ==
  /\ call' \in [Call -> CallRecord]
  /\ \A d \in Call \ {c} : SameCall(d)
  /\ UNCHANGED sinkVars
  /\ overlapped \subseteq overlapped' /\ overlapped' \subseteq Key
  /\ call[c].started_at = 0
  /\ call'[c].step # "answered" /\ call'[c].result = None
  /\ \/ call'[c].started_at \in {0, Now} /\ call'[c].makes = c
     \/ /\ call'[c].makes # c
        /\ call'[c].started_at = call[call'[c].makes].started_at
        /\ call'[c].started_at > 0
  /\ RequestOK(c)' /\ MakesOK(c)'
  /\ call'[c].origin = "worker" =>
       \A d \in Call \ {c} : call[d].origin = "worker" /\ call[d].key = call'[c].key
                               => call[d].makes = call'[c].makes

LEMMA IdentityBegins ==
  ASSUME IdentityInv, NEW c \in Call, Begins(c)
  PROVE  IdentityInv'
<1>0. /\ call' \in [Call -> CallRecord] /\ call \in [Call -> CallRecord]
      /\ \A d \in Call : call'[d].makes \in Call /\ call'[d].started_at \in Nat
      /\ \A d \in Call : call[d].makes \in Call
  BY DEF Begins, IdentityInv, SyncTypeOK, CallRecord
<1>1. \A d \in Call \ {c} : call'[d] = call[d] /\ call[d].makes # c
  BY Unknown DEF Begins, SameCall
<1>2. \A r \in Call \ {c} : Made(r)' <=> Made(r)
  BY <1>1 DEF Made
<1>3. SyncTypeOK'
  <2>1. SinkTypeOK'
    BY DEF IdentityInv, SyncTypeOK, SinkTypeOK, Begins, sinkVars
  <2>2. \A d \in Call : call'[d].step = "answered" <=> call'[d].result # None
    BY <1>1 DEF IdentityInv, SyncTypeOK, Begins
  <2> QED
    BY <1>0, <2>1, <2>2 DEF SyncTypeOK, Begins
<1>4. \A d \in Call : RequestOK(d)' /\ MakesOK(d)'
  <2> TAKE d \in Call
  <2>1. CASE d = c
    BY <2>1 DEF Begins
  <2>2. CASE d # c
    <3>1. call'[d] = call[d] /\ call'[call[d].makes] = call[call[d].makes]
          /\ (Made(call[d].makes)' <=> Made(call[d].makes))
      BY <1>0, <1>1, <1>2, <2>2
    <3>2. RequestOK(d) /\ MakesOK(d)
      BY DEF IdentityInv
    <3> QED
      BY <3>1, <3>2 DEF RequestOK, MakesOK
  <2> QED
    BY <2>1, <2>2
<1>5. \A d \in Call : call'[d].started_at <= Cardinality(Begun')
  <2>1. /\ IsFiniteSet(Begun) /\ c \notin Begun
        /\ Cardinality(Begun) \in Nat /\ Now = 1 + Cardinality(Begun)
    BY CallAssumption, FS_Subset, FS_CardinalityType DEF Begun, Now, Begins
  <2>2. \A d \in Call \ {c} : call'[d].started_at <= Cardinality(Begun)
    BY <1>1 DEF IdentityInv
  <2>3. CASE call'[c].started_at = 0
    <3>1. Begun' = Begun
      BY <1>1, <2>3 DEF Begun, Begins
    <3> QED
      BY <2>1, <2>2, <2>3, <3>1
  <2>4. CASE call'[c].started_at # 0
    <3>1. Begun' = Begun \cup {c}
      BY <1>0, <1>1, <2>4 DEF Begun
    <3>2. Cardinality(Begun') = Now
      <4>1. Cardinality(Begun \cup {c}) = Cardinality(Begun) + 1
        BY <2>1, FS_AddElement
      <4> QED
        BY <2>1, <3>1, <4>1
    <3>3. call'[c].started_at <= Now
      <4>1. CASE call'[c].started_at \in {0, Now}
        BY <2>1, <4>1
      <4>2. CASE call'[c].started_at = call[call'[c].makes].started_at
        BY <1>0, <4>2, NowIsLater
      <4> QED
        BY <4>1, <4>2 DEF Begins
    <3>4. \A d \in Call \ {c} : call'[d].started_at <= Now
      BY <1>0, <2>1, <2>2
    <3> QED
      BY <3>2, <3>3, <3>4
  <2> QED
    BY <2>3, <2>4
<1>6. OneRunPerKey'
  BY <1>1 DEF IdentityInv, OneRunPerKey, Begins
<1>7. OneResultPerTime'
  <2>1. ASSUME Made(c)' PROVE call'[c].started_at = Now
    BY <2>1 DEF Made, Begins
  <2>2. \A s \in Call \ {c} : call'[s].started_at # Now
    BY <1>1, NowIsLater
  <2> QED
    BY <1>1, <1>2, <2>1, <2>2 DEF IdentityInv, OneResultPerTime
<1>8. \A r \in (stored \cup late)' : Made(r)'
  <2>1. stored' = stored /\ late' = late /\ stored \cup late \subseteq Call \ {c}
    BY Unknown DEF Begins, sinkVars, IdentityInv, SyncTypeOK, SinkTypeOK
  <2> QED
    BY <1>2, <2>1 DEF IdentityInv
<1> QED
  BY <1>3, <1>4, <1>5, <1>6, <1>7, <1>8 DEF IdentityInv

LEMMA HeldBegins ==
  ASSUME IdentityInv, HeldInv, NEW c \in Call, Begins(c),
         Fits(call[c].step, call[c].makes)',
         backend = "workflow-lab" => call'[c].origin # "invoke"
  PROVE  HeldInv'
<1>1. /\ \A d \in Call \ {c} : call'[d] = call[d]
      /\ UNCHANGED sinkVars /\ stored \subseteq Call \ {c}
  BY Unknown DEF Begins, SameCall, IdentityInv, SyncTypeOK, SinkTypeOK
<1>2. ASSUME NEW d \in Call PROVE Fits(call[d].step, call[d].makes)'
  <2>1. CASE d # c
    BY <1>1, <2>1 DEF HeldInv, Fits, sinkVars
  <2> QED
    BY <2>1
<1>3. ASSUME NEW d \in Call PROVE AnswerOK(d)'
  <2>1. CASE d = c
    BY <2>1 DEF AnswerOK, Begins
  <2>2. CASE d # c
    <3>1. AnswerOK(d)
      BY DEF HeldInv
    <3> QED
      BY <1>1, <2>2, <3>1 DEF AnswerOK, sinkVars
  <2> QED
    BY <2>1, <2>2
<1>4. (backend = "workflow-lab" =>
         \A d \in Call : call[d].origin = "invoke" => call[d].step = "new")'
  BY <1>1 DEF HeldInv, sinkVars
<1>5. LocalFollowsLab'
  BY <1>1 DEF HeldInv, LocalFollowsLab, sinkVars
<1>6. (backend = "sqlite" => \A r, s \in stored :
         call[r].key = call[s].key /\ call[r].key # None => r = s)'
  BY <1>1 DEF HeldInv, sinkVars
<1> QED
  BY <1>2, <1>3, <1>4, <1>5, <1>6 DEF HeldInv

LEMMA OrderBegins ==
  ASSUME IdentityInv, HeldInv, OrderInv, NEW c \in Call, Begins(c),
         ASSUME NEW k \in Key \ overlapped', backend = "databricks",
                c \in InProgress(k)'
         PROVE  /\ \A e \in InProgress(k) \ {c} : call[e].makes = call'[c].makes
                /\ call'[c].started_at > 0 /\ call'[c].makes \notin stored =>
                     \A r \in RowsOf(k) : call[r].started_at < call'[c].started_at,
         ASSUME NEW k \in Key \ overlapped', backend = "databricks",
                call'[c].origin = "invoke", call'[c].kind = "v1", call'[c].key = k
         PROVE  SavesAlone(c)'
  PROVE  OrderInv'
<1> SUFFICES ASSUME backend = "databricks", NEW k \in Key \ overlapped'
             PROVE  OrderOK(k)'
  BY DEF OrderInv, Begins, sinkVars
<1>0. OrderOK(k)
  BY DEF OrderInv, Begins
<1>1. /\ \A d \in Call \ {c} : call'[d] = call[d] /\ call[d].makes # c
      /\ UNCHANGED sinkVars /\ stored \subseteq Call \ {c}
  BY Unknown DEF Begins, SameCall, IdentityInv, SyncTypeOK, SinkTypeOK
<1>2. /\ RowsOf(k)' = RowsOf(k) /\ RowsOf(k) \subseteq Call \ {c}
      /\ \A d \in Call \ {c} : RowsOf(call[d].key)' = RowsOf(call[d].key)
  BY <1>1 DEF RowsOf, sinkVars
<1>3. \A d \in InProgress(k)' : d # c => d \in InProgress(k) \ {c}
  BY <1>1 DEF InProgress, Unfinished, sinkVars
<1>4. InProgress(k)' \subseteq Call
  BY DEF InProgress
<1>5. OneInProgress(k)'
  BY <1>0, <1>1, <1>3, <1>4 DEF OrderOK, OneInProgress
<1>6. ComesLater(k)'
  <2> SUFFICES ASSUME NEW d \in InProgress(k)', call'[d].started_at > 0,
                      call'[d].makes \notin stored, NEW r \in RowsOf(k)
               PROVE  call[r].started_at < call'[d].started_at
    BY <1>1, <1>2 DEF ComesLater, sinkVars
  <2>1. CASE d = c
    BY <2>1
  <2>2. CASE d # c
    BY <1>0, <1>1, <1>3, <1>4, <2>2 DEF OrderOK, ComesLater
  <2> QED
    BY <2>1, <2>2
<1>7. ASSUME NEW d \in Call, call'[d].origin = "invoke", call'[d].kind = "v1",
             call'[d].key = k
      PROVE  SavesAlone(d)' /\ AnsweredFirst(d)'
  <2>1. CASE d = c
    BY <1>7, <2>1 DEF AnsweredFirst, Begins
  <2>2. CASE d # c
    <3>1. call'[d] = call[d] /\ call[d].key = k /\ SavesAlone(d) /\ AnsweredFirst(d)
      BY <1>0, <1>1, <1>7, <2>2 DEF OrderOK
    <3>2. SavesAlone(d)'
      BY <1>2, <3>1 DEF SavesAlone
    <3>3. AnsweredFirst(d)'
      BY <1>1, <1>2, <3>1 DEF AnsweredFirst
    <3> QED
      BY <3>2, <3>3
  <2> QED
    BY <2>1, <2>2
<1> QED
  BY <1>5, <1>6, <1>7 DEF OrderOK

(* A request arrives. *)
LEMMA ReceiveBegins ==
  ASSUME SyncInv, NEW c \in Call, NEW kind \in Kind, NEW k \in Key \cup {None},
         NEW i \in Input, Receive(c, kind, k, i)
  PROVE  SyncInv'
<1>0. /\ IdentityInv /\ HeldInv /\ OrderInv
      /\ call \in [Call -> CallRecord] /\ call[c] \in CallRecord
      /\ call[c].step = "new" /\ call[c].origin = "invoke"
      /\ call[c].started_at = 0 /\ call[c].makes = c /\ call[c].result = None
      /\ UNCHANGED sinkVars /\ overlapped \subseteq Key
  BY DEF SyncInv, IdentityInv, SyncTypeOK, RequestOK, MakesOK, Receive
<1>1. PICK step \in {"rejected", IF k = None THEN "translate" ELSE "lookup"} :
        call' = [call EXCEPT ![c].kind = kind, ![c].key = k, ![c].input = i,
                             ![c].step = step]
  BY DEF Receive
<1>2. /\ step \in {"rejected", "translate", "lookup"}
      /\ step = "translate" => k = None
      /\ step = "lookup" => k # None
  BY <1>1
<1> DEFINE y == [[[[call[c] EXCEPT !.kind = kind] EXCEPT !.key = k]
                     EXCEPT !.input = i] EXCEPT !.step = step]
<1>3. /\ y \in CallRecord /\ y.step = step /\ y.origin = "invoke" /\ y.kind = kind
      /\ y.key = k /\ y.started_at = 0 /\ y.makes = c /\ y.result = None
  BY <1>0, <1>2 DEF CallRecord, Busy, Ended
<1>4. call' = [call EXCEPT ![c] = y]
  BY <1>0, <1>1
<1> HIDE DEF y
<1>5. /\ call' \in [Call -> CallRecord] /\ call'[c] = y
      /\ \A d \in Call \ {c} : call'[d] = call[d]
  BY <1>0, <1>3, <1>4
<1>6. overlapped' \in {overlapped, overlapped \cup {k}}
      /\ (k \notin overlapped' /\ k # None => InProgress(k) = {})
  BY DEF Receive, Overlap
<1>7. overlapped \subseteq overlapped' /\ overlapped' \subseteq Key
  BY <1>0, <1>6, SyncNoneAssumption DEF Receive, Overlap
<1>8. Begins(c)
  <2>1. RequestOK(c)' /\ MakesOK(c)'
    BY <1>2, <1>3, <1>5 DEF RequestOK, MakesOK, Saving
  <2> QED
    BY <1>0, <1>2, <1>3, <1>5, <1>7, <2>1 DEF Begins, SameCall
<1>9. IdentityInv'
  BY <1>0, <1>8, IdentityBegins
<1>10. HeldInv'
  <2>1. Fits(call[c].step, call[c].makes)'
    BY <1>2, <1>3, <1>5 DEF Fits, Permanent
  <2> QED
    BY <1>0, <1>8, <2>1, HeldBegins DEF Receive
<1>11. OrderInv'
  <2>1. ASSUME NEW q \in Key \ overlapped', c \in InProgress(q)'
        PROVE  /\ \A e \in InProgress(q) \ {c} : call[e].makes = call'[c].makes
               /\ call'[c].started_at > 0 /\ call'[c].makes \notin stored =>
                    \A r \in RowsOf(q) : call[r].started_at < call'[c].started_at
    <3>1. q = k /\ k # None
      BY <1>3, <1>5, <2>1, SyncNoneAssumption DEF InProgress
    <3> QED
      BY <1>3, <1>5, <1>6, <2>1, <3>1
  <2>2. ASSUME NEW q \in Key, call'[c].key = q
        PROVE  SavesAlone(c)'
    <3>1. k # None
      BY <1>3, <1>5, <2>2, SyncNoneAssumption
    <3> QED
      BY <1>2, <1>3, <1>5, <3>1 DEF SavesAlone, Saving
  <2> QED
    BY <1>0, <1>8, <2>1, <2>2, OrderBegins
<1> QED
  BY <1>9, <1>10, <1>11 DEF SyncInv

(* The capability returns, and the call has its time. *)
LEMMA TranslateBegins ==
  ASSUME SyncInv, NEW c \in Call, call[c].step = "translate",
         call' = [call EXCEPT ![c].step = FirstStep, ![c].started_at = Now],
         UNCHANGED <<sinkVars, overlapped>>
  PROVE  SyncInv'
<1>0. /\ IdentityInv /\ HeldInv /\ OrderInv
      /\ call \in [Call -> CallRecord] /\ call[c] \in CallRecord
      /\ call[c].origin = "invoke" /\ call[c].started_at = 0 /\ call[c].makes = c
      /\ call[c].result = None /\ overlapped \subseteq Key
  BY DEF SyncInv, IdentityInv, SyncTypeOK, RequestOK, MakesOK
<1>1. /\ FirstStep \in {"check", "merge", "upload"}
      /\ Fits(FirstStep, c) /\ Now \in Nat /\ Now > 0
  BY <1>0, FirstStepFits, NowIsLater
<1> DEFINE y == [[call[c] EXCEPT !.step = FirstStep] EXCEPT !.started_at = Now]
<1>2. /\ y \in CallRecord /\ y.step = FirstStep /\ y.started_at = Now
      /\ y.origin = "invoke" /\ y.kind = call[c].kind /\ y.key = call[c].key
      /\ y.makes = c /\ y.result = None
  BY <1>0, <1>1 DEF CallRecord, Busy, Saving
<1>3. call' = [call EXCEPT ![c] = y]
  BY <1>0
<1> HIDE DEF y
<1>4. /\ call' \in [Call -> CallRecord] /\ call'[c] = y
      /\ \A d \in Call \ {c} : call'[d] = call[d]
  <2>1. call \in [Call -> CallRecord] /\ y \in CallRecord
    BY <1>0, <1>2
  <2> QED
    BY <1>3, <2>1
<1>5. Begins(c)
  <2>1. RequestOK(c)' /\ MakesOK(c)'
    BY <1>1, <1>2, <1>4 DEF RequestOK, MakesOK, Saving
  <2> QED
    BY <1>0, <1>1, <1>2, <1>4, <2>1 DEF Begins, SameCall
<1>6. IdentityInv'
  BY <1>0, <1>5, IdentityBegins
<1>7. HeldInv'
  <2>1. PICK s \in {"check", "merge", "upload"} : s = FirstStep /\ Fits(s, c)
    BY <1>1
  <2>2. Fits(call[c].step, call[c].makes)'
    BY <1>2, <1>4, <2>1 DEF Fits, sinkVars
  <2> QED
    BY <1>0, <1>5, <2>2, HeldBegins DEF HeldInv
<1>8. OrderInv'
  <2>1. ASSUME NEW q \in Key \ overlapped', backend = "databricks",
               c \in InProgress(q)'
        PROVE  /\ \A e \in InProgress(q) \ {c} : call[e].makes = call'[c].makes
               /\ call'[c].started_at > 0 /\ call'[c].makes \notin stored =>
                    \A r \in RowsOf(q) : call[r].started_at < call'[c].started_at
    <3>1. c \in InProgress(q)
      BY <1>2, <1>4, <2>1 DEF InProgress, Busy
    <3>2. OneInProgress(q) /\ RowsOf(q) \subseteq Call
      BY <1>0, <2>1
         DEF OrderInv, OrderOK, RowsOf, IdentityInv, SyncTypeOK, SinkTypeOK
    <3>3. \A e \in InProgress(q) \ {c} : call[e].makes = call'[c].makes
      BY <1>0, <1>2, <1>4, <3>1, <3>2 DEF OneInProgress
    <3>4. \A r \in RowsOf(q) : call[r].started_at < call'[c].started_at
      BY <1>0, <1>2, <1>4, <3>2, NowIsLater
    <3> QED
      BY <3>3, <3>4
  <2>2. ASSUME NEW q \in Key \ overlapped', backend = "databricks",
               call'[c].kind = "v1", call'[c].key = q
        PROVE  SavesAlone(c)'
    <3>1. SavesAlone(c)
      BY <1>0, <1>2, <1>4, <2>2 DEF OrderInv, OrderOK
    <3>2. RowsOf(call[c].key)' \subseteq {c}
      <4>1. RowsOf(q) \subseteq {c} /\ call[c].key = q
        BY <1>2, <1>4, <2>2, <3>1 DEF SavesAlone
      <4>2. stored' = stored /\ backend' = backend /\ stored \subseteq Call
        BY <1>0 DEF sinkVars, IdentityInv, SyncTypeOK, SinkTypeOK
      <4> QED
        BY <1>4, <2>2, <4>1, <4>2 DEF RowsOf
    <3> QED
      BY <3>2, ZenonT(40) DEF SavesAlone
  <2> QED
    BY <1>0, <1>5, <2>1, <2>2, OrderBegins
<1> QED
  BY <1>6, <1>7, <1>8 DEF SyncInv

(* An attempt of a run is claimed: the first one gives the run its time    *)
(* and its result, a later one takes both over.                            *)
LEMMA ClaimBegins ==
  ASSUME SyncInv, NEW c \in Call, NEW kind \in Kind, NEW k \in Key, NEW i \in Input,
         Claim(c, kind, k, i)
  PROVE  SyncInv'
<1> DEFINE earlier == {d \in Call : call[d].origin = "worker" /\ call[d].key = k}
<1>0. /\ IdentityInv /\ HeldInv /\ OrderInv
      /\ call \in [Call -> CallRecord]
      /\ call[c].step = "new" /\ call[c].origin = "invoke" /\ call[c].started_at = 0
      /\ UNCHANGED sinkVars /\ overlapped \subseteq Key /\ k # None
  BY SyncNoneAssumption, SMTT(30) DEF SyncInv, IdentityInv, SyncTypeOK, RequestOK, Claim
<1>1. PICK r \in IF earlier = {} THEN {c} ELSE {call[d].makes : d \in earlier} :
        call' = [call EXCEPT ![c] =
          [NewCall(r) EXCEPT !.origin = "worker", !.kind = kind, !.key = k, !.input = i,
                             !.started_at = IF earlier = {} THEN Now
                                            ELSE call[r].started_at,
                             !.step = "staging"]]
  BY DEF Claim
<1>2. ASSUME earlier # {}
      PROVE  /\ r \in Call \ {c} /\ Made(r) /\ call[r].origin = "worker"
             /\ call[r].key = k /\ call[r].kind = kind /\ call[r].input = i
             /\ \A d \in earlier : /\ call[d].makes = r
                                   /\ call[d].started_at = call[r].started_at
  <2>1. PICK d \in earlier : r = call[d].makes
    BY <1>1, <1>2
  <2>2. MakesOK(d) /\ call[d].kind = kind /\ call[d].input = i
    BY <1>0, <2>1 DEF IdentityInv, Claim
  <2>3. r \in Call \ {c}
    BY <1>0, <2>1, Unknown, ResultOfCall
  <2>4. \A e \in earlier : /\ call[e].makes = r
                           /\ call[e].started_at = call[r].started_at
    <3> TAKE e \in earlier
    <3>1. call[e].makes = r
      BY <1>0, <2>1 DEF IdentityInv, OneRunPerKey
    <3> QED
      BY <1>0, <3>1, ResultOfCall
  <2> QED
    BY <2>1, <2>2, <2>3, <2>4 DEF MakesOK
<1>3. earlier = {} => r = c
  BY <1>1
<1> DEFINE t == IF earlier = {} THEN Now ELSE call[r].started_at
<1>4. r \in Call /\ t \in Nat /\ t > 0
  <2>1. CASE earlier = {}
    BY <1>0, <1>3, <2>1, NowIsLater
  <2>2. CASE earlier # {}
    BY <1>0, <1>2, <2>2, NowIsLater DEF Made
  <2> QED
    BY <2>1, <2>2
<1> DEFINE y == [NewCall(r) EXCEPT !.origin = "worker", !.kind = kind, !.key = k,
                                   !.input = i, !.started_at = t, !.step = "staging"]
<1>5. call' = [call EXCEPT ![c] = y]
  BY <1>1
<1> HIDE DEF t
<1>6. /\ y \in CallRecord /\ y.step = "staging" /\ y.origin = "worker"
      /\ y.kind = kind /\ y.key = k /\ y.input = i /\ y.started_at = t
      /\ y.makes = r /\ y.result = None
  BY <1>4 DEF NewCall, CallRecord, Busy, Origin
<1> HIDE DEF y
<1>7. /\ call' \in [Call -> CallRecord] /\ call'[c] = y
      /\ \A d \in Call \ {c} : call'[d] = call[d]
  BY <1>0, <1>5, <1>6
<1>8. /\ overlapped' \in {overlapped, overlapped \cup {k}}
      /\ k \notin overlapped' => \A e \in InProgress(k) : e \in earlier
  <2>1. overlapped' \in {overlapped, overlapped \cup {k}}
    BY DEF Claim, Overlap
  <2>2. ASSUME k \notin overlapped', NEW e \in InProgress(k)
        PROVE  e \in earlier
    <3>1. {"worker", call[e].origin} = {"worker"}
      BY <1>0, <2>2 DEF Claim, Overlap
    <3> QED
      BY <3>1 DEF InProgress
  <2> QED
    BY <2>1, <2>2
<1>9. Begins(c)
  <2>1. Made(r)' /\ call'[r].origin = "worker" /\ call'[r].key = k
        /\ call'[r].kind = kind /\ call'[r].input = i /\ call'[r].started_at = t
    <3>1. CASE earlier = {}
      BY <1>3, <1>4, <1>6, <1>7, <3>1 DEF Made
    <3>2. CASE earlier # {}
      BY <1>2, <1>7, <3>2 DEF Made, t
    <3> QED
      BY <3>1, <3>2
  <2>2. RequestOK(c)' /\ MakesOK(c)'
    BY <1>0, <1>4, <1>6, <1>7, <2>1 DEF RequestOK, MakesOK, WorkerStep
  <2>3. \/ t \in {0, Now} /\ r = c
        \/ r # c /\ t = call[r].started_at /\ t > 0
    BY <1>2, <1>3, <1>4 DEF t
  <2>4. \A d \in Call \ {c} : call[d].origin = "worker" /\ call[d].key = k
                                => call[d].makes = r
    BY <1>2
  <2> QED
    BY <1>0, <1>6, <1>7, <1>8, <2>2, <2>3, <2>4 DEF Begins, SameCall
<1>10. IdentityInv'
  BY <1>0, <1>9, IdentityBegins
<1>11. HeldInv'
  <2>1. Fits(call[c].step, call[c].makes)'
    BY <1>6, <1>7 DEF Fits, Permanent
  <2> QED
    BY <1>0, <1>6, <1>7, <1>9, <2>1, HeldBegins
<1>12. OrderInv'
  <2>1. ASSUME NEW q \in Key \ overlapped', backend = "databricks",
               c \in InProgress(q)'
        PROVE  /\ \A e \in InProgress(q) \ {c} : call[e].makes = call'[c].makes
               /\ call'[c].started_at > 0 /\ call'[c].makes \notin stored =>
                    \A s \in RowsOf(q) : call[s].started_at < call'[c].started_at
    <3>1. q = k /\ k \notin overlapped' /\ k \notin overlapped
      BY <1>6, <1>7, <1>8, <2>1 DEF InProgress
    <3>2. \A e \in InProgress(k) : e \in earlier /\ call[e].makes = r
      BY <1>2, <1>8, <3>1
    <3>3. RowsOf(k) \subseteq Call
      BY <1>0 DEF RowsOf, IdentityInv, SyncTypeOK, SinkTypeOK
    <3>4. ASSUME r \notin stored, NEW s \in RowsOf(k) PROVE call[s].started_at < t
      <4>1. CASE earlier = {}
        BY <1>0, <3>3, <4>1, NowIsLater DEF t
      <4>2. CASE earlier # {}
        <5>1. PICK d \in earlier : call[d].makes = r
          BY <1>2, <4>2
        <5>2. d \in InProgress(k)
          <6>1. call[d].step \in WorkerStep /\ Fits(call[d].step, call[d].makes)
                /\ AnswerOK(d)
            BY <1>0, <5>1 DEF IdentityInv, RequestOK, HeldInv
          <6>2. call[d].step # "answered"
            BY <3>4, <5>1, <6>1 DEF AnswerOK
          <6>3. call[d].step \notin Permanent
            BY <2>1, <6>1 DEF Fits
          <6>4. call[d].step \in Busy \/ call[d].step = "lost"
            BY <6>1, <6>2, <6>3 DEF WorkerStep, Busy
          <6> QED
            BY <3>4, <5>1, <6>4 DEF InProgress, Unfinished
        <5>3. ComesLater(k) /\ call[d].started_at = t /\ t > 0
          BY <1>0, <1>2, <1>4, <2>1, <3>1, <4>2, <5>1 DEF OrderInv, OrderOK, t
        <5> QED
          BY <3>4, <5>1, <5>2, <5>3 DEF ComesLater
      <4> QED
        BY <4>1, <4>2
    <3> QED
      BY <1>6, <1>7, <3>1, <3>2, <3>4
  <2>2. call'[c].origin # "invoke"
    BY <1>6, <1>7
  <2> QED
    BY <1>0, <1>9, <2>1, <2>2, OrderBegins
<1> QED
  BY <1>10, <1>11, <1>12 DEF SyncInv

-----------------------------------------------------------------------------
(* The theorems. *)

LEMMA SyncInvInit == Init => SyncInv
<1> SUFFICES ASSUME Init PROVE SyncInv
  OBVIOUS
<1> USE DEF Init, SinkInit
<1>1. /\ call \in [Call -> CallRecord] /\ SinkTypeOK /\ stored = {} /\ late = {}
      /\ \A c \in Call : /\ call[c].origin = "invoke" /\ call[c].key = None
                         /\ call[c].step = "new" /\ call[c].started_at = 0
                         /\ call[c].makes = c /\ call[c].result = None
  <2>1. \A c \in Call : /\ NewCall(c) \in CallRecord
                        /\ NewCall(c).origin = "invoke" /\ NewCall(c).key = None
                        /\ NewCall(c).step = "new" /\ NewCall(c).started_at = 0
                        /\ NewCall(c).makes = c /\ NewCall(c).result = None
    BY DEF NewCall, CallRecord, Origin, Kind
  <2>2. SinkTypeOK
    BY DEF SinkTypeOK, Registration
  <2> QED
    BY <2>1, <2>2
<1>2. IdentityInv
  <2>1. Begun = {} /\ Cardinality(Begun) = 0
    <3>1. Begun = {}
      BY <1>1 DEF Begun
    <3> QED
      BY <3>1, FS_EmptySet
  <2>2. SyncTypeOK
    BY <1>1 DEF SyncTypeOK
  <2>3. \A c \in Call : RequestOK(c) /\ MakesOK(c)
                        /\ call[c].started_at <= Cardinality(Begun)
    BY <1>1, <2>1 DEF RequestOK, MakesOK, Saving
  <2>4. OneRunPerKey /\ OneResultPerTime /\ \A r \in stored \cup late : Made(r)
    BY <1>1 DEF OneRunPerKey, OneResultPerTime, Made
  <2> QED
    BY <2>2, <2>3, <2>4 DEF IdentityInv
<1>3. HeldInv
  BY <1>1 DEF HeldInv, Fits, AnswerOK, LocalFollowsLab, Permanent
<1>4. OrderInv
  <2> SUFFICES ASSUME NEW k \in Key PROVE OrderOK(k)
    BY DEF OrderInv
  <2>1. InProgress(k) = {} /\ RowsOf(k) = {}
    BY <1>1, SyncNoneAssumption DEF InProgress, RowsOf
  <2>2. \A c \in Call : call[c].key # k
    BY <1>1, SyncNoneAssumption
  <2> QED
    BY <2>1, <2>2 DEF OrderOK, OneInProgress, ComesLater
<1> QED
  BY <1>2, <1>3, <1>4 DEF SyncInv

(* A stuttering step changes nothing the invariant mentions. *)
LEMMA SyncStutter ==
  ASSUME SyncInv, UNCHANGED vars
  PROVE  SyncInv'
<1>1. /\ call' = call /\ overlapped' = overlapped /\ UNCHANGED sinkVars
      /\ backend' = backend /\ stored' = stored /\ lab' = lab /\ late' = late
  BY DEF vars, sinkVars
<1>2. IdentityInv'
  <2>1. Begun' = Begun /\ \A r : Made(r)' <=> Made(r)
    BY <1>1 DEF Begun, Made
  <2>2. SyncTypeOK' /\ OneRunPerKey' /\ OneResultPerTime'
    BY <1>1, <2>1 DEF SyncInv, IdentityInv, SyncTypeOK, SinkTypeOK, OneRunPerKey,
                      OneResultPerTime
  <2>3. \A c \in Call : RequestOK(c)' /\ MakesOK(c)'
    <3> TAKE c \in Call
    <3>1. RequestOK(c) /\ MakesOK(c)
      BY DEF SyncInv, IdentityInv
    <3>2. RequestOK(c)'
      BY <1>1, <3>1 DEF RequestOK
    <3>3. MakesOK(c)'
      BY <1>1, <2>1, <3>1 DEF MakesOK
    <3> QED
      BY <3>2, <3>3
  <2> QED
    BY <1>1, <2>1, <2>2, <2>3 DEF SyncInv, IdentityInv
<1>3. HeldInv'
  BY <1>1 DEF SyncInv, HeldInv, Fits, AnswerOK, LocalFollowsLab
<1>4. OrderInv'
  BY <1>1 DEF SyncInv, OrderInv, OrderOK, OneInProgress, ComesLater, SavesAlone,
              AnsweredFirst, InProgress, Unfinished, RowsOf
<1> QED
  BY <1>2, <1>3, <1>4 DEF SyncInv

LEMMA SyncInvNext == SyncInv /\ [Next]_vars => SyncInv'
<1> SUFFICES ASSUME SyncInv, [Next]_vars PROVE SyncInv'
  OBVIOUS
<1>0. IdentityInv /\ HeldInv /\ OrderInv
  BY DEF SyncInv
<1>1. ASSUME NEW c \in Call, \E step, result : Moves(c, step, result)
      PROVE  SyncInv'
  <2>1. PICK step, result : Moves(c, step, result)
    BY <1>1
  <2> QED
    BY <1>0, <2>1, IdentityKept, HeldKept, OrderKept DEF SyncInv
<1>2. ASSUME NEW c \in Call, NEW kind \in Kind, NEW i \in Input, NEW k \in Key \cup {None},
             Receive(c, kind, k, i)
      PROVE  SyncInv'
  BY <1>2, ReceiveBegins
<1>3. ASSUME NEW c \in Call, NEW kind \in Kind, NEW i \in Input, NEW k \in Key,
             Claim(c, kind, k, i)
      PROVE  SyncInv'
  BY <1>3, ClaimBegins
<1>4. ASSUME NEW c \in Call, Publish(c) \/ Lose(c) PROVE SyncInv'
  BY <1>0, <1>1, <1>4, EndingMoves
<1>5. ASSUME NEW c \in Call, Lookup(c) \/ Recover(c) PROVE SyncInv'
  BY <1>0, <1>1, <1>5, LookupMoves
<1>6. ASSUME NEW c \in Call, Translate(c) PROVE SyncInv'
  <2>1. CASE call' = [call EXCEPT ![c].step = FirstStep, ![c].started_at = Now]
    BY <1>6, <2>1, TranslateBegins DEF Translate
  <2>2. CASE End(c, "rejected", None)
    BY <1>0, <1>1, <1>6, <2>2, EndingMoves DEF Translate
  <2> QED
    BY <1>6, <2>1, <2>2 DEF Translate
<1>7. ASSUME NEW c \in Call, NEW next \in Saving \cup Permanent \cup {"saved", "failed"},
             SaveCompletedRun(c, next)
      PROVE  SyncInv'
  BY <1>0, <1>1, <1>7, SaveMoves
<1>8. ASSUME NEW c \in Call, Land(c), UNCHANGED <<call, overlapped>> PROVE SyncInv'
  BY <1>0, <1>1, <1>8, LandMoves
<1>9. CASE UNCHANGED vars
  BY <1>9, SyncStutter
<1> QED
  BY <1>2, <1>3, <1>4, <1>5, <1>6, <1>7, <1>8, <1>9 DEF Next, Done

(* The invariant holds, for any calls, keys and contents and with every    *)
(* sink.                                                                   *)
THEOREM SyncInvariant == Spec => []SyncInv
BY SyncInvInit, SyncInvNext, PTL DEF Spec

(* The variables of invocations, publications and sinks keep their types,  *)
(* and a call has a result when it was answered.                           *)
THEOREM SyncTypeCorrect == Spec => []SyncTypeOK
<1>1. SyncInv => SyncTypeOK
  BY DEF SyncInv, IdentityInv
<1> QED
  BY <1>1, SyncInvariant, PTL

(* An answered POST /invoke names a result that is in the table and was    *)
(* made for its content and key, with every sink and through lost races    *)
(* and recoveries, although the row it finds may be that of a run and have *)
(* the digest of the run for its hash.                                     *)
THEOREM SyncAnswersAreDurable == Spec => []AnswersAreDurableAndOwn
<1>1. SyncInv => AnswersAreDurableAndOwn
  BY DEF SyncInv, HeldInv, AnswerOK, AnswersAreDurableAndOwn, Invocation
<1> QED
  BY <1>1, SyncInvariant, PTL

(* What a worker takes for published is in the table, and with Workflow    *)
(* Lab registered.                                                         *)
THEOREM SyncPublishedIsHeld == Spec => []PublishedIsHeld
<1>1. SyncInv => PublishedIsHeld
  BY DEF SyncInv, HeldInv, AnswerOK, PublishedIsHeld
<1> QED
  BY <1>1, SyncInvariant, PTL

(* A run fails with publication_conflict only when the identity of its     *)
(* result belongs to somebody else.                                        *)
THEOREM SyncConflictIsReal == Spec => []ConflictIsReal
<1>1. SyncInv => ConflictIsReal
  BY DEF SyncInv, HeldInv, Fits, ConflictIsReal
<1> QED
  BY <1>1, SyncInvariant, PTL

(* Invocations with one idempotency key are answered with one result: with *)
(* SQLite always, with Databricks when calls with the key did not overlap. *)
THEOREM SyncKeyedAnswersAgree == Spec => []KeyedAnswersAgree
<1>1. ASSUME SyncInv PROVE KeyedAnswersAgree
  <2> SUFFICES ASSUME NEW c \in Call, NEW d \in Call, Invocation(c), Invocation(d),
                      call[c].key = call[d].key, call[c].key # None,
                      \/ backend = "sqlite"
                      \/ /\ call[c].key \notin overlapped
                         /\ call[c].kind = "v1" /\ call[d].kind = "v1"
               PROVE  call[c].result = call[d].result
    BY DEF KeyedAnswersAgree
  <2> DEFINE r == call[c].result
             s == call[d].result
  <2>1. /\ call[c].origin = "invoke" /\ call[c].step = "answered"
        /\ call[d].origin = "invoke" /\ call[d].step = "answered"
        /\ call[c].key \in Key
    BY <1>1 DEF Invocation, SyncInv, IdentityInv, SyncTypeOK, CallRecord
  <2>2. /\ r \in stored /\ call[r].key = call[c].key
        /\ s \in stored /\ call[s].key = call[c].key
    BY <1>1, <2>1 DEF SyncInv, HeldInv, AnswerOK
  <2>3. CASE backend = "sqlite"
    BY <1>1, <2>2, <2>3 DEF SyncInv, HeldInv
  <2>4. CASE backend = "workflow-lab"
    BY <1>1, <2>1, <2>4 DEF SyncInv, HeldInv
  <2>5. CASE backend = "databricks"
    <3>1. AnsweredFirst(c) /\ AnsweredFirst(d)
      BY <1>1, <2>1, <2>5 DEF SyncInv, OrderInv, OrderOK
    <3>2. /\ call[r].started_at <= call[s].started_at
          /\ call[s].started_at <= call[r].started_at
      BY <2>1, <3>1 DEF AnsweredFirst
    <3>3. /\ r \in Call /\ s \in Call /\ Made(r) /\ Made(s)
          /\ call[r].started_at \in Nat /\ call[s].started_at \in Nat
      BY <1>1, <2>2 DEF SyncInv, IdentityInv, SyncTypeOK, SinkTypeOK, CallRecord
    <3> QED
      BY <1>1, <3>2, <3>3 DEF SyncInv, IdentityInv, OneResultPerTime
  <2>6. backend \in {"sqlite", "databricks", "workflow-lab"}
    BY <1>1 DEF SyncInv, IdentityInv, SyncTypeOK, SinkTypeOK, Backend
  <2> QED
    BY <2>3, <2>4, <2>5, <2>6
<1> QED
  BY <1>1, SyncInvariant, PTL
=============================================================================
