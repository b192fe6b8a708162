----------------------------- MODULE SyncInvoke -----------------------------
(***************************************************************************)
(* The callers of the result sinks.  POST /invoke of api.py: concurrent    *)
(* calls with idempotency keys look a key up, translate, save and, when    *)
(* the save fails, look the key up again.  An attempt of an asynchronous   *)
(* run stages a result, or finds one staged, and saves it into the same    *)
(* table under the key of the run, without a lookup.                       *)
(*                                                                         *)
(* Every translation makes a fresh run_id and result_id, so a result is    *)
(* named by the call that made it, and the staged result of a run by the   *)
(* first attempt at it.  What the translation decides is left open.        *)
(***************************************************************************)
EXTENDS Integers, FiniteSets, ResultSink

CONSTANTS Key,       \* idempotency keys
          Input,     \* request contents, as the hashes see them
          Complete,  \* contents in which no optional field is absent
          None       \* no key, no result

ASSUME CallAssumption == IsFiniteSet(Call)
ASSUME CompleteAssumption == Complete \subseteq Input
ASSUME SyncNoneAssumption == None \notin Call \cup Key \cup Input

(* v1: InvokeRequestEnvelope, a normalized direct bypass result included.  *)
(* v2: SharedContractV2InvokeRequest, whose request_id is its key.         *)
Kind == {"v1", "v2"}
Origin == {"invoke", "worker"}

Busy == {"lookup", "translate", "staging", "recover"} \cup Saving
Ended == {"answered", "conflict", "rejected", "unavailable", "lost"} \cup Permanent

VARIABLES call,        \* each call: its request, where it is, its answer
          overlapped   \* keys of which two calls were in progress at once

vars == <<sinkVars, call, overlapped>>

(* makes: the result it saves. *)
CallRecord == [origin : Origin, kind : Kind, key : Key \cup {None},
               input : Input \cup {None}, step : {"new"} \cup Busy \cup Ended,
               started_at : Nat, makes : Call, result : Call \cup {None}]

NewCall(c) == [origin |-> "invoke", kind |-> "v1", key |-> None, input |-> None,
               step |-> "new", started_at |-> 0, makes |-> c, result |-> None]

Init ==
  /\ SinkInit
  /\ call = [c \in Call |-> NewCall(c)]
  /\ overlapped = {}

-----------------------------------------------------------------------------
(* The repository.  "Faulty variants" are unused: plausible mistakes in    *)
(* the definition after them.                                              *)

(* The rows that get_by_idempotency_key selects.  Databricks looks for the *)
(* field idempotency_key of the stored request, which a v2 request does    *)
(* not have.                                                               *)
RowsOf(k) == {c \in stored : /\ call[c].key = k
                             /\ backend = "sqlite" \/ call[c].kind = "v1"}

(* get_by_idempotency_key: of several rows the one whose call began first. *)
Existing(k) ==
  IF RowsOf(k) = {} THEN None
  ELSE CHOOSE c \in RowsOf(k) :
         \A d \in RowsOf(k) : call[c].started_at <= call[d].started_at

AlwaysInsertable(c) == TRUE  \* faulty variant: no unique index

(* The unique index of capability_runs; the Databricks table has none. *)
Insertable(c) ==
  call[c].key = None \/ \A d \in stored : call[d].key # call[c].key

MatchesAnything(c, e) == e # None  \* faulty variant: the hash is not compared

(* A hash stands for the text that is hashed: form tells apart two texts   *)
(* of the same request.                                                    *)
CanonicalRequestHash(c) ==
  [kind |-> call[c].kind, input |-> call[c].input, form |-> "canonical"]

(* What an asynchronous run is accepted with.  Of a v1 request it takes in *)
(* the request_id, which canonical_request_hash leaves out; of a v2 request *)
(* it drops the absent fields, which canonical_request_hash writes as null. *)
NormalizedRequestDigest(c) ==
  IF call[c].kind = "v2" /\ call[c].input \in Complete THEN CanonicalRequestHash(c)
  ELSE [CanonicalRequestHash(c) EXCEPT !.form = "normalized"]

(* The request_hash that get_by_idempotency_key returns.  SQLite keeps     *)
(* what it was given, by a worker the digest of its run; Databricks hashes *)
(* the stored request anew.                                                *)
RequestHash(e) ==
  IF backend # "databricks" /\ call[e].origin = "worker" THEN NormalizedRequestDigest(e)
  ELSE CanonicalRequestHash(e)

(* existing is not None and existing.request_hash = request_hash.  A call  *)
(* with the content and the key of a run published in SQLite has a match   *)
(* only when it is a complete v2 request.                                  *)
Matches(c, e) == e # None /\ RequestHash(e) = CanonicalRequestHash(c)

-----------------------------------------------------------------------------
End(c, step, result) ==
  call' = [call EXCEPT ![c].step = step, ![c].result = result]

(* A request that lost its client is still in progress, and so is a run    *)
(* whose attempt was lost before its result was in the table: another      *)
(* attempt follows.                                                        *)
Unfinished(c) ==
  call[c].origin = "worker" /\ call[c].step = "lost" /\ call[c].makes \notin stored

InProgress(k) ==
  {c \in Call : /\ call[c].key = k
                /\ call[c].step \in Busy \/ call[c].makes \in late \/ Unfinished(c)}

(* A call with the key k begins.  The attempts of one run do not count     *)
(* against each other.                                                     *)
Overlap(k, origin) ==
  overlapped' =
    IF k # None /\ \E c \in InProgress(k) : {origin, call[c].origin} # {"worker"}
    THEN overlapped \cup {k} ELSE overlapped

(* The time, as far as its order matters: how many calls have begun.       *)
Now == 1 + Cardinality({c \in Call : call[c].started_at > 0})

(* A request arrives.  One for another execution plane is refused; one     *)
(* with a key is looked up before the work.                                *)
Receive(c, kind, k, i) ==
  /\ call[c].step = "new" /\ backend # "workflow-lab"
  /\ kind = "v2" => k # None
  /\ \E step \in {"rejected", IF k = None THEN "translate" ELSE "lookup"} :
       call' = [call EXCEPT ![c].kind = kind, ![c].key = k, ![c].input = i,
                            ![c].step = step]
  /\ Overlap(k, "invoke")
  /\ UNCHANGED sinkVars

(* An attempt of an asynchronous run is claimed.  A run is bound to its    *)
(* key, its request, the time of its first claim and its staged result, so *)
(* another attempt with the key saves the same result with the same        *)
(* started_at.                                                             *)
Claim(c, kind, k, i) ==
  LET earlier == {d \in Call : call[d].origin = "worker" /\ call[d].key = k} IN
  /\ call[c].step = "new"
  /\ \A d \in earlier : call[d].kind = kind /\ call[d].input = i
  /\ \E r \in IF earlier = {} THEN {c} ELSE {call[d].makes : d \in earlier} :
       call' = [call EXCEPT ![c] =
         [NewCall(r) EXCEPT !.origin = "worker", !.kind = kind, !.key = k, !.input = i,
                            !.started_at = IF earlier = {} THEN Now ELSE call[r].started_at,
                            !.step = "staging"]]
  /\ Overlap(k, "worker")
  /\ UNCHANGED sinkVars

(* It begins to save what it, or an attempt before it, has staged.  (An    *)
(* attempt that stages nothing is lost.)                                   *)
Publish(c) ==
  /\ call[c].step = "staging"
  /\ End(c, FirstStep, None)
  /\ UNCHANGED <<sinkVars, overlapped>>

(* The lookup before the work: a replay, a conflict, or a first request;   *)
(* an unreadable store ends the call.  With SQLite the conflict (409) may  *)
(* be with a run of the same content, whose row has its digest.            *)
Lookup(c) ==
  LET e == Existing(call[c].key) IN
  /\ call[c].step = "lookup"
  /\ \/ End(c, "unavailable", None)
     \/ IF Matches(c, e) THEN End(c, "answered", e)
        ELSE End(c, IF e = None THEN "translate" ELSE "conflict", None)
  /\ UNCHANGED <<sinkVars, overlapped>>

(* The capability returns a result, or a v2 request fails its join (422).  *)
Translate(c) ==
  /\ call[c].step = "translate"
  /\ \/ call' = [call EXCEPT ![c].step = FirstStep, ![c].started_at = Now]
     \/ call[c].kind = "v2" /\ End(c, "rejected", None)
  /\ UNCHANGED <<sinkVars, overlapped>>

(* The save failed: an invocation with a key looks for the row of a        *)
(* simultaneous one, one without a key gives up, and a worker saves the    *)
(* same staged result again.                                               *)
AfterFailedSave(c) ==
  End(c, IF call[c].origin = "worker" THEN FirstStep
         ELSE IF call[c].key # None THEN "recover" ELSE "unavailable", None)

(* One step of save_completed_run. *)
SaveCompletedRun(c, next) ==
  /\ call[c].step \in Saving
  /\ SaveStep(call[c].step, call[c].makes, Insertable(c), next)
  /\ CASE next = "saved" -> End(c, "answered", call[c].makes)
       [] next = "failed" -> AfterFailedSave(c)
       [] OTHER -> End(c, next, None)
  /\ UNCHANGED overlapped

RecoverAnyRow(c) ==  \* faulty variant: what the lookup returned is not tested
  /\ call[c].step = "recover"
  /\ \/ End(c, "unavailable", None)
     \/ End(c, "answered", Existing(call[c].key))
  /\ UNCHANGED <<sinkVars, overlapped>>

(* The lookup after a failed save; a row with another hash is not taken. *)
Recover(c) ==
  LET e == Existing(call[c].key) IN
  /\ call[c].step = "recover"
  /\ \/ End(c, "unavailable", None)
     \/ Matches(c, e) /\ End(c, "answered", e)
  /\ UNCHANGED <<sinkVars, overlapped>>

(* The process dies, or the handler raises something it does not map. *)
Lose(c) ==
  /\ call[c].step \in Busy
  /\ End(c, "lost", None)
  /\ UNCHANGED <<sinkVars, overlapped>>

(* Every call has been dealt with. *)
Done ==
  /\ \A c \in Call : call[c].step \in Ended
  /\ UNCHANGED vars

Next ==
  \/ \E c \in Call :
       \/ \E kind \in Kind, i \in Input :
            \/ \E k \in Key \cup {None} : Receive(c, kind, k, i)
            \/ \E k \in Key : Claim(c, kind, k, i)
       \/ Publish(c)
       \/ Lookup(c)
       \/ Translate(c)
       \/ \E next \in Saving \cup Permanent \cup {"saved", "failed"} :
            SaveCompletedRun(c, next)
       \/ Recover(c)
       \/ Lose(c)
       \/ Land(c) /\ UNCHANGED <<call, overlapped>>
  \/ Done

Spec == Init /\ [][Next]_vars

-----------------------------------------------------------------------------
(* Every variable has its type, and a call has a result when it was answered. *)
SyncTypeOK ==
  /\ SinkTypeOK
  /\ call \in [Call -> CallRecord]
  /\ overlapped \subseteq Key
  /\ \A c \in Call : call[c].step = "answered" <=> call[c].result # None

Invocation(c) == call[c].origin = "invoke" /\ call[c].step = "answered"

(* A call that was answered was answered with a result that is in the      *)
(* table, so it can be read again, and that was made for the very content  *)
(* of the call: the lookup, the lost race and the recovery included.  The  *)
(* row may be that of a run, which was stored under another hash function  *)
(* than the call is compared with, and still no answer is for another      *)
(* content.                                                                *)
AnswersAreDurableAndOwn ==
  \A c \in Call : Invocation(c) =>
    /\ call[c].result \in stored
    /\ call[call[c].result].input = call[c].input
    /\ call[c].key # None => call[call[c].result].key = call[c].key

(* A publication that the worker takes for done, and completes its run     *)
(* with, is held by the sink: the row, and with Workflow Lab the           *)
(* registration of the same bytes, although requests, statements and their *)
(* answers were lost, came late or were repeated.  What a later attempt    *)
(* finds in the local tables is registered as well (LocalFollowsLab).      *)
PublishedIsHeld ==
  /\ LocalFollowsLab
  /\ \A c \in Call : call[c].origin = "worker" /\ call[c].step = "answered" =>
       call[c].makes \in stored

(* A run is failed for a conflict only when somebody else holds the        *)
(* identity of its result: a registration of its own whose answer was lost *)
(* is recognised when it is tried again.                                   *)
ConflictIsReal ==
  \A c \in Call : call[c].step = "publication_conflict" => lab[call[c].makes] = "foreign"

(* Two invocations with one key are never answered with different results, *)
(* however they race: with SQLite always; with Databricks, whose lookup    *)
(* does not serialize simultaneous first requests, for v1 keys of which no *)
(* two calls were in progress at once.  A MERGE without a client is still  *)
(* in progress, and a run is from its first claim until it is published.   *)
KeyedAnswersAgree ==
  \A c, d \in Call :
    /\ Invocation(c) /\ Invocation(d)
    /\ call[c].key = call[d].key /\ call[c].key # None
    /\ \/ backend = "sqlite"
       \/ /\ call[c].key \notin overlapped
          /\ call[c].kind = "v1" /\ call[d].kind = "v1"
    => call[c].result = call[d].result
=============================================================================
