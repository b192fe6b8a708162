----------------------------- MODULE ResultSink -----------------------------
(***************************************************************************)
(* save_completed_run of the three result sinks, one step for each         *)
(* statement or request: the SQLite tables (a read, then a transaction),   *)
(* the Databricks table (a MERGE, then a readback), and Workflow Lab       *)
(* (upload, registration, resolution, then its local SQLite tables).       *)
(*                                                                         *)
(* A result is named by the call that made it; the name stands for its     *)
(* identifiers and its bytes.  A request or its answer may be lost, and a  *)
(* request whose client has given up may still take effect later.          *)
(*                                                                         *)
(* Each operator below is one step of saving the result r; next is where   *)
(* the save goes on, or how it ends.                                       *)
(***************************************************************************)
CONSTANT Call   \* calls that make or publish a result

VARIABLES backend,  \* where results are kept
          stored,   \* the results in the table
          lab,      \* what Workflow Lab has registered under each identity
          late      \* results of requests under way without a client

sinkVars == <<backend, stored, lab, late>>

Backend == {"sqlite", "databricks", "workflow-lab"}

(* A registration is immutable.  One of somebody else has another locator  *)
(* or other bytes under the identity of the result.                        *)
Registration == {"absent", "ours", "foreign"}

Saving == {"check", "insert", "merge", "readback", "upload", "register", "resolve"}

(* A WorkflowLabPublicationError that is not retryable. *)
Permanent == {"publication_conflict", "publication_integrity"}

SinkInit ==
  /\ backend \in Backend
  /\ stored = {}
  /\ \E first \in IF backend = "workflow-lab" THEN {"absent", "foreign"} ELSE {"absent"} :
       lab = [r \in Call |-> first]
  /\ late = {}

FirstStep ==
  CASE backend = "sqlite" -> "check"
    [] backend = "databricks" -> "merge"
    [] backend = "workflow-lab" -> "upload"

-----------------------------------------------------------------------------
(* SQLite.  Saving the same result again is accepted.  Any statement may   *)
(* fail; the transaction fails without effect, also when the idempotency   *)
(* key is taken (~free) or the row is there already.                       *)
CheckRow(r, next) ==
  /\ next \in {"failed", IF r \in stored THEN "saved" ELSE "insert"}
  /\ UNCHANGED sinkVars

InsertRow(r, free, next) ==
  /\ \/ next = "failed" /\ UNCHANGED stored
     \/ /\ next = "saved" /\ free /\ r \notin stored
        /\ stored' = stored \cup {r}
  /\ UNCHANGED <<backend, lab, late>>

(* Databricks.  The statement may fail after, before or without having     *)
(* taken effect; the row it did not replace is the same result.            *)
MergeRow(r, next) ==
  /\ \/ /\ next \in {"readback", "failed"}
        /\ stored' = stored \cup {r} /\ UNCHANGED late
     \/ /\ next = "failed"
        /\ late' \in {late, late \cup {r}} /\ UNCHANGED stored
  /\ UNCHANGED <<backend, lab>>

Readback(r, next) ==
  /\ next \in {"failed"} \cup (IF r \in stored THEN {"saved"} ELSE {})
  /\ UNCHANGED sinkVars

(* Workflow Lab.  Objects are kept by their digest, so an upload only      *)
(* fails, for now or for good (an oversized result, a refusal, another     *)
(* digest); it is never answered 409.                                      *)
UploadObject(next) ==
  /\ next \in {"register", "failed", "publication_integrity"}
  /\ UNCHANGED sinkVars

Registered(r) == IF lab[r] = "absent" THEN [lab EXCEPT ![r] = "ours"] ELSE lab

(* The registration is in force at once, or later. *)
TakesEffect(r) ==
  \/ lab' = Registered(r) /\ UNCHANGED late
  \/ UNCHANGED lab /\ late' = late \cup {r}

(* An answer that is lost, or 408, 429 or 5xx, is a reason to send the     *)
(* request again, twice at most.  The request may have reached the Lab.    *)
LostRegistration(r, next) ==
  /\ next \in {"register", "failed"}
  /\ TakesEffect(r) \/ UNCHANGED <<lab, late>>

ConflictAtOnce(r) ==  \* faulty variant: 409 is taken for a conflict
  IF lab[r] = "absent" THEN {"resolve"} ELSE {"publication_conflict"}

(* Where the answer to a registration leads.  409 may be about the result  *)
(* of an earlier try: what is registered is resolved and compared, as it   *)
(* is after 2xx.  404 is "not imported", any other 4xx is final.           *)
AnsweredRegistration(r) == {"resolve", "publication_integrity", "failed"}

RegisterResult(r, next) ==
  /\ \/ LostRegistration(r, next)
     \/ /\ next \in AnsweredRegistration(r)
        /\ IF next = "resolve" THEN TakesEffect(r) ELSE UNCHANGED <<lab, late>>
  /\ UNCHANGED <<backend, stored>>

AbsenceIsFine(r) == IF lab[r] = "foreign" THEN {"failed"} ELSE {"check"}  \* faulty variant

(* What resolve answers, as publish classifies it: the same bytes; nothing *)
(* under the locator (404); another locator, or other bytes.               *)
Resolution(r) ==
  CASE lab[r] = "ours" -> {"check"}
    [] lab[r] = "absent" -> {"failed"}
    [] lab[r] = "foreign" -> {"failed", "publication_conflict"}

(* It may also be out of reach, or the download may be broken. *)
ResolveResult(r, next) ==
  /\ next \in {"failed", "publication_integrity"} \cup Resolution(r)
  /\ UNCHANGED sinkVars

SaveStep(step, r, free, next) ==
  CASE step = "check" -> CheckRow(r, next)
    [] step = "insert" -> InsertRow(r, free, next)
    [] step = "merge" -> MergeRow(r, next)
    [] step = "readback" -> Readback(r, next)
    [] step = "upload" -> UploadObject(next)
    [] step = "register" -> RegisterResult(r, next)
    [] step = "resolve" -> ResolveResult(r, next)

(* A request without a client takes effect. *)
Land(r) ==
  /\ r \in late
  /\ late' = late \ {r}
  /\ IF backend = "databricks" THEN stored' = stored \cup {r} /\ UNCHANGED lab
     ELSE lab' = Registered(r) /\ UNCHANGED stored
  /\ UNCHANGED backend

-----------------------------------------------------------------------------
SinkTypeOK ==
  /\ backend \in Backend
  /\ stored \subseteq Call
  /\ lab \in [Call -> Registration]
  /\ late \subseteq Call

(* The local tables of the Workflow Lab sink follow Workflow Lab: a row    *)
(* that a later attempt finds there, and takes for a published result, is  *)
(* the registered one, whatever was lost or repeated on the way.           *)
LocalFollowsLab ==
  backend = "workflow-lab" => \A r \in stored : lab[r] = "ours"
=============================================================================
