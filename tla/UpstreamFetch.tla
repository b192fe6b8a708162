--------------------------- MODULE UpstreamFetch ---------------------------
(***************************************************************************)
(* DatabricksUpstreamResultResolver.fetch of upstream_databricks.py: one   *)
(* row of a producer's table is read by the key of a reference, decoded,   *)
(* and verified against itself and, when the caller has one, against an    *)
(* immutable locator.  And WorkflowLabUpstreamResultResolver.fetch of      *)
(* workflow_lab.py, which resolves the locator at Workflow Lab.            *)
(*                                                                         *)
(* A row is abstracted to what the verification finds out about it.  What  *)
(* a fetch may hand over is a set, so the modules that call it choose from *)
(* the set, or take the refusal.                                           *)
(*                                                                         *)
(* The callers are sequential code that looks at a cancellation signal now *)
(* and then; the variables of their control are declared here.             *)
(***************************************************************************)
EXTENDS Naturals

VARIABLES stage,   \* what the resolution does next
          at,      \* the record, role or obligation it does it for
          signal   \* the cancellation signal of the run is set

control == <<stage, at, signal>>

Ended == {"resolved", "refused", "planned", "rejected", "inexpressible",
          "unreachable", "canceled"}

Goto(next) == stage' = next /\ at' = 1 /\ UNCHANGED signal

AdvancePast(last, next) ==  \* faulty variant: one turn too many
  IF at > last THEN Goto(next) ELSE at' = at + 1 /\ UNCHANGED <<stage, signal>>

(* A loop goes through its items in order and then to the next stage. *)
Advance(last, next) ==
  IF at = last THEN Goto(next) ELSE at' = at + 1 /\ UNCHANGED <<stage, signal>>

(* The signal is set by another thread. *)
SetSignal ==
  /\ ~signal /\ stage \notin Ended
  /\ signal' = TRUE
  /\ UNCHANGED <<stage, at>>

-----------------------------------------------------------------------------

(* The shape is chosen by the prefix of the key alone; it is also the name *)
(* of the producer whose table has such keys.                              *)
Shape == {"check", "defense", "mitigation", "bypass"}

(* approved: catalog, schema and table are those of the shape. *)
Reference == [prefix : Shape \cup {"unknown"}, approved : BOOLEAN]

(* The Databricks reference in a locator: OrchestrationUpstreamInput and   *)
(* SharedContractV2UpstreamInput accept no other.                          *)
LocatedAt(shape) == [prefix |-> shape, approved |-> TRUE]

(* The locator the caller passes: none, a strict OrchestrationUpstreamInput *)
(* or a SharedContractV2UpstreamInput.                                     *)
LocatorKind == {"none", "strict", "v2"}

Contract == {"check@2.1", "defense@1.0", "mitigation@1.0", "bypass@1.0",
             "bypass@2.0", "other", "none"}

ContractsOf ==
  [check |-> {"check@2.1"}, defense |-> {"defense@1.0"},
   mitigation |-> {"mitigation@1.0"}, bypass |-> {"bypass@1.0", "bypass@2.0"}]

(* capability, contract  what the result says of its producer              *)
(* payload   the cell holds the document, a manifest whose content was     *)
(*           read, or something that cannot be decoded or hydrated         *)
(* fields    run_id, result_id, terminal_state, result_ref and status in   *)
(*           the result: absent, those of the row, or others               *)
(* declared  content_sha256 and size_bytes in the result, against the      *)
(*           digest recomputed from it                                     *)
(* column    the digest columns of the row hold the recomputed digest      *)
(* completion  completion_json agrees with the result                      *)
(* caller    request, correlation, run, state and status are the locator's *)
(* content   the recomputed digest is the one the locator names            *)
(* created   every creation time there is agrees                           *)
Row ==
  [capability : Shape \cup {"none"}, contract : Contract,
   payload : {"inline", "hydrated", "broken"},
   fields : {"absent", "row", "other"},
   declared : {"absent", "content", "other"},
   column : BOOLEAN, completion : BOOLEAN, caller : BOOLEAN,
   content : {"pinned", "other"}, created : BOOLEAN]

(* A check row is read for the four-result join only; other modes carry    *)
(* no v2 locator.                                                          *)
Readable(ref, kind) ==
  /\ ref.prefix \in Shape
  /\ ref.approved
  /\ ref.prefix = "check" => kind = "v2"

Strict(kind) == kind # "none"

(* A producer names itself; Bypass Validation may leave its name out.      *)
NamesProducer(shape, row) ==
  /\ row.capability = shape \/ (shape = "bypass" /\ row.capability = "none")
  /\ row.contract \in ContractsOf[shape]

FieldsAgree(kind, row) ==
  IF Strict(kind) THEN row.fields = "row" ELSE row.fields # "other"

(* _producer_integrity, and for Bypass Validation the columns of the row   *)
(* and the completion.                                                     *)
DigestHolds(shape, kind, row) ==
  IF shape = "bypass" THEN row.column /\ row.completion
  ELSE Strict(kind) \/ row.declared # "absent" => row.declared = "content"

LocatorAgrees(kind, row) ==
  Strict(kind) => row.caller /\ row.content = "pinned" /\ row.created

(* The wrapper of Check Generation has no producer digest of its own: its  *)
(* manifest must match the columns, the row must be the locator's, and the *)
(* logical document rebuilt from it must have the locator's digest.        *)
CheckHolds(row) ==
  /\ row.payload = "hydrated" => row.column
  /\ row.caller
  /\ row.content = "pinned"

Verified(shape, kind, row) ==
  /\ row.payload # "broken"
  /\ IF shape = "check" THEN CheckHolds(row)
     ELSE /\ NamesProducer(shape, row)
          /\ FieldsAgree(kind, row)
          /\ DigestHolds(shape, kind, row)
          /\ LocatorAgrees(kind, row)

(* What fetch hands over of the rows it accepts.  (A definition without    *)
(* parameters, so that it is evaluated once.)                              *)
Delivered ==
  [shape \in Shape |-> [kind \in LocatorKind |->
     {[capability |-> row.capability, contract |-> row.contract,
       content |-> row.content] : row \in {r \in Row : Verified(shape, kind, r)}}]]

(* Workflow Lab answers with the locator it was asked for and an object    *)
(* whose digest is compared with the locator's.  The names, identifiers    *)
(* and states in the document are not compared: those of the record are    *)
(* taken from the locator.                                                 *)
LabDelivered ==
  [capability : Shape \cup {"none"}, contract : Contract, content : {"pinned"}]
=============================================================================
