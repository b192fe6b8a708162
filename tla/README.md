# control-translation: verification project

TLA+ models of the control-translation service (Python, `src/src/control_translation/`)
and of its Go counterpart (`src/go-api/`), TLC configurations that check them on small
instances, and TLAPS proofs of the properties that matter most for every instance.

## 1. The system

The service turns a proven mitigation pattern into a candidate rule for a target control
(Akamai WAF, PAN-OS, SentinelOne).  A request is answered synchronously (`POST /invoke`)
or accepted as a durable asynchronous run (`POST /v1/control-translation-runs`) that a
worker executes; the orchestrator polls it, cancels it, or is called back when it ends.

| Component | State | Operations | What is hard | What makes it correct |
|---|---|---|---|---|
| Lifecycle store (`persistence/sqlite.py`) | `capability_run_lifecycle`, `callback_deliveries` | create, claim, heartbeat, prepare, begin, complete, fail, cancel, outbox insert | every guard is a WHERE clause; calls come from several processes and from attempts that lost their run | a run ends once, stays ended, its event says what happened, staged bytes are write-once |
| Lifecycle worker (`lifecycle.py`) | threads, `_publish_lock`, registered attempt, abort events | claim, watch, heartbeat, translate, stage, publish, complete, persist failure, stop | detached attempts, crashes between the sink write and the completion, cancellation races, stale reads | one result per run in the sink; a canceled run is never published; every run ends |
| Result sinks (`persistence/databricks.py`, `split.py`, `workflow_lab.py`, `sqlite.py`) | the results table, the registrations of Workflow Lab | save, read back, upload, register, resolve | lost and late answers, repeated saves, a crash between two stores | what is taken for published is held by the sink; an own registration is not a conflict |
| Callback dispatcher (`callbacks.py`) | the batch being worked | list due, post, record, back off | a crash between post and record; two dispatchers during a deployment | delivered means accepted; a settled event stays settled; no event starves |
| Go queue and worker (`go-api/internal/lifecycle`, `httpapi/worker.go`) | one row per run, the Databricks results table | create, claim, heartbeat, complete, fail, cancel | statements without fences, two stores without a transaction | completed runs point at a result and stay completed |
| HTTP APIs | none of their own | submit, invoke, status, result, cancel | two requests with one idempotency key | one outcome per key |
| Capability gates (`capability.py`, `terminal.py`) | none | the sequence of checks that decides the terminal state | order and coverage of the gates | fail closed |
| Translation engine, agents | the attempt budget of one call | propose, judge, repair | the repair loop | no rejected candidate is returned |
| ModSecurity to Akamai compiler | none | parse, normalise, compile | semantics of patterns | equivalence or refusal |
| Upstream resolution (`upstream.py`, `upstream_databricks.py`, `workflow_lab.py`) | none | fetch a row or object, verify it, compare lineages, promote a pattern | rewritten rows, references in the wrong role, ambiguous lineage, cancellation during reads | one lineage, the three producers, pinned content |
| Shared contracts v2 (`shared_contracts_v2.py`) | none | join of four results, WAF translation plan | coverage graphs, partial evidence, mixed attempts, path variants | verified means proven for every obligation; a plan is whole and not wider |
| Migrations, configuration, adapters, policy reader, demo UI | schema version; none | | | |

`PROJECT.json` lists the components with their status, the hazards (each at its line of
code, with the properties that would catch it) and, under `map`, the lines of code that
every definition stands for.

## 2. The modules

### LifecycleStore
The two tables of `persistence/sqlite.py`.  Each repository method is one SQLite
transaction (`BEGIN IMMEDIATE`), hence one action, sweep of the claim and outbox insert
included.  `Next` is the *most general client*: any worker id, any attempt number, any
bytes, at any time.  What is shown of `Spec` is what the SQL gives whatever the callers do.

Abstractions: a run is its idempotency key; `lease_expires_at` is `none`, `live` or
`expired` (the action `ExpireLease` is the clock); a canonical result is a member of
`Bytes` with the domain state `TerminalStateOf` reads out of it; progress text,
identifiers and failure details are left out.

### LifecycleWorker (EXTENDS LifecycleStore)
The callers the code really has.  Per process: the main thread (`main`), the publish lock
(`lock`), and cancellations that are recorded but whose `notify_cancellation` has not run
yet (`notices`).  Per attempt `<<run, attempt_number>>`: its thread (`pc`), the abort
event, the heartbeat thread (`beat`) and the locals that survive a call (`made`, `view`).
One step is one repository or sink call, so every other thread and process can act
between two of them; a step's name is the point of `_process` it stands at.  An attempt
whose abort event is set is *detached*: the main thread stops watching it, its thread goes
on.  `Exit` is the end of a process at any point; `RepositoryFault`, `PersistenceFault`
and the outcomes of `SaveCompletedRun` are failing calls, with and without effect.

The heartbeat's status read is taken together with its renewal: a cancellation between
the two sets the same abort event as one right before or after.  `build_lifecycle_result`
assembles the bytes and is a choice from `Bytes`.

### RunContract
The abstract specification of one run: accepted, begun, publication decided, published,
ended once, announced once; cancelable only before the decision.  `ImplementsContract` in
LifecycleWorker states that every run, seen through the refinement mapping, takes only
steps of the contract.  A claim can end several runs and start another, so the statement
is one step formula over all runs and not one specification per run.

### CallbackDispatcher (EXTENDS LifecycleStore)
`deliver_due` over the outbox: list a batch, post each event, record the answer.
`next_attempt_at` is abstracted to the order it gives: `old` (due when the last batch was
listed), `fresh` (due since), `waiting`.  An event retried at once (Retry-After 0) goes
behind everything that was due; one that waits may come due in any order among the fresh.
Attempt counts saturate at `AttemptCap`, as the backoff schedule does.  `accepted` is a
history variable: what the orchestrator took.

### GoLifecycle
The Go queue, its worker and the results table, one replica (the queue is a local SQLite
file).  `ClaimNextQueuedRun` is two statements, so it is two steps.

### ResultSink
`save_completed_run` of the three sinks, one step per statement or request: SQLite reads the
row and inserts it in a second transaction; Databricks runs a MERGE and reads the row back;
Workflow Lab uploads, registers and resolves the result and then saves it in local SQLite
tables.  A result is a name that stands for its identifiers and its bytes.  A statement or
request may fail with or without effect, its answer may be lost, and it may take effect after
its client has given up (`late`, `Land`).  Workflow Lab is external: a registration is
immutable, a 409 is about an identity that is taken (by this result or by somebody else's),
an upload is kept by its digest.  The client's three tries are a choice between trying again
and giving up; their number matters for the duration only.

LifecycleWorker keeps the sink as one cell per run whose save succeeds only when the cell
holds the staged bytes, and may fail with or without having written.  `PublishedIsHeld` is
what justifies this for each sink.  A write that lands late needs no action there: the worker
reads the cell only before anything is staged, so a late write cannot be told from an early
one.

### SyncInvoke (EXTENDS ResultSink)
The callers of the sinks.  `POST /invoke`: lookup of the idempotency key, translation, save,
and the second lookup after a failed save, for concurrent calls.  An attempt of an
asynchronous run is claimed (`Claim`), stages a result or finds one staged, and saves it into
the same table under the same key without a lookup (`Publish`); further attempts of the run save
the same staged result with the `started_at` of the first claim.  A result is named by the call that
made it, since every translation makes fresh identifiers; a request is its key, its kind (v1
or shared contract v2) and its content.  There are two hashes of a request.  `/invoke` stores and
compares `canonical_request_hash`; a run is accepted, and its row stored in SQLite, with
`normalized_request_digest`.  Databricks stores neither and hashes the stored request anew.  A hash
is modelled by the text it is taken of: of a v1 request the two texts always differ (the digest
has the `request_id`), of a v2 request they are the same when no optional field is absent, which
is the set `Complete` of contents.  So on SQLite the row of a run answers an invocation with its
key and content only when that is a complete v2 request; every other one ends as a conflict or,
after a failed save, as unavailable.  SQLite has a unique
index on the key; Databricks has none and finds the key in the stored request, which a v2
request does not carry.  Workflow Lab has publications only.  `overlapped` is a history
variable: keys of which two calls were in progress at once.  A MERGE without a client counts
as one, and so does a run from its first claim until its row is there, while its own attempts do
not count against each other.  Not in the model: clocks of several replicas that disagree about `created_at`.

### TranslationCapability
One invocation of `capability.py` and `translation/engine.py`: resolution of the input,
gates 1 to 3, the deterministic Akamai paths in the order the code tries them, the keyword
gate, the doer, the policy and syntax judges, one repair, the semantic judges and the
conflict check.  `pc` is the point of the code; the cancellation signal may be set between
any two steps and is looked at where the code calls `check_cancelled`.  A proposal is
what the judges find out about it (label, form of its content, whether it preserves the
proven forms, whether it conflicts); what regular expressions, parsers, adapters and the
upstream resolution answer is left open.  The endings are `returned` with a typed result,
`canceled` (`OperationCancelled`), and `raised` (an exception that no result stands for).

### UpstreamFetch
One `fetch` of an upstream result.  On the Databricks plane a row is abstracted to what
`_verify_immutable_result` finds out about it (who it names, whether its fields, digests,
columns and completion agree, whether they are the locator's); `Delivered` is the set of what
an accepted row may look like to the caller.  `LabDelivered` is the same for Workflow Lab,
where only the digest is compared with the locator.  The module also declares the control
shared by the modules that extend it: the stage, the item of the loop, the signal.

### ProofLoop (EXTENDS UpstreamFetch)
`resolve_proof_loop`: three fetches with the checks after each, the lineage loop, the
comparison with the orchestration subject or, without one, of the three documents with each
other, and the promotion.  A document is the set of identifiers found in it under each key,
so that *none*, *one* and *ambiguous* are told apart as `_one_value` does.

### FourResultJoin (EXTENDS UpstreamFetch)
`resolve_and_verify_four_result_join`: fetches, locators, the semantics of Check Generation
with its coverage graph, the bundle and mappings of Defense Generation, the cases of
Mitigation Check, the campaigns of Bypass Validation and their totals, each a stage or a loop
over the obligations in the order of the code.  A stage chooses the part of the document it
reads, rejects it or keeps what later stages compare with; what a document must satisfy on its
own (schemas, orderings, digests, encodings of wire values) is one verdict, `intact` or
`sound`.  `_coverage_members` is a recursive function of the groups being visited and the node;
`CoverageIsReachability` compares it with reachability, defined as a least closed set.

### WafPlan (EXTENDS FourResultJoin)
`build_waf_translation_plan`: each artifact is a rule set, whose coverage asks for sets of
components, possibly bound to the routes of test inputs, or a document of carrier bindings.
A rule is what it requires of a request (components, route, exact path), so that rules can be
evaluated on the requests the test inputs stand for.

### EvidencePipeline (EXTENDS ProofLoop, WafPlan)
One request resolved one way: `invoke_envelope` through the proof loop, or
`invoke_shared_contract_v2` through the join and the plan.  What it ends with is what the
first step of TranslationCapability leaves open.

### MC modules and proof modules
`MCLifecycleWorker`, `MCCallbackDispatcher`, `MCSyncInvoke` and `MCEvidencePipeline` give TLC
the constants and symmetries.  The theorems are in `LifecycleStoreProofs`,
`LifecycleWorkerProofs`, `WorkerContractProofs`, `CallbackDispatcherProofs`,
`GoLifecycleProofs`, `SyncInvokeProofs`, `TranslationCapabilityProofs` and `EvidenceProofs`.  Definitions marked *faulty variant* are unused by the specifications: each is a
plausible mistake in the definition after it, and the `mutants` of `PROJECT.json` show which
property notices it.

## 3. The runs

Deadlock is checked in every run.

| Run | Instance | Shows |
|---|---|---|
| takeover | 1 run, 2 processes, 2 results, 2 attempts | through crashes, lost leases, detached attempts and failing saves the sink holds the staged bytes, canceled runs are not published, completed ones are, the lock and the heartbeats follow the right attempt, and the run keeps its contract |
| termination | 1 run, 2 processes, 1 attempt, fair | every run ends; the publish lock comes free |
| store_and_callbacks | 1 run, 2 workers, 2 results, 2 attempts, 2 dispatchers, 1 crash | the SQL guards alone give typing, ownership, the cutoff, a truthful outbox, finality, write-once staging and the precedence of completion, under any calls; delivered means accepted and settled is final |
| callbacks_single | 2 runs, 1 dispatcher, batches of one, fair | a healthy event is settled behind one that is retried for ever |
| go_lifecycle | 2 runs, 2 attempts, 2 incarnations | completed runs point at a result; an ended run stays as it is, but for a canceled one that a failing attempt of its own puts back |
| invocations_and_sinks | 3 calls, 1 key, 2 contents, three sinks | an answer is stored and fits its request; answers of one key agree; what is taken for published is held by the sink; the local row follows Workflow Lab; a conflict is somebody else's |
| translation | 3 technologies, 2 of them carried, every form of request | what is translated was judged, also after a repair; an executable SecRule never reaches a model; the inference record is true; no verdict after the signal; every invocation ends |
| evidence | 3 roles and 2 identifiers; 2 members, inputs, components, groups, obligations, artifacts, 3 attempts | a resolved loop has one lineage, its three producers and pinned content, and its qualification is what was read; a verified join is one chain and proves every obligation; the coverage walk is reachability; a plan matches the inputs, is not wider and is complete; the signal stops the loop |
| pending_recovery, go_duplicate_result, go_cancellation, go_termination | the same or smaller | violations, see section 6 |

Why the bounds are enough.  Two attempts are the least with which an attempt is taken
over and the taker's attempt is the last one, so every branch of the claim's sweep is
reached; two processes give a fenced and a fencing worker; two results distinguish a
regenerated result from the staged one.  A
claim that sweeps one run and claims another needs two runs; no run of TLC has them together
with workers, but what the store and the workers guarantee is proved for any number.
With one run and two attempts one process already holds a detached attempt
next to a live one, which is what the publish lock and the heartbeats are about.  The
liveness run has one attempt per run because two processes with two attempts exceed what
TLC's liveness check does in minutes.  Two events and batches of one are the least with
which an event can starve another.

Three calls on one key are a winner, a loser of the race and a later replay, each
possibly a publication, or two attempts of one run beside an invocation; calls with other keys
do not interact.  One case takes a fourth call and is out of this bound (section 6); the
theorems of `SyncInvokeProofs` are about any number.  Calls are interchangeable (symmetry; the
run has no liveness property).  Of the two contents one has all its optional fields and one has
not, so that both outcomes of comparing the two hashes occur.  One call of the capability
keeps no state beyond itself, so one invocation with every form of request is complete.

In the evidence run two identifiers are ours and another; a third would be another again.
Two components, one of them a path component, two inputs and two obligations let obligations
share and split what they cover and need, two groups can form a cycle and a shared group, three
attempts allow a reuse within and across campaigns, and two artifacts are a rule set and its
bindings, two rule sets, or a plan that fails half way.  Inputs are interchangeable.

Bounds in guards: `Replaceable` (a process goes away only while another can serve),
`MaxCrashes`, `AttemptCap`, `Incarnations`; each is named where it is used.

### Fairness
Threads that can run do run (`AttemptStep`, `Watch`, `Claim`, `HeartbeatEnds`), a stopping
process ends, a deployed one starts, and the clock passes a lease that nobody renews
(`Unattended`).  This is the operating system's scheduling, the polling loop of `_run` and
bounded client timeouts of the sink.  No failure, crash, cancellation or submission is
fair.  A translation is assumed to return: `_process` waits for it without a timeout.

For the dispatcher, strong fairness of a post and of its record says that neither an
unmapped exception nor a failing record repeats for ever, and that a healthy endpoint asked
again and again accepts once.  The first of these is an assumption about the environment,
not something the code ensures: see the hazard at `callbacks.py:306`.

For the capability, weak fairness of its steps says that the code runs on and that a call
of the doer returns or times out (the clients have timeouts); the signal is not fair.

## 4. What is proved

`LifecycleStoreProofs`, for all finite sets of runs, all workers, results and attempt
bounds: typing, `OwnedWhileRunning`, `CancelRequestedOnlyPastCutoff`,
`OutboxTellsTheTruth`, `TerminalIsFinal`, `PreparedIsWriteOnce`, `CompletionBeatsCancel`.

The argument is per row.  `RowOK` is the inductive invariant of one row (its type,
ownership exactly while running, a recorded cancellation only past the cutoff, staged bytes
exactly past the state `none`, and so on); `RowStep(x, y)` is what any statement may make
of a row; `EventOK` ties the event to the row.  The lemma `EveryRowSteps` shows that every
action takes every row by a `RowStep` from `RowOK` to `RowOK`, one lemma per SET clause and
one per action.  The invariants follow from `RowOK` and `EventOK`, the action properties
from `RowStep`.  `OutboxTellsTheTruth` needs that an ended row no longer changes its
status, which is why the invariant and the step relation are proved together.

`LifecycleWorkerProofs`, for all sets of runs, workers, results and attempt bounds:

- `WorkersUseTheStore`: `WSpec => Spec`.  Every step of the workers is a step of the
  store's most general client or leaves the store alone, so the store's theorems hold of
  the workers.
- `WorkerTypeCorrect`, `WorkerSink`, `WorkerCanceled`, `WorkerCompleted`: from
  `WorkerInv`.  Its core says what an attempt thread may rely on at each step although its
  run may have been taken over: what it read as prepared is what the row has staged (staged
  bytes are write-once); an attempt at `save` or `complete` belongs to a run past the
  cutoff, or to one that has ended without cancellation; what the sink holds is staged and
  its run is past the cutoff or failed.  `PastCutoffStays` (a consequence of `RowStep`) carries
  these facts over steps of other processes.

`WorkerContractProofs`, under the same assumptions:

- `WorkersImplementContract`: the refinement.  `RowMove` sharpens `RowStep` to what the contract
  speaks of (the status moves along queued, running, ended; nothing is published that was not
  pending; attempt numbers grow), and `RowLife` ties the publication to the status
  (`StoreLife`).  With what `WorkerInv` says of the sink, each row's move, the events and the
  sink write of a step are one step of the run's contract, or none.
- `WorkersAreContained`: from `ThreadInv`, which ties each attempt thread to the process
  that runs it, its point in the code to the lock, and its heartbeat to the main thread that
  watches it.  It is needed because a process that holds several attempts, detached ones among
  them, has one lock.

`CallbackDispatcherProofs`, for any number of runs and dispatchers and any batch size:
`DTypeOK`, `DeliveredWasAccepted`, `SettledIsFinal`, and once more the six properties of the
store, now while dispatchers write the outbox beside it: a step of a dispatcher leaves the rows
alone, and any other step takes each of them by a `RowStep` (`RowsUnderDelivery`).  `DInv` says that `old`, `fresh` and `waiting` partition the
undelivered events (`QueuesOK`), that a delivered event was accepted (`EventsOK`), and that a
reply is about the head of its batch (`BatchesOK`); the batch may be stale, so nothing is said
of its events beyond that.  The queue lemmas say what concatenation, cutting, insertion and
removal do to the entries and the uniqueness of a queue.

`GoLifecycleProofs`, for any finite set of runs, any attempt bound and any number of
incarnations: `GoTypeOK`, `CompletedPointsAtResult`, `EndedIsFinal`, `SavesAreClaims`.  `FailLifecycleRun`
does not look at the row, so the second and the third are not properties of the statements alone:
`GoInv` adds that the run the worker holds, from its claim to its last statement, was not
completed by anybody else, and that before the completion its result is in the table.  What
remains of finality is exact: an ended run changes only when a failing attempt puts back a run
that was canceled under it.  `SavesAreClaims` bounds what `OneResultPerRun` (section 6) gets
wrong: the results table has at most as many rows as there were claims, and so at most the
attempt bound times the number of runs.  This is not true run by run (section 6); `CountInv`
counts over the whole queue, with one claim in hand while the worker holds a run it has not saved
(`Unused`).

`SyncInvokeProofs`, for any finite set of calls and any keys and contents, with each of the
three sinks: `SyncTypeOK`, `AnswersAreDurableAndOwn`, `PublishedIsHeld`, `ConflictIsReal`,
`KeyedAnswersAgree`.  `SyncInv` has three parts.  `IdentityInv`: who made which result, that
attempts of one run make one, and that start times tell results apart.  `HeldInv`: where a save
can be with each sink, that answers are stored, that the local row follows the registration.
`MatchIsOwn` says that the comparison of hashes lets no other content or kind through, although
rows are stored with two hash functions.  `OrderInv`, for Databricks and keys without overlap: one result at a time is in progress,
it will begin later than every row of the key, an invocation past its lookup is the only one to
have saved, and an answer is the first row.  The proof of this part failed at first for a good
reason (see section 6), and the model was corrected.

`TranslationCapabilityProofs`, for any technologies and adapters: `CapabilityTypeOK`,
`TranslatedIsJudged`, `SecRuleNeverGuessed`, `InferenceIsTruthful`, `NoVerdictAfterSignal`.
`CapInv` says by the point of the code which judges the present proposal has passed (a repair
takes all of that back) and how often the doer was asked.  `CapabilityStepsDescend` is the safety
half of `InvocationEnds`: each step lowers `ToGo` of the point of the code, by which an invocation
has at most fourteen steps, whatever is answered to it.

`EvidenceProofs`, for any identifiers, members, inputs, components, groups, obligations,
artifacts, attempts and number of documents: `EvidenceTypeOK`, `ResolvedLineageIsOne`,
`RecordsAreGenuine`, `SignalStopsTheLoop`, `VerifiedIsProven`, `VerifiedIsOneChain`,
`PlannedIsFaithful`, `CoverageIsReachability`.  `EvidenceInv` has one part for each resolution and one for the control.
`LoopInv`: the records of the roles fetched so far are genuine, and what is named is established
from the first comparison on.  `JoinInv`: for the obligations each loop has dealt with (`Dealt`:
those before the current turn, all of them in later stages), what the loop has found out still
holds, and the number of executed attempts is the cardinality of the set of their identifiers.
`PlanInv`: each rule is the independent one of its alternative, or one of the variants on a
route the alternative holds on, and all of these variants are in the plan; from this follows
that an input on the route is matched by the variant with its own path payload.

`CoverageIsReachability` is about the recursive walk, for any finite graph of groups.  That the
recursive function exists at all is proved first (`WalkExists`): the equation is monotone in
what it finds further down, so the intersection of all assignments it makes no larger solves it.
`WalkStaysBelow` says that a walk finds only what is below its node: of the walks that find
anything else one has the fewest groups left to enter (`WFMin`), and the walk on to the child
where that was found has fewer.  `WalkReaches` says that a walk which does not fail finds all of it
and meets no cycle: the nodes it comes to within a group are closed under the children, so they
contain everything below, and the group itself is not among them.  `CoverInv` carries the result from the turn of an obligation to the end of the
join.

`EvidenceGoesOnward`: no step of the proof loop, the join or the plan goes back to a stage that
was left or repeats a turn, and no loop has more turns than items; so a resolution ends, if its
steps are taken.

Assumptions, each evaluated by TLC on the runs: `Run` is finite (the creation order counts
rows), `TerminalStateOf` is a function from `Bytes` to the domain states, `MaxAttempts` is
positive, `None` is none of the values it stands beside (`NoAttemptAssumption`: no attempt
either); `Call` is finite and `Complete` a set of contents; a request and its attempts have finitely many inputs, components
and attempt identifiers and finitely many coverage groups, the mark of a failed walk is no
component, the obligations are a sequence that is not empty, `Ours` is an
identifier, a candidate has at least one artifact.

## 5. What is only model-checked
- Liveness (`EveryRunEnds`, `LockComesFree`, `HealthyIsSettled`, `InvocationEnds`) is outside
  the prover's reach.  What safety contributes to it is proved: attempt numbers grow and are
  bounded (`StoreTypeCorrect`, `WorkersImplementContract`), the lock is held only in locked blocks
  (`WorkersAreContained`), every undelivered event is in a queue (`DispatcherTypeCorrect`), and
  invocations and resolutions do not go back (`CapabilityStepsDescend`, `EvidenceGoesOnward`).
- The four `violation` runs are counterexamples.

## 6. Findings
Each is a `violation` run with the quoted sentence in `PROJECT.json`.

- *pending_recovery*: the claim fails a pending publication whose attempts are used up
  although the sink holds its row; `docs/orchestration-integration.md` says such a
  recovery is not discarded by the attempt bound.
- *go_duplicate_result*: each Go attempt makes a new `result_id`, so the MERGE does insert
  a second row.
- *go_cancellation*: a run is canceled after its result was saved; and the unfenced
  `FailLifecycleRun` puts a canceled run without a result back to the queue.  The rule in
  `go-api/README.md` is stated once, as `CancellationRule`.
- *go_termination*: a Go run whose last attempt is lost stays `running`.

Observations, without a run of their own:

- Past the cutoff a failed run may have a row in the sink (the contract allows it); the
  `canceled` branches of complete, fail and the sweep are unreachable
  (`CancelRequestedOnlyPastCutoff`).
- With two overlapping dispatchers an event may be posted after it was settled and its
  attempt count may fall back; `SettledIsFinal` is what remains.
- A Go run may get more results than it had attempts.  The worker's SELECT after its claim takes
  the run last updated of those running under its name (`store.go:195`); when the run it claimed
  was canceled in between, that is one it left running earlier, which is then processed without a
  claim of its own.  Over the whole queue there are no more results than claims
  (`GoSavesAreClaims`).
- A run whose result is a malfunction ends as `completed` (`sqlite.py:851`); `docs/LLD.md:238`
  says `malfunction` maps to `failed`.
- The plan always has `target_artifacts=()` (`shared_contracts_v2.py:2596`), although
  `docs/shared-attack-contracts-v2.md:59` speaks of emitted ones; the rules are in the proposal.
- A request without pattern and without references ends in a TypeError
  (`capability.py:175`, an argument the callee does not have), and an exact or equivalent
  rule set of a doer under proof-loop requirements in a KeyError (`engine.py:776`).  Both
  fail closed, without a typed result.
- On SQLite an invocation that repeats the request of a published asynchronous run is answered
  409, or 503 after a failed save, unless it is a v2 request without absent fields: the row has
  `normalized_request_digest` (`api.py:686`, `lifecycle.py:368`), and `/invoke` compares
  `canonical_request_hash` (`api.py:439`, `api.py:468`, `api.py:533`).  `README.md:556` says of
  the key that "repeating the same validated request with that key returns the original run".
  The refusal is safe (`AnswersAreDurableAndOwn`); on Databricks a v1 invocation is answered with the run's
  result.
- On Databricks a replayed v2 request is translated and stored again; on SQLite an
  asynchronous run whose key a synchronous invocation used first cannot publish.
- Simultaneous first requests with one key on Databricks may be answered with different
  results, each stored; later replays agree on the one that began first.
- A MERGE that lands after its client has answered 503, when a retry was translated and
  stored meanwhile, changes which of two results a later replay of the key is answered with;
  `KeyedAnswersAgree` counts such a MERGE as a call in progress.
- Also on Databricks: a run is claimed and its attempt lost before anything is saved, an
  invocation with the same key is translated, stored and answered, and a second attempt then
  publishes the run.  Its row has the earlier `started_at` of the first claim
  (`sqlite.py:617`, `lifecycle.py:369`), so a later replay of the key is answered with the run's
  result and not with the one given before.  The proof of `SyncKeyedAnswersAgree` showed this (it
  takes four calls); the property now counts a run as in progress from its first claim on.
- A result whose identity is registered by somebody else under another locator is reported as
  ambiguous, hence retryable, when Workflow Lab answers 404 to the resolution; such a run ends
  by its attempt bound.  A refused upload is final also when an earlier attempt of the same run
  has published: the run fails although Workflow Lab holds its result.
- Proof loop: with an orchestration subject and no revision, records of different subject
  revisions are accepted, and a document that names several correlations counts as one that
  names none.  On the Lab plane the names, identifiers and states in a v1 document are not
  compared with the locator; its digest is.
- Join: every target of the legacy bypass profile, and under `waf-bypass@3` every target of a
  transformed component, may be declared unsupported.  A required input that occurs in no
  component has no target.  Nothing compares the components that an obligation covers with
  those the rules of Defense Generation mention.
- Plan: a rule whose component is in no coverage alternative is dropped without a word,
  although its carrier counts as translated.  The path component of a route-bound alternative is
  narrowed to the exact authenticated paths, and two path components in one alternative are both
  replaced by the path of either; `docs/shared-attack-contracts-v2.md:62` asks for a refusal where
  meaning is lost.  An input with a path payload that occurs only in other components is not
  matched by the exact path of the rule (the exception in `PlannedMatchesInputs`).
- `VALID_REASON_CODES_FOR_STATE` is said to be used by `capability.py` and is not; the model
  shows that the pairs the code produces are among them (`CapabilityTypeOK`).

## 7. What is not modelled, and the plan

Not modelled for good: logging, diagnostics, configuration parsing, OpenAPI text, the demo
UI, and the wording of results.  Status and result routes only read.  The lifecycle methods of
`DatabricksRunRepository` are reached by no configuration (`factory.py` keeps the lifecycle in
SQLite).  The ModSecurity compiler (`modsec_akamai.py`) rewrites regular expressions into glob
patterns without keeping state; its correctness is about languages of patterns, which a model
over a few characters would only transliterate, so TranslationCapability has its outcomes only.
Left out of modelled parts: what the proof loop extracts from documents for the pattern, the
digests, schemas and encodings of the shared contracts.

Planned:

1. The Go capability, engine, upstream resolution and synchronous handlers, where they differ
   from the Python ones.
