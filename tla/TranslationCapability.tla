----------------------- MODULE TranslationCapability ------------------------
(***************************************************************************)
(* One invocation of the capability: the gates of capability.py that       *)
(* decide the terminal state, and the engine of translation/engine.py,     *)
(* which derives a proposal in code or asks the doer, judges it, and has   *)
(* it repaired at most once.  A cancellation signal may be set at any      *)
(* time; the code looks at it between its steps.                           *)
(*                                                                         *)
(* A proposal is abstracted to what the judges find out about it.  What    *)
(* the upstream resolution, the adapters and the compiler of ModSecurity   *)
(* rules answer is left open.                                              *)
(***************************************************************************)
EXTENDS Integers

CONSTANT Technology,   \* target technologies a caller may name
         Adapters      \* ADAPTER_REGISTRY: those this deployment carries

Akamai == "akamai-waf"

ASSUME AdaptersAssumption == Akamai \in Adapters /\ Adapters \subseteq Technology

VARIABLES request,   \* what was asked for
          pc,        \* the point of the code the invocation is at
          signal,    \* the cancellation signal is set
          proposal,  \* the proposal being judged
          source,    \* proposal_source
          calls,     \* how often the doer was asked
          result     \* the envelope that was returned

vars == <<request, pc, signal, proposal, source, calls, result>>

-----------------------------------------------------------------------------
Labels == {"exact", "equivalent", "narrower", "broader"}

(* A caller gives a pattern, or references to upstream results, or neither *)
(* (form "none"); v2 is the request for the four-result join, bypass a     *)
(* directly submitted result of Bypass Validation.  secrule:               *)
(* pattern_summary contains an executable SecRule.  feature: the pattern   *)
(* has a json_body_field_feature.  requirements: the proof loop gives      *)
(* translation_requirements.                                               *)
Request ==
  [form : {"pattern", "refs", "none"}, technology : Technology,
   allowed : SUBSET {"equivalent", "narrower", "broader"}, live : BOOLEAN,
   secrule : BOOLEAN, feature : BOOLEAN, requirements : BOOLEAN]
  \cup
  [form : {"v2", "bypass"}, technology : Technology,
   allowed : {{"equivalent", "narrower", "broader"}}, live : BOOLEAN,
   secrule : {FALSE}, feature : {FALSE}, requirements : {FALSE}]

(* content: a rule-set is the wrapper {"rules": [...]} that the Akamai     *)
(* adapter accepts.  faithful: the semantic judges find the proven forms   *)
(* in it.  conflicts: detect_conflicts returns notes.                      *)
Proposal ==
  [label : Labels, content : {"unserializable", "invalid", "rule", "rule-set"},
   faithful : BOOLEAN, conflicts : BOOLEAN]

NoProposal == [label |-> "exact", content |-> "invalid", faithful |-> FALSE,
               conflicts |-> FALSE]

(* VALID_REASON_CODES_FOR_STATE, as far as the code uses it. *)
ReasonsOf(state) ==
  CASE state = "translated" -> {"translated"}
    [] state = "cannot-express" -> {"unsupported-feature"}
    [] state = "insufficient-context" ->
         {"insufficient-policy-context", "insufficient-pattern-context"}
    [] state = "scope-declined" ->
         {"invalid-input", "policy-conflict", "bypass-found-requires-regeneration"}
    [] state = "malfunction" -> {"provider-failure"}

States == {"translated", "cannot-express", "insufficient-context",
           "scope-declined", "malfunction"}

Sources == {"none", "deterministic-modsec-rule", "deterministic-json-body-field",
            "deterministic-anchored-literal", "deterministic-form-body",
            "translation-doer", "deterministic-shared-contract-v2"}

NoResult == [state |-> "none", reason |-> "none", candidate |-> FALSE,
             llm_invoked |-> FALSE, proposal_source |-> "none"]

Ended == {"returned", "canceled", "raised"}

Init ==
  /\ request \in {r \in Request : r.requirements => r.form = "refs"}
  /\ pc = "resolve"
  /\ signal = FALSE
  /\ proposal = NoProposal
  /\ source = "none"
  /\ calls = 0
  /\ result = NoResult

-----------------------------------------------------------------------------
Goto(step) == pc' = step /\ UNCHANGED result

(* check_cancelled: the step is taken, or OperationCancelled is raised. *)
Unless(step) == IF signal THEN Goto("canceled") ELSE step

(* _envelope, and for v2 _mark_shared_v2_deterministic. *)
Return(state, reason, candidate, llm) ==
  /\ pc' = "returned"
  /\ result' = [state |-> state, reason |-> reason, candidate |-> candidate,
                llm_invoked |-> llm /\ request.live /\ request.form # "v2",
                proposal_source |-> source']

Decline(state, reason) == Return(state, reason, FALSE, FALSE)

(* The signal may be set while anything else goes on. *)
SetSignal ==
  /\ ~signal /\ pc \notin Ended
  /\ signal' = TRUE
  /\ UNCHANGED <<request, pc, proposal, source, calls, result>>

(* invoke_envelope up to its call of invoke, and invoke_shared_contract_v2 *)
(* up to its own; decline_direct_bypass.  Without a resolver, or when the  *)
(* proof loop cannot be resolved, the result is typed; a failed v2 join    *)
(* raises.  The call that builds the result for a missing pattern passes   *)
(* an argument its callee does not have.                                   *)
Resolve ==
  /\ pc = "resolve"
  /\ UNCHANGED <<request, signal, proposal, source, calls>>
  /\ \/ /\ request.form # "bypass"
        /\ Unless(Goto(IF request.form = "none" THEN "raised"
                       ELSE IF request.form = "v2" /\ request.technology # Akamai
                       THEN "inexpressible" ELSE "scope"))
     \/ /\ request.form = "refs"
        /\ Decline("insufficient-context", "insufficient-pattern-context")
     \/ /\ request.form = "bypass"
        /\ Decline("scope-declined", "bypass-found-requires-regeneration")
     \/ /\ request.form = "v2"
        /\ Goto("raised") \/ Unless(Goto("inexpressible"))

(* build_waf_translation_plan found something without a lossless mapping. *)
Inexpressible ==
  /\ pc = "inexpressible"
  /\ source' = "deterministic-shared-contract-v2"
  /\ Decline("cannot-express", "unsupported-feature")
  /\ UNCHANGED <<request, signal, proposal, calls>>

(* Gate 1: the target is carried, and the pattern is of its control class. *)
Scope ==
  /\ pc = "scope"
  /\ UNCHANGED <<request, signal, proposal, source, calls>>
  /\ \/ request.technology \in Adapters /\ Unless(Goto("snapshot"))
     \/ request.form # "v2" /\ Unless(Decline("scope-declined", "invalid-input"))

(* Gate 2: the policy is read, and is the one the caller knows. *)
Snapshot ==
  /\ pc = "snapshot"
  /\ UNCHANGED <<request, signal, proposal, source, calls>>
  /\ Unless(\/ Goto("derive")
            \/ Decline("insufficient-context", "insufficient-policy-context")
            \/ request.form # "v2" /\ Decline("scope-declined", "invalid-input"))

-----------------------------------------------------------------------------
(* engine.py.  "Faulty variants" are unused: plausible mistakes in the     *)
(* definition after them.                                                  *)

(* invoke reads what the engine returned, after a last look at the signal. *)
AnswerAtOnce(verdict) == verdict  \* faulty variant: no last look

Answer(verdict) == Unless(verdict)

FromDoer == source' = "translation-doer"

Failure(state, reason) == Answer(Return(state, reason, FALSE, FromDoer))

UnsupportedAsDecline ==  \* faulty variant: the reason with another state
  Failure("scope-declined", "unsupported-feature")

Unsupported == Failure("cannot-express", "unsupported-feature")

QuietProviderFailure ==  \* faulty variant: the doer's call is not reported
  Answer(Return("malfunction", "provider-failure", FALSE, FALSE))

ProviderFailure == Failure("malfunction", "provider-failure")

(* _akamai_deterministic_proposal: the sources it may choose, by what the  *)
(* parsers of the SecRule recognise in it.                                 *)
DeterministicSource(compiles, compacted, literal, body) ==
  IF compiles /\ (request.feature \/ compacted) THEN "deterministic-modsec-rule"
  ELSE IF request.feature THEN "deterministic-json-body-field"
  ELSE IF literal /\ ~request.requirements THEN "deterministic-anchored-literal"
  ELSE IF body /\ ~request.requirements THEN "deterministic-form-body"
  ELSE IF compiles THEN "deterministic-modsec-rule" ELSE "none"

DeterministicSources ==
  IF ~request.secrule
  THEN {DeterministicSource(FALSE, FALSE, FALSE, FALSE)}
  ELSE {DeterministicSource(c, c /\ d, l, b /\ request.form = "refs") :
          c, d, l, b \in BOOLEAN}

LabelsOf(s) ==
  CASE s = "deterministic-modsec-rule" -> {"equivalent", "narrower", "broader"}
    [] s = "deterministic-json-body-field" -> {"equivalent", "narrower"}
    [] s = "deterministic-anchored-literal" -> {"equivalent"}
    [] s = "deterministic-form-body" -> {"narrower"}

AskWhenUncompiled(s) ==  \* faulty variant: the doer may guess at a SecRule
  IF s # "none" THEN "policy" ELSE "propose"

(* What follows the deterministic paths: a SecRule that could not be       *)
(* compiled is never given to the doer, and a feature the adapter does not *)
(* know is not either.                                                     *)
AfterDerivation(s) ==
  IF s # "none" THEN "policy"
  ELSE IF request.technology = Akamai /\ request.secrule THEN "uncompiled"
  ELSE "propose"

Derive ==
  /\ pc = "derive"
  /\ \E s \in IF request.technology = Akamai THEN DeterministicSources ELSE {"none"} :
       /\ source' = s
       /\ proposal' \in
            IF s = "none" THEN {proposal}
            ELSE {p \in Proposal : /\ p.label \in LabelsOf(s)
                                  /\ p.content \in {"rule", "invalid"}}
       /\ Unless(Goto(AfterDerivation(s)))
  /\ UNCHANGED <<request, signal, calls>>

Uncompiled ==
  /\ pc = "uncompiled"
  /\ source' = "deterministic-modsec-rule"
  /\ Unsupported
  /\ UNCHANGED <<request, signal, proposal, calls>>

(* The keyword gate, then the call.  The plan of v2 is no model call. *)
Propose ==
  /\ pc = "propose"
  /\ UNCHANGED <<request, signal, proposal, source>>
  /\ \/ /\ request.form # "v2"
        /\ UNCHANGED calls
        /\ Unsupported
     \/ /\ Unless(Goto("proposing"))
        /\ calls' = IF signal \/ request.form = "v2" THEN calls ELSE calls + 1

(* What the doer may return.  The plan of v2 was validated when it was     *)
(* built, and states the complete rule set.                                *)
Answers ==
  IF request.form = "v2"
  THEN {p \in Proposal : p.label = "equivalent" /\ p.content = "rule-set"}
  ELSE {p \in Proposal : p.content = "rule-set" => request.technology = Akamai}

(* The doer returns a proposal or raises. *)
DoerAnswers ==
  /\ pc = "proposing"
  /\ source' = IF request.form = "v2" THEN "deterministic-shared-contract-v2"
                                      ELSE "translation-doer"
  /\ \/ \E p \in Answers : proposal' = p /\ Unless(Goto("policy"))
     \/ request.form # "v2" /\ UNCHANGED proposal /\ ProviderFailure
  /\ UNCHANGED <<request, signal, calls>>

Permitted(p) == p.label = "exact" \/ p.label \in request.allowed

(* _proposal_policy_failure, then _normalize_candidate_content.  A label   *)
(* outside Labels does not pass the type of TranslationProposal.           *)
JudgePolicy(next) ==
  /\ UNCHANGED <<request, signal, proposal, source, calls>>
  /\ IF ~Permitted(proposal) THEN Unsupported
     ELSE IF proposal.content = "unserializable" THEN ProviderFailure
     ELSE Goto(next)

Policy == pc = "policy" /\ JudgePolicy("syntax")

Parses == proposal.content \in {"rule", "rule-set"}

(* Judge 1.  Only a model's proposal is repaired: the fixture doer has no  *)
(* repair.                                                                 *)
Syntax ==
  /\ pc = "syntax"
  /\ UNCHANGED <<request, signal, proposal, source, calls>>
  /\ Unless(IF Parses THEN Goto("semantics")
            ELSE IF source = "translation-doer" /\ request.live
            THEN Goto("repair") ELSE Unsupported)

Repair ==
  /\ pc = "repair"
  /\ UNCHANGED <<request, signal, proposal, source>>
  /\ Unless(Goto("repairing"))
  /\ calls' = IF signal THEN calls ELSE calls + 1

RepairAnswers ==
  /\ pc = "repairing"
  /\ UNCHANGED <<request, signal, source, calls>>
  /\ \/ \E p \in Answers : proposal' = p /\ Unless(Goto("repolicy"))
     \/ UNCHANGED proposal /\ ProviderFailure

TrustRepair ==  \* faulty variant: a repaired proposal keeps the first verdict
  /\ pc = "repolicy"
  /\ UNCHANGED <<request, signal, proposal, source, calls>>
  /\ IF proposal.content = "unserializable" THEN ProviderFailure ELSE Goto("resyntax")

Repolicy == pc = "repolicy" /\ JudgePolicy("resyntax")

RepairAgain ==  \* faulty variant: repaired until it parses
  /\ pc = "resyntax"
  /\ UNCHANGED <<request, signal, proposal, source, calls>>
  /\ Unless(Goto(IF Parses THEN "semantics" ELSE "repairing"))

Resyntax ==
  /\ pc = "resyntax"
  /\ UNCHANGED <<request, signal, proposal, source, calls>>
  /\ Unless(IF Parses THEN Goto("semantics") ELSE ProviderFailure)

(* The JSON-field judge, for a proposal that was not compiled from the     *)
(* rule itself; it finds no field in a rule-set.                           *)
FieldJudgeFails ==
  /\ request.technology = Akamai
  /\ request.feature /\ source # "deterministic-modsec-rule"
  /\ ~proposal.faithful \/ proposal.content = "rule-set"

(* Judge 2 applies to the labels that claim to preserve the forms. *)
FormsAreJudged ==
  /\ request.technology = Akamai
  /\ request.requirements
  /\ proposal.label \in {"exact", "equivalent"}

(* The semantic judges.  Judge 2 reads the conditions of the candidate,    *)
(* which a rule-set does not have.                                         *)
Semantics ==
  /\ pc = "semantics"
  /\ UNCHANGED <<request, signal, proposal, source, calls>>
  /\ IF FieldJudgeFails THEN Unsupported
     ELSE IF FormsAreJudged /\ proposal.content = "rule-set" THEN Goto("raised")
     ELSE IF FormsAreJudged /\ ~proposal.faithful THEN Unsupported
     ELSE Unless(Goto("conflicts"))

(* Judge 3, and what invoke makes of a candidate: gate 3, then translated. *)
(* A v2 result is validated once more, as a whole.                         *)
Conflicts ==
  /\ pc = "conflicts"
  /\ UNCHANGED <<request, signal, proposal, source, calls>>
  /\ \/ Answer(IF proposal.conflicts
               THEN Return("scope-declined", "policy-conflict", TRUE, FromDoer)
               ELSE Return("translated", "translated", TRUE, FromDoer))
     \/ request.form = "v2" /\ Goto("raised")

-----------------------------------------------------------------------------
Step ==
  \/ Resolve \/ Inexpressible \/ Scope \/ Snapshot
  \/ Derive \/ Uncompiled \/ Propose \/ DoerAnswers \/ Policy \/ Syntax
  \/ Repair \/ RepairAnswers \/ Repolicy \/ Resyntax \/ Semantics \/ Conflicts

Done == pc \in Ended /\ UNCHANGED vars

Next == Step \/ SetSignal \/ Done

(* The code runs on, and a doer's call returns or times out. *)
Spec == Init /\ [][Next]_vars /\ WF_vars(Step)

-----------------------------------------------------------------------------
(* Types; a returned result has one of the states with a reason code that  *)
(* belongs to it, and carries a candidate exactly when it is translated or *)
(* declined for a conflict.                                                *)
CapabilityTypeOK ==
  /\ request \in Request
  /\ signal \in BOOLEAN
  /\ proposal \in Proposal
  /\ source \in Sources
  /\ calls \in 0 .. 2
  /\ pc = "returned" =>
       /\ result.state \in States
       /\ result.reason \in ReasonsOf(result.state)
       /\ result.candidate <=> result.reason \in {"translated", "policy-conflict"}

(* What is returned as translated is what the judges passed, also when it  *)
(* is a repair of something else: a label the policy of the caller allows, *)
(* content that parses, the proven forms where they are claimed, and no    *)
(* conflict with the policy that was read.                                 *)
TranslatedIsJudged ==
  pc = "returned" /\ result.state = "translated" =>
    /\ Permitted(proposal) /\ Parses /\ ~proposal.conflicts
    /\ ~FieldJudgeFails
    /\ FormsAreJudged => proposal.faithful
    /\ request.technology \in Adapters

(* On Akamai an executable SecRule is compiled or refused; no model is     *)
(* asked to guess at it, neither at first nor as a repair.                 *)
SecRuleNeverGuessed ==
  request.technology = Akamai /\ request.secrule => calls = 0

(* The inference record tells the truth on every path: llm_invoked and a   *)
(* source of translation-doer exactly when the doer was asked.             *)
InferenceIsTruthful ==
  pc = "returned" =>
    /\ result.llm_invoked <=> request.live /\ calls > 0
    /\ result.proposal_source = "translation-doer" <=> calls > 0

(* Once its input is resolved, an invocation returns nothing after the     *)
(* signal is set, whatever the doer made of the cancellation.              *)
NoVerdictAfterSignal ==
  [][pc' = "returned" /\ pc \notin {"resolve", "inexpressible"} \cup Ended
       => ~signal]_vars

(* Every invocation ends: there is one repair, not a loop. *)
InvocationEnds == <>(pc \in Ended)
=============================================================================
