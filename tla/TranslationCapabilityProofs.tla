--------------------- MODULE TranslationCapabilityProofs --------------------
(***************************************************************************)
(* What an invocation returns, for any set of technologies and of carried  *)
(* adapters and whenever the cancellation signal is set.                   *)
(*                                                                         *)
(* CapInv says what is known at each point of the code: which judges the   *)
(* proposal has passed, how often the doer was asked, and that the source  *)
(* that will be reported is the doer exactly when it was asked.            *)
(***************************************************************************)
EXTENDS TranslationCapability, TLAPS

USE DEF Ended

(* Before the doer's call; after a proposal exists; repairing it. *)
Before == {"resolve", "inexpressible", "scope", "snapshot", "derive",
           "uncompiled", "propose"}
Repairing == {"repair", "repairing", "repolicy", "resyntax"}
Judging == {"policy", "syntax", "semantics", "conflicts"} \cup Repairing

Labelled == {"syntax", "repair", "resyntax", "semantics", "conflicts"}
Parsed == {"semantics", "conflicts"}
Targeted == Judging \cup {"snapshot", "derive", "uncompiled", "propose", "proposing"}

(* How often the doer was asked, and the source that will be reported. *)
CallsOK ==
  /\ pc \in Before => calls = 0 /\ source = "none"
  /\ pc = "proposing" => calls = IF request.form = "v2" THEN 0 ELSE 1
  /\ pc \in Judging => (source = "translation-doer" <=> calls > 0)
  /\ pc \in {"policy", "syntax", "repair"} => calls <= 1
  /\ pc \in Repairing => calls > 0
  /\ request.form = "v2" => calls = 0
  /\ pc \in {"propose", "proposing"} => ~(request.technology = Akamai /\ request.secrule)

(* What the judges have passed. *)
JudgedOK ==
  /\ pc \in Labelled => Permitted(proposal)
  /\ pc \in Parsed => Parses
  /\ pc = "conflicts" => /\ ~FieldJudgeFails
                         /\ FormsAreJudged => proposal.faithful
  /\ pc \in Targeted => request.technology \in Adapters

(* The inductive invariant. *)
CapInv ==
  /\ CapabilityTypeOK
  /\ CallsOK
  /\ JudgedOK
  /\ TranslatedIsJudged
  /\ SecRuleNeverGuessed
  /\ InferenceIsTruthful

-----------------------------------------------------------------------------
LEMMA CapInvInit == Init => CapInv
<1> SUFFICES ASSUME Init PROVE CapInv
  OBVIOUS
<1>1. request \in Request /\ NoProposal \in Proposal
  BY DEF Init, NoProposal, Proposal, Labels
<1>2. CapabilityTypeOK
  <2>1. signal \in BOOLEAN /\ source \in Sources /\ calls \in 0 .. 2
    <3>1. signal = FALSE /\ source = "none" /\ calls = 0
      BY DEF Init
    <3>2. signal \in BOOLEAN
      BY <3>1, Zenon
    <3>3. source \in Sources /\ calls \in 0 .. 2
      BY <3>1 DEF Sources
    <3> QED
      BY <3>2, <3>3
  <2>2. proposal \in Proposal /\ pc # "returned"
    BY <1>1 DEF Init
  <2> QED
    BY <1>1, <2>1, <2>2 DEF CapabilityTypeOK
<1>3. CallsOK
  BY DEF Init, CallsOK, Before, Judging, Repairing
<1>4. JudgedOK
  BY DEF Init, JudgedOK, Judging, Repairing, Labelled, Parsed, Targeted
<1>5. TranslatedIsJudged /\ SecRuleNeverGuessed /\ InferenceIsTruthful
  BY DEF Init, TranslatedIsJudged, SecRuleNeverGuessed, InferenceIsTruthful
<1> QED
  BY <1>2, <1>3, <1>4, <1>5 DEF CapInv

(* A step to another point of the code, or to an end without a result. *)
LEMMA GotoKeeps ==
  ASSUME CapInv, UNCHANGED <<request, signal>>, pc' # "returned",
         proposal' \in Proposal, source' \in Sources, calls' \in 0 .. 2,
         CallsOK', JudgedOK', SecRuleNeverGuessed'
  PROVE  CapInv'
BY DEF CapInv, CapabilityTypeOK, TranslatedIsJudged, InferenceIsTruthful

(* Any result but a translation: no judge has to have agreed. *)
LEMMA ReturnKeeps ==
  ASSUME CapInv, UNCHANGED <<request, signal, proposal, calls>>,
         source' \in Sources, source' = "translation-doer" <=> calls > 0,
         NEW state \in States, NEW reason \in ReasonsOf(state),
         NEW candidate \in BOOLEAN, NEW llm \in BOOLEAN,
         Return(state, reason, candidate, llm),
         candidate <=> reason \in {"translated", "policy-conflict"},
         llm <=> calls > 0,
         state = "translated" =>
           pc = "conflicts" /\ ~proposal.conflicts /\ UNCHANGED source
  PROVE  CapInv'
<1>1. /\ pc' = "returned" /\ result'.state = state /\ result'.reason = reason
      /\ result'.candidate = candidate
      /\ result'.llm_invoked = (llm /\ request.live /\ request.form # "v2")
      /\ result'.proposal_source = source'
  BY DEF Return
<1>2. CapabilityTypeOK'
  BY <1>1 DEF CapInv, CapabilityTypeOK
<1>3. CallsOK'
  BY <1>1 DEF CapInv, CallsOK, Before, Judging, Repairing
<1>4. JudgedOK'
  BY <1>1 DEF JudgedOK, Labelled, Parsed, Targeted, Judging, Repairing
<1>5. TranslatedIsJudged'
  <2> SUFFICES ASSUME state = "translated" PROVE TranslatedIsJudged'
    BY <1>1 DEF TranslatedIsJudged
  <2>1. pc = "conflicts" /\ ~proposal.conflicts /\ source' = source
    OBVIOUS
  <2> QED
    BY <2>1 DEF CapInv, JudgedOK, Labelled, Parsed, Targeted, Judging,
       TranslatedIsJudged, Permitted, Parses, FieldJudgeFails, FormsAreJudged
<1>6. SecRuleNeverGuessed'
  BY DEF CapInv, SecRuleNeverGuessed
<1>7. InferenceIsTruthful'
  <2>1. calls > 0 => request.form # "v2"
    BY DEF CapInv, CallsOK
  <2>2. result'.llm_invoked <=> request.live /\ calls > 0
    BY <1>1, <2>1, Zenon
  <2> QED
    BY <1>1, <2>2, Zenon DEF InferenceIsTruthful
<1> QED
  BY <1>2, <1>3, <1>4, <1>5, <1>6, <1>7 DEF CapInv
-----------------------------------------------------------------------------
(* Unless and Answer: the step, or nothing but the end of the invocation. *)
LEMMA CanceledKeeps ==
  ASSUME CapInv, Goto("canceled"), UNCHANGED <<request, signal>>,
         proposal' \in Proposal, source' \in Sources, calls' = calls
  PROVE  CapInv'
<1>1. pc' = "canceled"
  BY DEF Goto
<1>2. CallsOK' /\ JudgedOK' /\ SecRuleNeverGuessed'
  BY <1>1 DEF CapInv, CallsOK, Before, Judging, Repairing, JudgedOK, Labelled,
     Parsed, Targeted, SecRuleNeverGuessed
<1> QED
  BY <1>1, <1>2, GotoKeeps DEF CapInv, CapabilityTypeOK

(* A refusal or a failure of the engine, and of a gate before it. *)
LEMMA FailureKeeps ==
  ASSUME CapInv, UNCHANGED <<request, signal, proposal, calls>>,
         source' \in Sources, source' = "translation-doer" <=> calls > 0,
         Unsupported \/ ProviderFailure
  PROVE  CapInv'
<1>1. CASE signal
  BY <1>1, CanceledKeeps
     DEF Unsupported, ProviderFailure, Failure, Answer, Unless, CapInv, CapabilityTypeOK
<1>2. CASE ~signal
  <2>1. FromDoer \in BOOLEAN /\ (FromDoer <=> calls > 0)
    BY DEF FromDoer
  <2>2. CASE Unsupported
    BY <1>2, <2>1, <2>2, ReturnKeeps
       DEF Unsupported, Failure, Answer, Unless, States, ReasonsOf
  <2>3. CASE ProviderFailure
    BY <1>2, <2>1, <2>3, ReturnKeeps
       DEF ProviderFailure, Failure, Answer, Unless, States, ReasonsOf
  <2> QED
    BY <2>2, <2>3
<1> QED
  BY <1>1, <1>2

LEMMA DeclineKeeps ==
  ASSUME CapInv, UNCHANGED <<request, signal, proposal, calls>>, calls = 0,
         source' \in Sources, source' # "translation-doer",
         NEW state \in States \ {"translated"},
         NEW reason \in ReasonsOf(state) \ {"translated", "policy-conflict"},
         Decline(state, reason)
  PROVE  CapInv'
<1>1. ~(calls > 0)
  OBVIOUS
<1> QED
  BY <1>1, ReturnKeeps DEF Decline

-----------------------------------------------------------------------------
(* One lemma for each step. *)

LEMMA ResolveKeeps == CapInv /\ Resolve => CapInv'
<1> SUFFICES ASSUME CapInv, Resolve PROVE CapInv'
  OBVIOUS
<1>0. /\ pc = "resolve" /\ calls = 0 /\ source = "none"
      /\ UNCHANGED <<request, signal, proposal, source, calls>>
      /\ proposal' \in Proposal /\ source' \in Sources /\ calls' \in 0 .. 2
  BY DEF Resolve, CapInv, CallsOK, Before, CapabilityTypeOK
<1>1. ASSUME NEW next \in {"raised", "inexpressible", "scope", "canceled"}, Goto(next)
      PROVE  CapInv'
  <2>1. CallsOK' /\ JudgedOK' /\ SecRuleNeverGuessed'
    BY <1>0, <1>1 DEF Goto, CapInv, CallsOK, Before, Judging, Repairing,
       JudgedOK, Labelled, Parsed, Targeted, SecRuleNeverGuessed
  <2> QED
    BY <1>0, <1>1, <2>1, GotoKeeps DEF Goto
<1>2. ASSUME Decline("insufficient-context", "insufficient-pattern-context")
      PROVE  CapInv'
  BY <1>0, <1>2, DeclineKeeps DEF States, ReasonsOf
<1>3. ASSUME Decline("scope-declined", "bypass-found-requires-regeneration")
      PROVE  CapInv'
  BY <1>0, <1>3, DeclineKeeps DEF States, ReasonsOf
<1> QED
  BY <1>1, <1>2, <1>3 DEF Resolve, Unless

LEMMA InexpressibleKeeps == CapInv /\ Inexpressible => CapInv'
<1> SUFFICES ASSUME CapInv, Inexpressible PROVE CapInv'
  OBVIOUS
<1>1. calls = 0 /\ source' \in Sources /\ source' # "translation-doer"
  BY DEF Inexpressible, CapInv, CallsOK, Before, Sources
<1> QED
  BY <1>1, DeclineKeeps DEF Inexpressible, States, ReasonsOf

(* Gates 1 and 2. *)
LEMMA GatesKeep == CapInv /\ (Scope \/ Snapshot) => CapInv'
<1> SUFFICES ASSUME CapInv, Scope \/ Snapshot PROVE CapInv'
  OBVIOUS
<1>0. /\ pc \in {"scope", "snapshot"} /\ calls = 0 /\ source = "none"
      /\ UNCHANGED <<request, signal, proposal, source, calls>>
      /\ proposal' \in Proposal /\ source' \in Sources /\ calls' \in 0 .. 2
  BY DEF Scope, Snapshot, CapInv, CallsOK, Before, CapabilityTypeOK
<1>1. ASSUME NEW next \in {"snapshot", "derive"}, Goto(next),
             request.technology \in Adapters
      PROVE  CapInv'
  <2>1. CallsOK' /\ JudgedOK' /\ SecRuleNeverGuessed'
    BY <1>0, <1>1 DEF Goto, CapInv, CallsOK, Before, Judging, Repairing,
       JudgedOK, Labelled, Parsed, Targeted, SecRuleNeverGuessed
  <2> QED
    BY <1>0, <1>1, <2>1, GotoKeeps DEF Goto
<1>2. ASSUME Decline("insufficient-context", "insufficient-policy-context")
      PROVE  CapInv'
  BY <1>0, <1>2, DeclineKeeps DEF States, ReasonsOf
<1>3. ASSUME Decline("scope-declined", "invalid-input")
      PROVE  CapInv'
  BY <1>0, <1>3, DeclineKeeps DEF States, ReasonsOf
<1>4. ASSUME Goto("canceled")
      PROVE  CapInv'
  BY <1>0, <1>4, CanceledKeeps
<1>5. pc = "snapshot" => request.technology \in Adapters
  BY DEF CapInv, JudgedOK, Targeted
<1> QED
  BY <1>1, <1>2, <1>3, <1>4, <1>5 DEF Scope, Snapshot, Unless

(* The deterministic paths never name the doer as their source. *)
LEMMA DeterministicIsNoDoer ==
  DeterministicSources \subseteq
    {"none", "deterministic-modsec-rule", "deterministic-json-body-field",
     "deterministic-anchored-literal", "deterministic-form-body"}
BY DEF DeterministicSources, DeterministicSource

LEMMA DeriveKeeps == CapInv /\ Derive => CapInv'
<1> SUFFICES ASSUME CapInv, Derive PROVE CapInv'
  OBVIOUS
<1>1. PICK s \in IF request.technology = Akamai THEN DeterministicSources ELSE {"none"} :
        /\ source' = s
        /\ proposal' \in IF s = "none" THEN {proposal}
                         ELSE {p \in Proposal : /\ p.label \in LabelsOf(s)
                                                /\ p.content \in {"rule", "invalid"}}
        /\ Unless(Goto(AfterDerivation(s)))
  BY DEF Derive
<1>2. /\ pc = "derive" /\ calls = 0 /\ UNCHANGED <<request, signal, calls>>
      /\ request.technology \in Adapters
  BY DEF Derive, CapInv, CallsOK, Before, JudgedOK, Targeted
<1>3. /\ proposal' \in Proposal /\ source' \in Sources /\ calls' \in 0 .. 2
      /\ source' # "translation-doer"
      /\ source' = s
  <2>1. s \in {"none", "deterministic-modsec-rule", "deterministic-json-body-field",
               "deterministic-anchored-literal", "deterministic-form-body"}
    BY <1>1, DeterministicIsNoDoer
  <2> QED
    BY <1>1, <1>2, <2>1 DEF CapInv, CapabilityTypeOK, Sources
<1>4. CASE signal
  BY <1>1, <1>2, <1>3, <1>4, CanceledKeeps DEF Unless
<1>5. CASE ~signal
  <2>1. pc' = AfterDerivation(s)
    BY <1>1, <1>5 DEF Unless, Goto
  <2>2. \/ pc' = "policy"
        \/ pc' = "uncompiled" /\ s = "none"
        \/ /\ pc' = "propose" /\ s = "none"
           /\ ~(request.technology = Akamai /\ request.secrule)
    BY <2>1 DEF AfterDerivation
  <2>3. CallsOK' /\ JudgedOK' /\ SecRuleNeverGuessed'
    BY <1>2, <1>3, <2>2 DEF CapInv, CallsOK, Before, Judging, Repairing,
       JudgedOK, Labelled, Parsed, Targeted, SecRuleNeverGuessed
  <2> QED
    BY <1>2, <1>3, <2>2, <2>3, GotoKeeps
<1> QED
  BY <1>4, <1>5

LEMMA UncompiledKeeps == CapInv /\ Uncompiled => CapInv'
<1> SUFFICES ASSUME CapInv, Uncompiled PROVE CapInv'
  OBVIOUS
<1>1. calls = 0 /\ source' \in Sources /\ (source' = "translation-doer" <=> calls > 0)
  BY DEF Uncompiled, CapInv, CallsOK, Before, Sources
<1> QED
  BY <1>1, FailureKeeps DEF Uncompiled

LEMMA ProposeKeeps == CapInv /\ Propose => CapInv'
<1> SUFFICES ASSUME CapInv, Propose PROVE CapInv'
  OBVIOUS
<1>0. /\ pc = "propose" /\ calls = 0 /\ source = "none"
      /\ UNCHANGED <<request, signal, proposal, source>>
      /\ proposal' \in Proposal /\ source' \in Sources
      /\ source' = "translation-doer" <=> calls > 0
  BY DEF Propose, CapInv, CallsOK, Before, CapabilityTypeOK
<1>1. CASE UNCHANGED calls /\ Unsupported
  BY <1>0, <1>1, FailureKeeps
<1>2. CASE /\ Unless(Goto("proposing"))
           /\ calls' = IF signal \/ request.form = "v2" THEN calls ELSE calls + 1
  <2>1. CASE signal
    BY <1>0, <1>2, <2>1, CanceledKeeps DEF Unless
  <2>2. CASE ~signal
    <3>1. /\ pc' = "proposing" /\ calls' = IF request.form = "v2" THEN 0 ELSE 1
          /\ ~(request.technology = Akamai /\ request.secrule)
          /\ request.technology \in Adapters
      BY <1>0, <1>2, <2>2
         DEF Unless, Goto, CapInv, CallsOK, JudgedOK, Targeted
    <3>2. CallsOK' /\ JudgedOK' /\ SecRuleNeverGuessed'
      BY <1>0, <3>1 DEF CallsOK, Before, Judging, Repairing,
         JudgedOK, Labelled, Parsed, Targeted, SecRuleNeverGuessed
    <3>3. calls' \in 0 .. 2
      BY <3>1
    <3> QED
      BY <1>0, <3>1, <3>2, <3>3, GotoKeeps
  <2> QED
    BY <2>1, <2>2
<1> QED
  BY <1>1, <1>2 DEF Propose

LEMMA DoerAnswersKeeps == CapInv /\ DoerAnswers => CapInv'
<1> SUFFICES ASSUME CapInv, DoerAnswers PROVE CapInv'
  OBVIOUS
<1>0. /\ pc = "proposing" /\ calls = IF request.form = "v2" THEN 0 ELSE 1
      /\ UNCHANGED <<request, signal, calls>>
      /\ source' \in Sources
      /\ source' = "translation-doer" <=> calls > 0
      /\ request.technology \in Adapters
  BY DEF DoerAnswers, CapInv, CallsOK, Sources, JudgedOK, Targeted
<1>1. ASSUME NEW p \in Answers, proposal' = p, Unless(Goto("policy"))
      PROVE  CapInv'
  <2>1. proposal' \in Proposal
    BY <1>1 DEF Answers
  <2>2. CASE signal
    BY <1>0, <1>1, <2>1, <2>2, CanceledKeeps DEF Unless
  <2>3. CASE ~signal
    <3>1. pc' = "policy"
      BY <1>1, <2>3 DEF Unless, Goto
    <3>2. CallsOK' /\ JudgedOK' /\ SecRuleNeverGuessed'
      BY <1>0, <3>1 DEF CapInv, CallsOK, Before, Judging, Repairing,
         JudgedOK, Labelled, Parsed, Targeted, SecRuleNeverGuessed
    <3>3. calls' \in 0 .. 2
      BY <1>0
    <3> QED
      BY <1>0, <2>1, <3>1, <3>2, <3>3, GotoKeeps
  <2> QED
    BY <2>2, <2>3
<1>2. CASE UNCHANGED proposal /\ ProviderFailure
  BY <1>0, <1>2, FailureKeeps
<1> QED
  BY <1>1, <1>2 DEF DoerAnswers

(* What is known wherever a proposal is judged. *)
LEMMA WhileJudging ==
  ASSUME CapInv, pc \in Judging
  PROVE  /\ source = "translation-doer" <=> calls > 0
         /\ request.technology \in Adapters
         /\ proposal \in Proposal /\ source \in Sources /\ calls \in 0 .. 2
BY DEF CapInv, CallsOK, JudgedOK, Targeted, CapabilityTypeOK

(* A judge passes the proposal on. *)
LEMMA PassedOn ==
  ASSUME CapInv, pc \in Judging, Goto(pc'),
         UNCHANGED <<request, signal, proposal, source, calls>>,
         pc' \in Judging \cup {"raised", "canceled"},
         pc' \in {"policy", "syntax", "repair"} => calls <= 1,
         pc' \in Repairing => calls > 0,
         pc' \in Labelled => Permitted(proposal),
         pc' \in Parsed => Parses,
         pc' = "conflicts" => ~FieldJudgeFails /\ (FormsAreJudged => proposal.faithful)
  PROVE  CapInv'
<1>1. /\ source = "translation-doer" <=> calls > 0
      /\ request.technology \in Adapters
      /\ proposal' \in Proposal /\ source' \in Sources /\ calls' \in 0 .. 2
  BY WhileJudging
<1>2. pc' # "returned" /\ pc' \notin Before /\ pc' \notin {"propose", "proposing"}
  BY DEF Judging, Repairing, Before
<1>3. CallsOK'
  BY <1>1, <1>2 DEF CapInv, CallsOK
<1>4. JudgedOK'
  BY <1>1 DEF JudgedOK, Permitted, Parses, FieldJudgeFails, FormsAreJudged
<1>5. SecRuleNeverGuessed'
  BY DEF CapInv, SecRuleNeverGuessed
<1> QED
  BY <1>1, <1>2, <1>3, <1>4, <1>5, GotoKeeps

LEMMA PolicyKeeps == CapInv /\ (Policy \/ Repolicy) => CapInv'
<1> SUFFICES ASSUME CapInv, NEW next \in {"syntax", "resyntax"}, JudgePolicy(next),
                    pc = IF next = "syntax" THEN "policy" ELSE "repolicy"
             PROVE  CapInv'
  BY DEF Policy, Repolicy
<1>0. /\ pc \in Judging /\ UNCHANGED <<request, signal, proposal, source, calls>>
      /\ next = "syntax" => calls <= 1
      /\ next = "resyntax" => calls > 0
  BY DEF Judging, Repairing, JudgePolicy, CapInv, CallsOK
<1>1. CASE Unsupported \/ ProviderFailure
  BY <1>0, <1>1, WhileJudging, FailureKeeps
<1>2. CASE Permitted(proposal) /\ Goto(next)
  <2>1. pc' = next
    BY <1>2 DEF Goto
  <2> QED
    BY <1>0, <1>2, <2>1, PassedOn DEF Judging, Repairing, Labelled, Parsed, Goto
<1> QED
  BY <1>1, <1>2 DEF JudgePolicy

LEMMA SyntaxKeeps == CapInv /\ Syntax => CapInv'
<1> SUFFICES ASSUME CapInv, Syntax PROVE CapInv'
  OBVIOUS
<1>0. /\ pc = "syntax" /\ pc \in Judging /\ Permitted(proposal) /\ calls <= 1
      /\ UNCHANGED <<request, signal, proposal, source, calls>>
  BY DEF Syntax, Judging, CapInv, CallsOK, JudgedOK, Labelled
<1>1. CASE Unsupported
  BY <1>0, <1>1, WhileJudging, FailureKeeps
<1>2. CASE Goto("canceled")
  BY <1>0, <1>2, WhileJudging, CanceledKeeps
<1>3. CASE Parses /\ Goto("semantics")
  BY <1>0, <1>3, PassedOn DEF Goto, Judging, Repairing, Labelled, Parsed
<1>4. CASE source = "translation-doer" /\ Goto("repair")
  BY <1>0, <1>4, WhileJudging, PassedOn DEF Goto, Judging, Repairing, Labelled, Parsed
<1> QED
  BY <1>1, <1>2, <1>3, <1>4 DEF Syntax, Unless

(* The doer is asked a second time, never a third. *)
LEMMA RepairKeeps == CapInv /\ Repair => CapInv'
<1> SUFFICES ASSUME CapInv, Repair PROVE CapInv'
  OBVIOUS
<1>0. /\ pc = "repair" /\ pc \in Judging /\ calls = 1
      /\ UNCHANGED <<request, signal, proposal, source>>
      /\ source = "translation-doer"
  <2>1. pc = "repair" /\ pc \in Judging /\ calls <= 1 /\ calls > 0
    BY DEF Repair, Judging, Repairing, CapInv, CallsOK
  <2>2. calls \in 0 .. 2 /\ source = "translation-doer"
    BY <2>1, WhileJudging
  <2> QED
    BY <2>1, <2>2 DEF Repair
<1>1. CASE signal
  BY <1>0, <1>1, WhileJudging, CanceledKeeps DEF Repair, Unless
<1>2. CASE ~signal
  <2>1. pc' = "repairing" /\ calls' = 2
    BY <1>0, <1>2 DEF Repair, Unless, Goto
  <2>2. request.technology \in Adapters /\ proposal' \in Proposal /\ source' \in Sources
    BY <1>0, WhileJudging
  <2>3. ~(request.technology = Akamai /\ request.secrule) /\ request.form # "v2"
    BY <1>0 DEF CapInv, SecRuleNeverGuessed, CallsOK
  <2>4. CallsOK' /\ JudgedOK' /\ SecRuleNeverGuessed'
    BY <1>0, <2>1, <2>2, <2>3 DEF CallsOK, Before, Judging, Repairing,
       JudgedOK, Labelled, Parsed, Targeted, SecRuleNeverGuessed
  <2> QED
    BY <1>0, <2>1, <2>2, <2>4, GotoKeeps
<1> QED
  BY <1>1, <1>2

LEMMA RepairAnswersKeeps == CapInv /\ RepairAnswers => CapInv'
<1> SUFFICES ASSUME CapInv, RepairAnswers PROVE CapInv'
  OBVIOUS
<1>0. /\ pc = "repairing" /\ pc \in Judging /\ calls > 0
      /\ UNCHANGED <<request, signal, source, calls>>
  BY DEF RepairAnswers, Judging, Repairing, CapInv, CallsOK
<1>1. ASSUME NEW p \in Answers, proposal' = p, Unless(Goto("repolicy"))
      PROVE  CapInv'
  <2>1. /\ proposal' \in Proposal /\ source' \in Sources /\ calls' \in 0 .. 2
        /\ source = "translation-doer" /\ request.technology \in Adapters
    BY <1>0, <1>1, WhileJudging DEF Answers
  <2>2. CASE signal
    BY <1>0, <1>1, <2>1, <2>2, CanceledKeeps DEF Unless
  <2>3. CASE ~signal
    <3>1. pc' = "repolicy"
      BY <1>1, <2>3 DEF Unless, Goto
    <3>2. CallsOK' /\ JudgedOK' /\ SecRuleNeverGuessed'
      BY <1>0, <2>1, <3>1 DEF CapInv, CallsOK, Before, Judging, Repairing,
         JudgedOK, Labelled, Parsed, Targeted, SecRuleNeverGuessed
    <3> QED
      BY <1>0, <2>1, <3>1, <3>2, GotoKeeps
  <2> QED
    BY <2>2, <2>3
<1>2. CASE UNCHANGED proposal /\ ProviderFailure
  BY <1>0, <1>2, WhileJudging, FailureKeeps
<1> QED
  BY <1>1, <1>2 DEF RepairAnswers

LEMMA ResyntaxKeeps == CapInv /\ Resyntax => CapInv'
<1> SUFFICES ASSUME CapInv, Resyntax PROVE CapInv'
  OBVIOUS
<1>0. /\ pc = "resyntax" /\ pc \in Judging /\ Permitted(proposal)
      /\ UNCHANGED <<request, signal, proposal, source, calls>>
  BY DEF Resyntax, Judging, Repairing, CapInv, JudgedOK, Labelled
<1>1. CASE ProviderFailure
  BY <1>0, <1>1, WhileJudging, FailureKeeps
<1>2. CASE Goto("canceled")
  BY <1>0, <1>2, WhileJudging, CanceledKeeps
<1>3. CASE Parses /\ Goto("semantics")
  BY <1>0, <1>3, PassedOn DEF Goto, Judging, Repairing, Labelled, Parsed
<1> QED
  BY <1>1, <1>2, <1>3 DEF Resyntax, Unless

LEMMA SemanticsKeeps == CapInv /\ Semantics => CapInv'
<1> SUFFICES ASSUME CapInv, Semantics PROVE CapInv'
  OBVIOUS
<1>0. /\ pc = "semantics" /\ pc \in Judging /\ Permitted(proposal) /\ Parses
      /\ UNCHANGED <<request, signal, proposal, source, calls>>
  BY DEF Semantics, Judging, CapInv, JudgedOK, Labelled, Parsed
<1>1. CASE Unsupported
  BY <1>0, <1>1, WhileJudging, FailureKeeps
<1>2. CASE Goto("canceled")
  BY <1>0, <1>2, WhileJudging, CanceledKeeps
<1>3. CASE Goto("raised")
  BY <1>0, <1>3, PassedOn DEF Goto, Judging, Repairing, Labelled, Parsed
<1>4. CASE /\ ~FieldJudgeFails /\ (FormsAreJudged => proposal.faithful)
           /\ Goto("conflicts")
  BY <1>0, <1>4, PassedOn DEF Goto, Judging, Repairing, Labelled, Parsed
<1> QED
  BY <1>1, <1>2, <1>3, <1>4 DEF Semantics, Unless

(* The only step that returns a translation. *)
LEMMA ConflictsKeeps == CapInv /\ Conflicts => CapInv'
<1> SUFFICES ASSUME CapInv, Conflicts PROVE CapInv'
  OBVIOUS
<1>0. /\ pc = "conflicts" /\ pc \in Judging
      /\ UNCHANGED <<request, signal, proposal, source, calls>>
  BY DEF Conflicts, Judging
<1>1. CASE Goto("raised")
  BY <1>0, <1>1, PassedOn DEF Goto, Judging, Repairing, Labelled, Parsed
<1>2. CASE Goto("canceled")
  BY <1>0, <1>2, WhileJudging, CanceledKeeps
<1>3. /\ FromDoer \in BOOLEAN /\ (FromDoer <=> calls > 0) /\ source' \in Sources
      /\ source' = "translation-doer" <=> calls > 0
  BY <1>0, WhileJudging DEF FromDoer
<1>4. CASE Return("scope-declined", "policy-conflict", TRUE, FromDoer)
  BY <1>0, <1>3, <1>4, ReturnKeeps DEF States, ReasonsOf
<1>5. CASE ~proposal.conflicts /\ Return("translated", "translated", TRUE, FromDoer)
  BY <1>0, <1>3, <1>5, ReturnKeeps DEF States, ReasonsOf
<1> QED
  BY <1>1, <1>2, <1>4, <1>5 DEF Conflicts, Answer, Unless

(* The signal and the end change nothing the invariant is about. *)
LEMMA SignalKeeps == CapInv /\ (SetSignal \/ UNCHANGED vars) => CapInv'
<1> SUFFICES ASSUME CapInv, SetSignal \/ UNCHANGED vars PROVE CapInv'
  OBVIOUS
<1>1. UNCHANGED <<request, pc, proposal, source, calls, result>> /\ signal' \in BOOLEAN
  BY DEF SetSignal, vars, CapInv, CapabilityTypeOK
<1>2. CapabilityTypeOK'
  BY <1>1 DEF CapInv, CapabilityTypeOK
<1>3. CallsOK' /\ JudgedOK'
  BY <1>1 DEF CapInv, CallsOK, JudgedOK, Permitted, Parses, FieldJudgeFails,
     FormsAreJudged
<1>4. TranslatedIsJudged' /\ SecRuleNeverGuessed' /\ InferenceIsTruthful'
  BY <1>1 DEF CapInv, TranslatedIsJudged, SecRuleNeverGuessed, InferenceIsTruthful,
     Permitted, Parses, FieldJudgeFails, FormsAreJudged
<1> QED
  BY <1>2, <1>3, <1>4 DEF CapInv

-----------------------------------------------------------------------------
(* CapInv holds at every point of every invocation. *)
THEOREM CapabilityInvariant == Spec => []CapInv
<1>1. CapInv /\ [Next]_vars => CapInv'
  BY ResolveKeeps, InexpressibleKeeps, GatesKeep, DeriveKeeps, UncompiledKeeps,
     ProposeKeeps, DoerAnswersKeeps, PolicyKeeps, SyntaxKeeps, RepairKeeps,
     RepairAnswersKeeps, ResyntaxKeeps, SemanticsKeeps, ConflictsKeeps, SignalKeeps
     DEF Next, Step, Done
<1> QED
  BY <1>1, CapInvInit, PTL DEF Spec

(* A returned result has a reason that belongs to its state, and carries a *)
(* candidate exactly when it is translated or declined for a conflict.     *)
THEOREM CapabilityTypeCorrect == Spec => []CapabilityTypeOK
<1>1. CapInv => CapabilityTypeOK
  BY DEF CapInv
<1> QED
  BY <1>1, CapabilityInvariant, PTL

(* Whatever is returned as translated was passed by every judge, and so    *)
(* was its repair.                                                         *)
THEOREM CapabilityTranslatedIsJudged == Spec => []TranslatedIsJudged
<1>1. CapInv => TranslatedIsJudged
  BY DEF CapInv
<1> QED
  BY <1>1, CapabilityInvariant, PTL

(* No model is ever asked about an executable SecRule for Akamai. *)
THEOREM CapabilitySecRuleNeverGuessed == Spec => []SecRuleNeverGuessed
<1>1. CapInv => SecRuleNeverGuessed
  BY DEF CapInv
<1> QED
  BY <1>1, CapabilityInvariant, PTL

(* llm_invoked and proposal_source say whether the doer was asked, on      *)
(* every path to a result.                                                 *)
THEOREM CapabilityInferenceIsTruthful == Spec => []InferenceIsTruthful
<1>1. CapInv => InferenceIsTruthful
  BY DEF CapInv
<1> QED
  BY <1>1, CapabilityInvariant, PTL

(* Every way to a result after the upstream resolution looks at the signal *)
(* last: check_cancelled in invoke comes after the engine's answer.        *)
THEOREM CapabilityNoVerdictAfterSignal == Spec => NoVerdictAfterSignal
<1> DEFINE Heeds == pc' = "returned" /\ pc \notin {"resolve", "inexpressible"} \cup Ended
                      => ~signal
<1>1. ASSUME Next, signal, pc \notin {"resolve", "inexpressible"} \cup Ended
      PROVE  pc' # "returned"
  <2> USE <1>1 DEF Unless, Goto
  <2>1. CASE Scope \/ Snapshot
    BY <2>1 DEF Scope, Snapshot
  <2>2. CASE Derive
    BY <2>2 DEF Derive
  <2>3. CASE Uncompiled \/ Propose \/ DoerAnswers \/ RepairAnswers
    BY <2>3 DEF Uncompiled, Propose, DoerAnswers, RepairAnswers, Unsupported,
       ProviderFailure, Failure, Answer
  <2>4. CASE Policy \/ Repolicy
    BY <2>4 DEF Policy, Repolicy, JudgePolicy, Unsupported, ProviderFailure,
       Failure, Answer
  <2>5. CASE Syntax \/ Repair \/ Resyntax
    BY <2>5 DEF Syntax, Repair, Resyntax
  <2>6. CASE Semantics \/ Conflicts
    BY <2>6 DEF Semantics, Conflicts, Unsupported, Failure, Answer
  <2>7. CASE SetSignal
    BY <2>7 DEF SetSignal
  <2> QED
    BY <2>1, <2>2, <2>3, <2>4, <2>5, <2>6, <2>7
       DEF Next, Step, Resolve, Inexpressible, Done
<1>2. [Next]_vars => [Heeds]_vars
  BY <1>1
<1> QED
  BY <1>2, PTL DEF Spec, NoVerdictAfterSignal

-----------------------------------------------------------------------------
(* Why an invocation ends.                                                 *)

(* How far a point of the code is from the end, at most: the way from a    *)
(* repair leads through the judges again, but not to a second repair.      *)
ToGo(point) ==
  CASE point = "resolve" -> 14
    [] point = "scope" -> 13
    [] point = "snapshot" -> 12
    [] point = "derive" -> 11
    [] point = "propose" -> 10
    [] point = "proposing" -> 9
    [] point = "policy" -> 8
    [] point = "syntax" -> 7
    [] point = "repair" -> 6
    [] point = "repairing" -> 5
    [] point = "repolicy" -> 4
    [] point = "resyntax" -> 3
    [] point = "semantics" -> 2
    [] point \in {"conflicts", "uncompiled", "inexpressible"} -> 1
    [] OTHER -> 0

(* Each step of the code brings the invocation nearer to its end, whatever *)
(* the upstream, the doer and the adapters answer, and the signal takes it *)
(* no further from it.                                                     *)
StepsDescend ==
  [][ToGo(pc') <= ToGo(pc) /\ (Step => ToGo(pc') < ToGo(pc))]_vars

(* The end of the way, by cases. *)
LEMMA ToGoOfEnded ==
  ToGo("returned") = 0 /\ ToGo("canceled") = 0 /\ ToGo("raised") = 0
BY DEF ToGo

(* A look at the signal, and a result, lead to the end or to the step. *)
LEMMA WaysOut ==
  /\ \A step : Goto(step) => pc' = step
  /\ Unsupported \/ ProviderFailure => pc' \in {"returned", "canceled"}
<1>1. \A step : Goto(step) => pc' = step
  BY DEF Goto
<1>2. ASSUME Unsupported PROVE pc' \in {"returned", "canceled"}
  BY <1>2 DEF Unsupported, Failure, Answer, Unless, Goto, Return
<1>3. ASSUME ProviderFailure PROVE pc' \in {"returned", "canceled"}
  BY <1>3 DEF ProviderFailure, Failure, Answer, Unless, Goto, Return
<1> QED
  BY <1>1, <1>2, <1>3

(* Where each step leads. *)
LEMMA StepLeadsOn ==
  ASSUME Step
  PROVE  ToGo(pc') < ToGo(pc)
<1> DEFINE Over == pc' \in {"returned", "canceled", "raised"}
<1>0. Over => ToGo(pc') = 0
  BY ToGoOfEnded
<1>1. CASE Resolve
  <2>1. pc = "resolve" /\ (Over \/ pc' \in {"inexpressible", "scope"})
    BY <1>1 DEF Resolve, Unless, Goto, Decline, Return
  <2> QED
    BY <1>0, <2>1 DEF ToGo
<1>2. CASE Inexpressible
  <2>1. pc = "inexpressible" /\ Over
    BY <1>2 DEF Inexpressible, Decline, Return
  <2> QED
    BY <1>0, <2>1 DEF ToGo
<1>3. CASE Scope
  <2>1. pc = "scope" /\ (Over \/ pc' = "snapshot")
    BY <1>3 DEF Scope, Unless, Goto, Decline, Return
  <2> QED
    BY <1>0, <2>1 DEF ToGo
<1>4. CASE Snapshot
  <2>1. pc = "snapshot" /\ (Over \/ pc' = "derive")
    BY <1>4 DEF Snapshot, Unless, Goto, Decline, Return
  <2> QED
    BY <1>0, <2>1 DEF ToGo
<1>5. CASE Derive
  <2>1. \A s : AfterDerivation(s) \in {"policy", "uncompiled", "propose"}
    BY DEF AfterDerivation
  <2>2. pc = "derive" /\ (Over \/ pc' \in {"policy", "uncompiled", "propose"})
    BY <1>5, <2>1 DEF Derive, Unless, Goto
  <2> QED
    BY <1>0, <2>2 DEF ToGo
<1>6. CASE Uncompiled
  <2>1. pc = "uncompiled" /\ Over
    BY <1>6, WaysOut DEF Uncompiled
  <2> QED
    BY <1>0, <2>1 DEF ToGo
<1>7. CASE Propose
  <2>1. pc = "propose" /\ (Over \/ pc' = "proposing")
    BY <1>7, WaysOut DEF Propose, Unless
  <2> QED
    BY <1>0, <2>1 DEF ToGo
<1>8. CASE DoerAnswers
  <2>1. pc = "proposing" /\ (Over \/ pc' = "policy")
    BY <1>8, WaysOut DEF DoerAnswers, Unless
  <2> QED
    BY <1>0, <2>1 DEF ToGo
<1>9. CASE Policy \/ Repolicy
  <2>1. \/ pc = "policy" /\ (Over \/ pc' = "syntax")
        \/ pc = "repolicy" /\ (Over \/ pc' = "resyntax")
    BY <1>9, WaysOut DEF Policy, Repolicy, JudgePolicy
  <2> QED
    BY <1>0, <2>1 DEF ToGo
<1>10. CASE Syntax
  <2>1. pc = "syntax" /\ (Over \/ pc' \in {"semantics", "repair"})
    BY <1>10, WaysOut DEF Syntax, Unless
  <2> QED
    BY <1>0, <2>1 DEF ToGo
<1>11. CASE Repair \/ RepairAnswers
  <2>1. \/ pc = "repair" /\ (Over \/ pc' = "repairing")
        \/ pc = "repairing" /\ (Over \/ pc' = "repolicy")
    BY <1>11, WaysOut DEF Repair, RepairAnswers, Unless
  <2> QED
    BY <1>0, <2>1 DEF ToGo
<1>12. CASE Resyntax
  <2>1. pc = "resyntax" /\ (Over \/ pc' = "semantics")
    BY <1>12, WaysOut DEF Resyntax, Unless
  <2> QED
    BY <1>0, <2>1 DEF ToGo
<1>13. CASE Semantics
  <2>1. pc = "semantics" /\ (Over \/ pc' = "conflicts")
    BY <1>13, WaysOut DEF Semantics, Unless
  <2> QED
    BY <1>0, <2>1 DEF ToGo
<1>14. CASE Conflicts
  <2>1. pc = "conflicts" /\ Over
    BY <1>14, WaysOut DEF Conflicts, Answer, Unless, Return
  <2> QED
    BY <1>0, <2>1 DEF ToGo
<1> QED
  BY <1>1, <1>2, <1>3, <1>4, <1>5, <1>6, <1>7, <1>8, <1>9, <1>10, <1>11, <1>12,
     <1>13, <1>14 DEF Step

(* An invocation takes at most fourteen steps of its own: there is one     *)
(* repair, not a loop, and nothing leads back.  That it takes them is what *)
(* fairness adds.                                                          *)
THEOREM CapabilityStepsDescend == Spec => StepsDescend
<1> DEFINE Descends == ToGo(pc') <= ToGo(pc) /\ (Step => ToGo(pc') < ToGo(pc))
<1>1. \A point : ToGo(point) \in Nat
  BY DEF ToGo
<1>2. ASSUME Step PROVE Descends
  BY <1>1, <1>2, StepLeadsOn
<1>3. ASSUME SetSignal \/ Done, ~Step PROVE Descends
  BY <1>1, <1>3 DEF SetSignal, Done, vars
<1>4. [Next]_vars => [Descends]_vars
  BY <1>2, <1>3 DEF Next
<1> QED
  BY <1>4, PTL DEF Spec, StepsDescend
=============================================================================
