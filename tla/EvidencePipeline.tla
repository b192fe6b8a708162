-------------------------- MODULE EvidencePipeline --------------------------
(***************************************************************************)
(* How the evidence behind a request is resolved: by the proof loop of     *)
(* invoke_envelope, or by the four-result join and the WAF plan of         *)
(* invoke_shared_contract_v2.  One request is resolved one way; the        *)
(* cancellation signal may be set at any time.  What a resolution ends     *)
(* with is what TranslationCapability leaves open in its first step.       *)
(***************************************************************************)
EXTENDS ProofLoop, WafPlan

vars == <<control, loopData, joinData, plan>>

(* What the other way of resolution would have been called with. *)
UnusedCall == CHOOSE c \in Call : c.mode = "direct"
UnusedProfile == CHOOSE p \in Profile : TRUE

Init ==
  /\ LoopInit /\ JoinInit /\ PlanInit
  /\ at = 1 /\ signal = FALSE
  /\ \/ stage = "begin" /\ profile = UnusedProfile
     \/ stage = "join" /\ call = UnusedCall

ResolveProofLoop == LoopWork /\ UNCHANGED <<joinData, plan>>

VerifyFourResults == JoinWork /\ UNCHANGED <<loopData, plan>>

BuildPlan == PlanWork /\ UNCHANGED <<loopData, joinData>>

Cancel == SetSignal /\ UNCHANGED <<loopData, joinData, plan>>

Done == stage \in Ended /\ UNCHANGED vars

Next == ResolveProofLoop \/ VerifyFourResults \/ BuildPlan \/ Cancel \/ Done

Spec == Init /\ [][Next]_vars

-----------------------------------------------------------------------------
Stage ==
  {"begin", "fetch", "lineage", "subject", "agreement", "promote", "join",
   "semantics", "coverage", "bundle", "mapping", "mitigation", "cases", "bypass",
   "campaign", "totals", "verified", "plan", "document", "emit"} \cup Ended

(* How often each stage is repeated. *)
Turns(s) ==
  CASE s \in {"fetch", "lineage", "subject", "agreement"} -> Len(Roles)
    [] s = "join" -> Len(Fetches)
    [] s \in {"coverage", "mapping", "cases", "campaign"} -> Len(Obligations)
    [] s = "document" -> Documents
    [] OTHER -> 1

(* Types; every loop stays within what it goes through. *)
EvidenceTypeOK ==
  /\ stage \in Stage /\ at \in 1 .. Turns(stage)
  /\ signal \in BOOLEAN
  /\ LoopTypeOK /\ JoinTypeOK /\ PlanTypeOK
=============================================================================
