-------------------------- MODULE FourResultJoin ---------------------------
(***************************************************************************)
(* resolve_and_verify_four_result_join of shared_contracts_v2.py: the      *)
(* results of Check Generation (CG), Defense Generation (DG), Mitigation   *)
(* Check (MC) and Bypass Validation (BV) are fetched, and verified one     *)
(* after the other against their locators and against each other before    *)
(* anything is translated.                                                 *)
(*                                                                         *)
(* Each stage reads parts of a document that no other stage reads, and     *)
(* keeps what later stages compare with, so the parts are chosen by the    *)
(* stage that reads them.  Digests, schemas and orderings a document must  *)
(* satisfy on its own are one field of it, intact.                         *)
(***************************************************************************)
EXTENDS Naturals, Sequences, FiniteSets, UpstreamFetch

CONSTANTS Member,        \* source members of the attack
          Input,         \* test inputs
          Component,     \* components of the match semantics
          MemberOf,      \* the source members each component stands for
          Group,         \* coverage groups
          Obligations,   \* the obligations, in the order of the document
          Artifact,      \* artifacts of the candidate
          Attempt        \* identifiers of attempts: a bound on their number

Failed == "failed"       \* how a walk over the coverage groups may end

ASSUME JoinAssumption ==
  /\ MemberOf \in [Component -> SUBSET Member]
  /\ Component \cap Group = {} /\ Failed \notin Component
  /\ Obligations \in Seq({Obligations[i] : i \in DOMAIN Obligations})
  /\ Len(Obligations) > 0
  /\ IsFiniteSet(Input) /\ IsFiniteSet(Component)
  /\ IsFiniteSet(Group) /\ IsFiniteSet(Attempt)

VARIABLES profile,   \* the Control Translation profile of the request
          fetched,   \* whether each record has the content its locator names
          sem,       \* of CG: inputs, and by obligation what it needs and covers
          proof,     \* of DG and MC: bindings, mapped obligations, blocked inputs
          bv         \* of BV: the campaigns so far

joinData == <<profile, fetched, sem, proof, bv>>

-----------------------------------------------------------------------------
Obligation == {Obligations[i] : i \in DOMAIN Obligations}
Fetches == <<"check", "defense", "mitigation", "bypass">>
Node == Component \cup Group
Nowhere == "nowhere"

Profile == {"waf-standard@1", "waf-standard@2"}

(* _expected_profiles: what BV must have run under. *)
BypassProfile == [p \in Profile |-> IF p = "waf-standard@1" THEN "waf-bypass@2"
                                    ELSE "waf-bypass@3"]

ByObligation == [o \in Obligation |-> {}]

(* graph and root: the coverage groups, and where the last walk started. *)
NoSemantics == [inputs |-> {}, needs |-> ByObligation, cover |-> ByObligation,
                graph |-> [g \in Group |-> {}], root |-> Nowhere]

NoProof == [bound |-> [s \in Shape |-> {}], mapped |-> {}, blocked |-> ByObligation]

(* reads, transformed: the inputs each component occurs in, and the        *)
(* components with transformations; faced: the targets that were attacked  *)
(* and held; listed: those the campaign accounts for in any way.           *)
NoCampaigns == [reads |-> [c \in Component |-> {}], transformed |-> {},
                faced |-> ByObligation, listed |-> ByObligation, attempts |-> {},
                planned |-> 0, executed |-> 0, unsupported |-> 0]

JoinInit ==
  /\ profile \in Profile
  /\ fetched = [s \in Shape |-> "other"]
  /\ sem = NoSemantics
  /\ proof = NoProof
  /\ bv = NoCampaigns

(* An exception leaves nothing behind. *)
Leave(how) ==
  /\ Goto(how)
  /\ fetched' = [s \in Shape |-> "other"]
  /\ sem' = NoSemantics
  /\ proof' = NoProof
  /\ bv' = NoCampaigns
  /\ UNCHANGED profile

Reject == Leave("rejected")  \* SharedContractV2Error

(* Every stage rejects the documents that do not satisfy it, and there are *)
(* such documents in every stage.                                          *)
OrReject(accepted) == Reject \/ accepted

-----------------------------------------------------------------------------
(* The fetch loop, on either execution plane.  A fault of the transport is *)
(* told apart from a result that is absent or wrong.                       *)
FetchResult ==
  /\ stage = "join"
  /\ LET s == Fetches[at] IN
     IF signal THEN Leave("canceled")
     ELSE \/ Leave("unreachable")
          \/ OrReject(\E r \in Delivered[s]["v2"] \cup LabDelivered :
                        /\ fetched' = [fetched EXCEPT ![s] = r.content]
                        /\ Advance(Len(Fetches), "semantics")
                        /\ UNCHANGED <<profile, sem, proof, bv>>)

(* verify_four_result_join starts with _verify_locator of each record: the *)
(* identities in it and the digest it advertises are those of its locator; *)
(* the locators have one correlation.                                      *)
LocatorsHold(identified, advertised, correlated) ==
  identified = Shape /\ advertised = Shape /\ correlated

-----------------------------------------------------------------------------
(* _validate_cg.  own: the inputs of the semantics, among those of the     *)
(* result; by: the members each stands for; left, leftInputs: members and  *)
(* inputs declared unsupported.                                            *)
Semantics ==
  [own : SUBSET Input, by : [Input -> SUBSET Member], left : SUBSET Member,
   leftInputs : SUBSET Input, intact : BOOLEAN]

Partitioned(d) ==
  LET represented == UNION {d.by[i] : i \in d.own}
  IN /\ represented \cap d.left = {} /\ represented \cup d.left = Member
     /\ d.own \cap d.leftInputs = {} /\ d.own \cup d.leftInputs = Input

(* The sets of inputs a valid document may have (evaluated once). *)
ValidInputs ==
  {d.own : d \in {e \in Semantics : /\ e.intact /\ Partitioned(e)
                                    /\ \A i \in e.own : e.by[i] # {}}}

ValidateSemantics ==
  /\ stage = "semantics"
  /\ IF signal THEN Leave("canceled")
     ELSE OrReject(
            /\ \E identified, advertised \in SUBSET Shape, correlated \in BOOLEAN :
                 LocatorsHold(identified, advertised, correlated)
            /\ \E i \in ValidInputs, g \in [Group -> SUBSET Node] :
                 sem' = [sem EXCEPT !.inputs = i, !.graph = g]
            /\ Goto("coverage")
            /\ UNCHANGED <<profile, fetched, proof, bv>>)

ForgivingWalk(groups, told, ref) ==  \* faulty variant: a cycle is skipped
  LET walk[visiting \in SUBSET Group] == [n \in Node |->
        IF n \in Component THEN {n}
        ELSE IF n \in visiting THEN {}
        ELSE IF n \notin told THEN {Failed}
        ELSE UNION {walk[visiting \cup {n}][child] : child \in groups[n]}]
  IN walk[{}][ref]

(* _coverage_members and _coverage_component_ids: a walk that knows the    *)
(* groups it is in.  It finds the components below a reference, or fails   *)
(* at a group it is in already, or at one whose declared ancestry is not   *)
(* what is below it (told: the groups that declare theirs correctly).      *)
CoverageWalk(groups, told, ref) ==
  LET walk[visiting \in SUBSET Group] == [n \in Node |->
        IF n \in Component THEN {n}
        ELSE IF n \in visiting \/ n \notin told THEN {Failed}
        ELSE UNION {walk[visiting \cup {n}][child] : child \in groups[n]}]
  IN walk[{}][ref]

(* The loop over the obligations at the end of _validate_cg. *)
ValidateObligation ==
  /\ stage = "coverage"
  /\ OrReject(
       \E ref \in Node, told \in SUBSET Group, required \in SUBSET sem.inputs :
         LET o == Obligations[at]
             found == CoverageWalk(sem.graph, told, ref)
         IN /\ required # {}
            /\ found \subseteq Component   \* it did not fail
            /\ sem' = [sem EXCEPT !.needs[o] = required, !.cover[o] = found, !.root = ref]
            /\ Advance(Len(Obligations), "bundle")
            /\ UNCHANGED <<profile, fetched, proof, bv>>)

-----------------------------------------------------------------------------
(* DG.  binds: the results whose exact locators a document names.          *)
Bound(s, binds) == proof' = [proof EXCEPT !.bound[s] = binds]

(* _validate_bundle up to the mappings: unit is the application unit, home *)
(* the atomic group each artifact refers to.                               *)
BundleHolds(unit, home) ==
  unit = Artifact /\ \A a \in Artifact : a \in home[a]

ValidateBundle ==
  /\ stage = "bundle"
  /\ OrReject(
       \E binds \in SUBSET {"check"}, intact \in BOOLEAN,
          unit \in SUBSET Artifact, home \in [Artifact -> SUBSET Artifact] :
         /\ binds = {"check"} /\ intact /\ BundleHolds(unit, home)
         /\ Bound("defense", binds)
         /\ sem' = [sem EXCEPT !.graph = NoSemantics.graph, !.root = Nowhere]
         /\ Goto("mapping")
         /\ UNCHANGED <<profile, fetched, bv>>)

MappingHolds(o, exact, members, artifacts) ==
  /\ exact
  /\ members # {} /\ members = UNION {MemberOf[c] : c \in sem.cover[o]}
  /\ artifacts # {}

(* The mapping of one obligation (an absent one is rejected); after the    *)
(* last one the lineage: the results that name a vulnerability name the    *)
(* same.                                                                   *)
ValidateMapping ==
  /\ stage = "mapping"
  /\ OrReject(
       \E exact, sameVulnerability \in BOOLEAN, members \in SUBSET Member,
          artifacts \in SUBSET Artifact :
         LET o == Obligations[at]
         IN /\ MappingHolds(o, exact, members, artifacts)
            /\ at = Len(Obligations) => sameVulnerability
            /\ proof' = [proof EXCEPT !.mapped = @ \cup {o}]
            /\ Advance(Len(Obligations), "mitigation")
            /\ UNCHANGED <<profile, fetched, sem, bv>>)

-----------------------------------------------------------------------------
(* _validate_mc up to the obligations: chain provenance, profile, match,   *)
(* and the attested application unit.                                      *)
SameChain(s, binds) == binds = {"check", "defense"}  \* faulty variant: without MC

ChainHolds(s, binds) ==
  binds = IF s = "mitigation" THEN {"check", "defense"}
          ELSE {"check", "defense", "mitigation"}

ValidateMitigation ==
  /\ stage = "mitigation"
  /\ OrReject(
       \E binds \in SUBSET {"check", "defense"}, p \in Profile, intact \in BOOLEAN :
         /\ ChainHolds("mitigation", binds) /\ p = profile /\ intact
         /\ Bound("mitigation", binds)
         /\ Goto("cases")
         /\ UNCHANGED <<profile, fetched, sem, bv>>)

(* What the result says of an input: not blocked; blocked with evidence    *)
(* that contradicts it or with another rendering of the template; nothing. *)
Case == {"blocked", "not-blocked", "contradicted", "misrendered", "omitted"}

(* The loop of _validate_mc, with _validate_mc_evidence and                *)
(* _validate_mc_resolution.                                                *)
CasesHold(o, case) ==
  /\ {i \in Input : case[i] # "omitted"} = sem.needs[o]
  /\ \A i \in sem.needs[o] : case[i] = "blocked"

ValidateCases ==
  /\ stage = "cases"
  /\ OrReject(
       \E case \in [Input -> Case], accounted \in BOOLEAN :
         LET o == Obligations[at]
         IN /\ CasesHold(o, case) /\ (at = Len(Obligations) => accounted)
            /\ proof' = [proof EXCEPT !.blocked[o] = {i \in Input : case[i] = "blocked"}]
            /\ Advance(Len(Obligations), "bypass")
            /\ UNCHANGED <<profile, fetched, sem, bv>>)

-----------------------------------------------------------------------------
(* _validate_bv up to the campaigns.  What the campaigns must attack is    *)
(* read from the semantics here for the first time.                        *)
ValidateBypass ==
  /\ stage = "bypass"
  /\ OrReject(
       \E binds \in SUBSET {"check", "defense", "mitigation"},
          p \in {"waf-bypass@2", "waf-bypass@3"}, intact \in BOOLEAN :
         /\ ChainHolds("bypass", binds) /\ p = BypassProfile[profile] /\ intact
         /\ Bound("bypass", binds)
         /\ \E occurs \in [Component -> SUBSET sem.inputs], hard \in SUBSET Component :
              bv' = [bv EXCEPT !.reads = occurs, !.transformed = hard]
         /\ Goto("campaign")
         /\ UNCHANGED <<profile, fetched, sem>>)

(* _expected_bv_dimensions: one target for each component an obligation    *)
(* covers and each required input it occurs in.  The encodings a profile   *)
(* lists for the carrier of a component are one dimension here.            *)
Target == Input \X Component

TargetsOf(needed, covered, occurs) ==
  {t \in needed \X covered : t[1] \in occurs[t[2]]}

(* A campaign says of each target what came of it; of an additional        *)
(* challenge the same; sound is everything else that makes the evidence of *)
(* a campaign: no dimension twice or of another target, its wire values,   *)
(* renderings and candidate mapping.                                       *)
Disposition == {"blocked", "safety-stop", "bypassed", "unsupported", "omitted"}
Held == {"blocked", "safety-stop"}

Campaign(targets) ==
  [of : [targets -> Disposition], challenge : Disposition, sound : BOOLEAN]

AnyUnsupported(p, hard, d) ==  \* faulty variant: every target may be unsupported
  \A t \in DOMAIN d.of : d.of[t] \notin {"omitted", "bypassed"}

(* The dimensions of a campaign: of the legacy profile exactly the         *)
(* expected ones; of waf-bypass@3 (_validate_bv_v3_dimensions) all of them *)
(* and challenges of the profile, of which only those labelled as          *)
(* challenges may be unsupported, as the targets of transformed components *)
(* are.                                                                    *)
DimensionsHold(p, hard, d) ==
  /\ DOMAIN d.of # {}
  /\ \A t \in DOMAIN d.of :
       /\ d.of[t] \notin {"omitted", "bypassed"}
       /\ p = "waf-bypass@3" /\ d.of[t] = "unsupported" => t[2] \in hard
  /\ d.challenge # "bypassed"
  /\ p = "waf-bypass@2" => d.challenge = "omitted"
  /\ d.sound

(* What is kept of a campaign. *)
Outcome(d) ==
  LET extra(S) == IF d.challenge \in S THEN 1 ELSE 0
      those(S) == {t \in DOMAIN d.of : d.of[t] \in S}
  IN [faced |-> those(Held),
      executed |-> Cardinality(those(Held)) + extra(Held),
      unsupported |-> Cardinality(those({"unsupported"})) + extra({"unsupported"})]

(* The outcomes of the campaigns that hold (evaluated once). *)
Outcomes ==
  [p \in {"waf-bypass@2", "waf-bypass@3"} |-> [targets \in SUBSET Target |->
     [hard \in SUBSET Component |->
        {Outcome(d) : d \in {e \in Campaign(targets) : DimensionsHold(p, hard, e)}}]]]

(* Attempt identifiers are used once in all campaigns. *)
DistinctAttempts(ids, n, used) == Cardinality(ids) = n /\ ids \cap used = {}

ValidateCampaign ==
  /\ stage = "campaign"
  /\ LET o == Obligations[at]
         targets == TargetsOf(sem.needs[o], sem.cover[o], bv.reads)
     IN OrReject(
          \E r \in Outcomes[BypassProfile[profile]][targets][bv.transformed],
             ids \in SUBSET Attempt :
            /\ DistinctAttempts(ids, r.executed, bv.attempts)
            /\ bv' = [bv EXCEPT !.faced[o] = r.faced, !.listed[o] = targets,
                                !.attempts = @ \cup ids,
                                !.planned = @ + r.executed + r.unsupported,
                                !.executed = @ + r.executed,
                                !.unsupported = @ + r.unsupported]
            /\ Advance(Len(Obligations), "totals")
            /\ UNCHANGED <<profile, fetched, sem, proof>>)

(* The end of _validate_bv: no counterexamples, the search bounds and the  *)
(* accounting say what the campaigns add up to.                            *)
ValidateTotals ==
  /\ stage = "totals"
  /\ OrReject(\E budget, executed \in 0 .. bv.planned, agree \in BOOLEAN :
                /\ budget = bv.planned /\ executed = bv.executed /\ agree
                /\ Goto("verified") /\ UNCHANGED joinData)

(* invoke_shared_contract_v2 looks at the signal before it plans. *)
HandOver ==
  /\ stage = "verified"
  /\ Leave(IF signal THEN "canceled" ELSE "plan")

JoinWork ==
  \/ FetchResult \/ ValidateSemantics \/ ValidateObligation \/ ValidateBundle
  \/ ValidateMapping \/ ValidateMitigation \/ ValidateCases \/ ValidateBypass
  \/ ValidateCampaign \/ ValidateTotals \/ HandOver

-----------------------------------------------------------------------------
JoinTypeOK ==
  /\ profile \in Profile
  /\ fetched \in [Shape -> {"pinned", "other"}]
  /\ sem \in [inputs : SUBSET Input, needs : [Obligation -> SUBSET Input],
              cover : [Obligation -> SUBSET Component],
              graph : [Group -> SUBSET Node], root : Node \cup {Nowhere}]
  /\ proof \in [bound : [Shape -> SUBSET Shape], mapped : SUBSET Obligation,
                blocked : [Obligation -> SUBSET Input]]
  /\ bv \in [reads : [Component -> SUBSET Input], transformed : SUBSET Component,
             faced : [Obligation -> SUBSET Target], listed : [Obligation -> SUBSET Target],
             attempts : SUBSET Attempt, planned : Nat, executed : Nat, unsupported : Nat]

(* What can be reached from a node along the groups: the least set that    *)
(* has the children of the node and of every group in it.                  *)
ClosedUnder(groups, S) == \A g \in S \cap Group : groups[g] \subseteq S

Below(groups, n) ==
  IF n \in Component THEN {}
  ELSE {m \in Node : \A S \in SUBSET Node :
          groups[n] \subseteq S /\ ClosedUnder(groups, S) => m \in S}

(* The walk of _coverage_members takes an obligation to exactly the        *)
(* components that are reachable from its reference, whether by one way or *)
(* by several, and accepts no reference from which a group can be reached  *)
(* that lies on a cycle.                                                   *)
CoverageIsReachability ==
  sem.root # Nowhere =>
    LET reachable == {sem.root} \cup Below(sem.graph, sem.root)
        last == IF stage = "coverage" THEN Obligations[at - 1]
                ELSE Obligations[Len(Obligations)]
    IN /\ sem.cover[last] = reachable \cap Component
       /\ \A g \in reachable \cap Group : g \notin Below(sem.graph, g)

(* No attempt counts for two dimensions, of one campaign or of two: the    *)
(* executed work is the number of attempts.                                *)
AttemptsCountOnce == bv.executed = Cardinality(bv.attempts)

(* A verified join has, for every obligation, a mapping of DG, every       *)
(* required input blocked according to MC, and a campaign of BV in which   *)
(* every target is accounted for; under waf-bypass@3 every target of a     *)
(* component without transformations was attacked and held.  (A target of  *)
(* a transformed component, and any target under the legacy profile, may   *)
(* have been declared unsupported.)  No attempt is counted twice.          *)
VerifiedIsProven ==
  /\ AttemptsCountOnce
  /\ stage = "verified" =>
       \A o \in Obligation :
         LET targets == TargetsOf(sem.needs[o], sem.cover[o], bv.reads)
         IN /\ o \in proof.mapped
            /\ sem.needs[o] # {} /\ sem.needs[o] \subseteq proof.blocked[o]
            /\ targets # {} /\ bv.listed[o] = targets
            /\ profile = "waf-standard@2" =>
                 {t \in targets : t[2] \notin bv.transformed} \subseteq bv.faced[o]

(* The four results of a verified join are one chain: each has the content *)
(* its locator names and was made from the exact results before it, so no  *)
(* result of another run, or of another attempt of this run, is mixed in.  *)
VerifiedIsOneChain ==
  stage = "verified" =>
    /\ \A s \in Shape : fetched[s] = "pinned"
    /\ \A i \in 2 .. Len(Fetches) :
         proof.bound[Fetches[i]] = {Fetches[j] : j \in 1 .. (i - 1)}
=============================================================================
