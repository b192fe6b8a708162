--------------------------- MODULE EvidenceProofs ---------------------------
(***************************************************************************)
(* The resolution of evidence, for any documents, identifiers,             *)
(* obligations, components and artifacts: a resolved proof loop is one     *)
(* lineage of genuine records, a verified join is one proven chain, and an *)
(* emitted plan says what was asked.                                       *)
(*                                                                         *)
(* Each part is sequential code, so its invariant says, by the stage and   *)
(* the turn it is at, what the stages and the turns before have            *)
(* established.                                                            *)
(***************************************************************************)
EXTENDS EvidencePipeline, FiniteSetTheorems, SequenceTheorems,
        WellFoundedInduction, TLAPS

(* The stages of each part, in their order. *)
LoopStage == {"begin", "fetch", "lineage", "subject", "agreement", "promote"}
PlanStage == {"plan", "document", "emit"}

LEMMA RolesAre ==
  /\ Len(Roles) = 3 /\ Roles[1] = "defense" /\ Roles[2] = "mitigation"
  /\ Roles[3] = "bypass"
BY DEF Roles

(* How the control moves. *)
LEMMA GotoMoves ==
  ASSUME NEW next, Goto(next)
  PROVE  stage' = next /\ at' = 1 /\ signal' = signal
BY DEF Goto

LEMMA AdvanceMoves ==
  ASSUME NEW last, NEW next, Advance(last, next)
  PROVE  /\ signal' = signal
         /\ \/ at = last /\ stage' = next /\ at' = 1
            \/ at # last /\ stage' = stage /\ at' = at + 1
BY DEF Advance, Goto

-----------------------------------------------------------------------------
(* The proof loop. *)

(* A record that was taken in for its role. *)
RecordOK(role) ==
  LET r == record[role] IN
  /\ r.capability = role
     \/ (r.capability = "none" /\ (role = "bypass" \/ call.mode = "lab"))
  /\ r.contract \in ContractsOf[role]
     \/ (r.contract = "none" /\ call.mode = "lab")
  /\ call.mode \in {"strict", "lab"} => r.content = "pinned"
  /\ r.state = RequiredState(call)[role]

(* What the subject, or the agreement, has established. *)
Established ==
  /\ Cardinality(named["vulnerability"]) = 1 /\ Cardinality(named["candidate"]) = 1
  /\ call.subject => named["vulnerability"] = {Ours} /\ named["candidate"] = {Ours}

LoopInv ==
  /\ LoopTypeOK
  /\ stage \in {"fetch", "lineage", "subject", "agreement"} => at \in 1 .. 3
  /\ stage = "fetch" => \A i \in 1 .. (at - 1) : RecordOK(Roles[i])
  /\ stage \in {"lineage", "subject", "agreement", "promote", "resolved"} =>
       \A role \in Role : RecordOK(role)
  /\ named["correlation"] \subseteq {Ours}
  /\ call.revision => named["revision"] \subseteq {Ours}
  /\ stage \in {"begin", "fetch", "lineage"} =>
       named["vulnerability"] = {} /\ named["candidate"] = {}
  /\ stage = "subject" =>
       /\ call.subject
       /\ named["vulnerability"] \subseteq {Ours} /\ named["candidate"] \subseteq {Ours}
  /\ stage = "agreement" => ~call.subject
  /\ stage \in {"subject", "agreement"} /\ at = 1 =>
       named["vulnerability"] = {} /\ named["candidate"] = {}
  /\ stage \in {"subject", "agreement"} /\ at # 1 => Established
  /\ stage \in {"promote", "resolved"} => Established
  /\ stage = "resolved" => (cleared <=> call.bypass = "no-bypass-found")

(* What fetch hands over for a role, and the caller accepts, comes from    *)
(* the role's producer.                                                    *)
LEMMA ResolvableRecord ==
  ASSUME NEW c \in Call, NEW role \in Role, NEW r \in Resolvable(c, role),
         ValidRecordIdentity(role, r)
  PROVE  /\ r.capability \in Shape \cup {"none"} /\ r.contract \in Contract
         /\ r.content \in {"pinned", "other"}
         /\ r.capability = role
            \/ (r.capability = "none" /\ (role = "bypass" \/ c.mode = "lab"))
         /\ r.contract \in ContractsOf[role] \/ (r.contract = "none" /\ c.mode = "lab")
         /\ c.mode \in {"strict", "lab"} => r.content = "pinned"
<1>1. CASE c.mode = "lab"
  <2>1. r \in [capability : Shape \cup {"none"}, contract : Contract, content : {"pinned"}]
    BY <1>1 DEF Resolvable, LabDelivered
  <2> QED
    BY <1>1, <2>1 DEF ValidRecordIdentity
<1>2. CASE c.mode # "lab"
  <2>1. PICK ref \in Reference : /\ ref.prefix \in Shape \ {"check"}
                                 /\ r \in Delivered[ref.prefix][KindOf(c)]
    <3>1. LocatedAt(role) \in Reference
      BY DEF LocatedAt, Reference, Role, Shape
    <3>2. PICK ref \in ReferencesOf(c, role) :
            Readable(ref, KindOf(c)) /\ r \in Delivered[ref.prefix][KindOf(c)]
      BY <1>2 DEF Resolvable
    <3>3. ref \in Reference /\ KindOf(c) # "v2"
      BY <3>1, <3>2 DEF ReferencesOf, KindOf
    <3> QED
      BY <3>2, <3>3 DEF Readable
  <2>2. PICK shape \in Shape \ {"check"}, kind \in LocatorKind :
          /\ kind = KindOf(c) /\ r \in Delivered[shape][kind]
    BY <2>1 DEF KindOf, LocatorKind
  <2>3. PICK row \in Row : /\ Verified(shape, kind, row)
                           /\ r = [capability |-> row.capability,
                                   contract |-> row.contract, content |-> row.content]
    <3>1. Delivered[shape][kind] =
            {[capability |-> x.capability, contract |-> x.contract,
              content |-> x.content] : x \in {y \in Row : Verified(shape, kind, y)}}
      BY <2>2 DEF Delivered
    <3> QED
      BY <2>2, <3>1
  <2>4. NamesProducer(shape, row) /\ LocatorAgrees(kind, row)
    BY <2>2, <2>3 DEF Verified
  <2>5. /\ r.capability = row.capability /\ r.contract = row.contract
        /\ r.content = row.content
        /\ row.capability \in Shape \cup {"none"} /\ row.contract \in Contract
        /\ row.content \in {"pinned", "other"}
    BY <2>3 DEF Row
  <2>6. c.mode = "strict" => kind = "strict"
    BY <2>2 DEF KindOf
  <2>7. c.mode \in {"strict", "lab"} => r.content = "pinned"
    BY <1>2, <2>4, <2>5, <2>6 DEF LocatorAgrees, Strict
  <2>8. /\ ContractsOf["defense"] = {"defense@1.0"}
        /\ ContractsOf["mitigation"] = {"mitigation@1.0"}
        /\ ContractsOf["bypass"] = {"bypass@1.0", "bypass@2.0"}
    BY DEF ContractsOf
  <2>9. /\ shape \in {"defense", "mitigation", "bypass"}
        /\ role \in {"defense", "mitigation", "bypass"}
    BY <2>2 DEF Shape, Role
  <2>10. shape = role
    BY <2>4, <2>5, <2>8, <2>9 DEF NamesProducer, ValidRecordIdentity
  <2> QED
    BY <2>4, <2>5, <2>7, <2>10 DEF NamesProducer
<1> QED
  BY <1>1, <1>2

(* Steps that leave what the loop has read alone: those of the other       *)
(* parts, refusals and cancellations.                                      *)
LEMMA LoopLeft ==
  ASSUME LoopInv, UNCHANGED loopData,
         \/ stage' \notin LoopStage \cup {"resolved"}
         \/ stage' = stage /\ at' = at
  PROVE  LoopInv'
BY DEF LoopInv, LoopTypeOK, loopData, LoopStage, RecordOK, RequiredState, Established

LEMMA RefuseKeeps ==
  ASSUME LoopInv, Refuse
  PROVE  LoopInv'
BY LoopLeft DEF Refuse, Goto, LoopStage

LEMMA StopKeeps ==
  ASSUME LoopInv, Goto("canceled"), UNCHANGED loopData
  PROVE  LoopInv'
BY LoopLeft DEF Goto, LoopStage

LEMMA BeginKeeps ==
  ASSUME LoopInv, Begin
  PROVE  LoopInv'
<1>1. CASE Goto("fetch") /\ UNCHANGED loopData
  <2>1. stage' = "fetch" /\ at' = 1 /\ stage = "begin" /\ UNCHANGED loopData
    BY <1>1 DEF Goto, Begin
  <2> QED
    BY <2>1 DEF LoopInv, LoopTypeOK, loopData, RecordOK, RequiredState
<1> QED
  BY <1>1, RefuseKeeps, StopKeeps DEF Begin, Unless

LEMMA FetchKeeps ==
  ASSUME LoopInv, FetchRecord
  PROVE  LoopInv'
<1>0. stage = "fetch" /\ at \in 1 .. 3 /\ call \in Call /\ LoopTypeOK
  BY DEF FetchRecord, LoopInv, LoopTypeOK
<1>1. PICK role \in Role : role = Roles[at]
  BY <1>0, RolesAre DEF Role
<1>2. ASSUME NEW r \in Resolvable(call, role), NEW s \in State,
             StateRequired(call, role, s), ValidRecordIdentity(role, r),
             record' = [record EXCEPT ![role] =
                          [capability |-> r.capability, contract |-> r.contract,
                           content |-> r.content, state |-> s]],
             Advance(Len(Roles), "lineage"),
             UNCHANGED <<call, named, cleared>>
      PROVE  LoopInv'
  <2> DEFINE x == [capability |-> r.capability, contract |-> r.contract,
                   content |-> r.content, state |-> s]
  <2>1. /\ x \in [capability : Shape \cup {"none"}, contract : Contract,
                  content : {"pinned", "other"}, state : State]
        /\ x.capability = r.capability /\ x.contract = r.contract
        /\ x.content = r.content /\ x.state = s
    BY <1>0, <1>2, ResolvableRecord
  <2> HIDE DEF x
  <2>2. /\ record' \in [Role -> [capability : Shape \cup {"none"}, contract : Contract,
                                 content : {"pinned", "other"}, state : State]]
        /\ record'[role] = x
        /\ \A q \in Role \ {role} : record'[q] = record[q]
    BY <1>0, <1>2, <2>1 DEF LoopTypeOK, x
  <2>3. LoopTypeOK'
    BY <1>0, <1>2, <2>2 DEF LoopTypeOK
  <2>4. RecordOK(role)'
    <3>1. s = RequiredState(call)[role]
      BY <1>2 DEF StateRequired
    <3> QED
      BY <1>0, <1>2, <2>1, <2>2, <3>1, ResolvableRecord DEF RecordOK, RequiredState
  <2>5. \A q \in Role \ {role} : RecordOK(q) => RecordOK(q)'
    BY <1>2, <2>2 DEF RecordOK, RequiredState
  <2>6. \A i \in 1 .. (at - 1) : RecordOK(Roles[i])
    BY <1>0 DEF LoopInv
  <2>7. \A i \in 1 .. at : Roles[i] \in Role /\ RecordOK(Roles[i])'
    <3> TAKE i \in 1 .. at
    <3>1. Roles[i] \in Role
      BY <1>0, RolesAre DEF Role
    <3>2. CASE Roles[i] = role
      BY <2>4, <3>1, <3>2
    <3>3. CASE Roles[i] # role
      <4>1. i \in 1 .. (at - 1)
        BY <1>0, <1>1, <3>3
      <4> QED
        BY <2>5, <2>6, <3>1, <3>3, <4>1
    <3> QED
      BY <3>1, <3>2, <3>3
  <2>8. CASE at = 3 /\ stage' = "lineage" /\ at' = 1
    <3>1. \A q \in Role : RecordOK(q)'
      BY <2>7, <2>8, RolesAre DEF Role
    <3> QED
      BY <1>0, <1>2, <2>3, <2>8, <3>1 DEF LoopInv
  <2>9. CASE at # 3 /\ stage' = stage /\ at' = at + 1
    <3>1. at' \in 1 .. 3 /\ at' - 1 = at
      BY <1>0, <2>9
    <3> QED
      BY <1>0, <1>2, <2>3, <2>7, <2>9, <3>1 DEF LoopInv
  <2> QED
    BY <1>2, <2>8, <2>9, RolesAre, AdvanceMoves
<1> QED
  BY <1>1, <1>2, RefuseKeeps, StopKeeps DEF FetchRecord, Unless

(* The later stages read no more records. *)
LEMMA RecordsStay ==
  ASSUME UNCHANGED <<call, record>>, NEW role \in Role
  PROVE  RecordOK(role)' <=> RecordOK(role)
BY DEF RecordOK, RequiredState

LEMMA LineageKeeps ==
  ASSUME LoopInv, CompareLineage
  PROVE  LoopInv'
<1>0. stage = "lineage" /\ at \in 1 .. 3 /\ LoopTypeOK /\ call \in Call
  BY DEF CompareLineage, LoopInv, LoopTypeOK
<1>1. ASSUME NEW c \in SUBSET Id, NEW v \in SUBSET Id,
             LineageHolds(call, OneValue(c), OneValue(v)),
             named' = [named EXCEPT !["correlation"] = @ \cup OneValue(c),
                                    !["revision"] = @ \cup OneValue(v)],
             Advance(Len(Roles), IF call.subject THEN "subject" ELSE "agreement"),
             UNCHANGED <<call, record, cleared>>
      PROVE  LoopInv'
  <2>1. OneValue(c) \in SUBSET Id /\ OneValue(v) \in SUBSET Id
    BY DEF OneValue
  <2>2. /\ named' \in [Key -> SUBSET Id]
        /\ named'["correlation"] = named["correlation"] \cup OneValue(c)
        /\ named'["revision"] = named["revision"] \cup OneValue(v)
        /\ named'["vulnerability"] = named["vulnerability"]
        /\ named'["candidate"] = named["candidate"]
    BY <1>0, <1>1, <2>1 DEF LoopTypeOK, Key
  <2>3. /\ named'["correlation"] \subseteq {Ours}
        /\ call.revision => named'["revision"] \subseteq {Ours}
    BY <1>1, <2>2 DEF LoopInv, LineageHolds
  <2>4. LoopTypeOK'
    BY <1>0, <1>1, <2>2 DEF LoopTypeOK
  <2>5. \A role \in Role : RecordOK(role)'
    BY <1>0, <1>1, RecordsStay DEF LoopInv
  <2>6. named'["vulnerability"] = {} /\ named'["candidate"] = {} /\ call' = call
    BY <1>0, <1>1, <2>2 DEF LoopInv
  <2>7. CASE at = 3 /\ at' = 1 /\ stage' = IF call.subject THEN "subject" ELSE "agreement"
    <3>1. \/ call.subject /\ stage' = "subject"
          \/ ~call.subject /\ stage' = "agreement"
      BY <2>7
    <3> QED
      BY <2>3, <2>4, <2>5, <2>6, <2>7, <3>1 DEF LoopInv
  <2>8. CASE at # 3 /\ stage' = stage /\ at' = at + 1
    <3>1. stage' = "lineage" /\ at' \in 1 .. 3
      BY <1>0, <2>8
    <3> QED
      BY <2>3, <2>4, <2>5, <2>6, <3>1 DEF LoopInv
  <2> QED
    BY <1>1, <2>7, <2>8, RolesAre, AdvanceMoves
<1>2. \A role : FoundIn(role) \subseteq SUBSET Id
  BY DEF FoundIn
<1> QED
  BY <1>1, <1>2, RefuseKeeps, StopKeeps DEF CompareLineage, Unless

(* The subject or the agreement: what is named so far is established from  *)
(* the first document on.                                                  *)
LEMMA NameKeeps ==
  ASSUME LoopInv, stage \in {"subject", "agreement"},
         NEW vuln \in SUBSET Id, NEW cand \in SUBSET Id, Name(vuln, cand, "promote"),
         Cardinality(named["vulnerability"] \cup vuln) = 1,
         Cardinality(named["candidate"] \cup cand) = 1,
         call.subject => /\ named["vulnerability"] \cup vuln = {Ours}
                         /\ named["candidate"] \cup cand = {Ours}
  PROVE  LoopInv'
<1>0. at \in 1 .. 3 /\ LoopTypeOK
  BY DEF LoopInv
<1>1. /\ named' \in [Key -> SUBSET Id]
      /\ named'["correlation"] = named["correlation"]
      /\ named'["revision"] = named["revision"]
      /\ named'["vulnerability"] = named["vulnerability"] \cup vuln
      /\ named'["candidate"] = named["candidate"] \cup cand
  BY <1>0 DEF LoopTypeOK, Key, Name
<1>2. call' = call /\ record' = record /\ cleared' = cleared
  BY DEF Name
<1>3. LoopTypeOK'
  BY <1>0, <1>1, <1>2 DEF LoopTypeOK
<1>4. \A role \in Role : RecordOK(role)'
  BY <1>2, RecordsStay DEF LoopInv
<1>5. Established'
  BY <1>1, <1>2 DEF Established
<1>6. \/ stage' = "promote"
      \/ stage' = stage /\ at' \in 1 .. 3 /\ at' # 1
  BY <1>0, RolesAre, AdvanceMoves DEF Name
<1>7. call.subject => /\ named'["vulnerability"] \subseteq {Ours}
                      /\ named'["candidate"] \subseteq {Ours}
  BY <1>1
<1>8. /\ named'["correlation"] \subseteq {Ours}
      /\ call.revision => named'["revision"] \subseteq {Ours}
      /\ stage = "subject" => call.subject
      /\ stage = "agreement" => ~call.subject
  BY <1>1 DEF LoopInv
<1> QED
  BY <1>2, <1>3, <1>4, <1>5, <1>6, <1>7, <1>8 DEF LoopInv

LEMMA SubjectKeeps ==
  ASSUME LoopInv, CompareSubject
  PROVE  LoopInv'
<1>0. stage = "subject" /\ at \in 1 .. 3 /\ call.subject /\ Ours \in Id
  BY OursAssumption DEF CompareSubject, LoopInv
<1>1. ASSUME NEW vuln \in AtMostOne, NEW cand \in AtMostOne,
             SubjectHolds(Roles[at], vuln, cand), Name(vuln, cand, "promote")
      PROVE  LoopInv'
  <2>1. vuln \in SUBSET Id /\ cand \in SUBSET Id
    BY DEF AtMostOne
  <2>2. /\ named["vulnerability"] \cup vuln = {Ours}
        /\ named["candidate"] \cup cand = {Ours}
    <3>1. CASE at = 1
      <4>1. vuln = {Ours} /\ cand = {Ours}
        BY <1>1, <3>1, RolesAre DEF SubjectHolds
      <4> QED
        BY <1>0, <3>1, <4>1 DEF LoopInv
    <3>2. CASE at # 1
      <4>1. named["vulnerability"] = {Ours} /\ named["candidate"] = {Ours}
        BY <1>0, <3>2 DEF LoopInv, Established
      <4> QED
        BY <1>1, <4>1 DEF SubjectHolds
    <3> QED
      BY <3>1, <3>2
  <2>3. Cardinality({Ours}) = 1
    BY FS_Singleton
  <2> QED
    BY <1>0, <1>1, <2>1, <2>2, <2>3, NameKeeps
<1> QED
  BY <1>1, RefuseKeeps DEF CompareSubject

LEMMA AgreementKeeps ==
  ASSUME LoopInv, CompareAgreement
  PROVE  LoopInv'
<1>0. stage = "agreement" /\ ~call.subject
  BY DEF CompareAgreement, LoopInv
<1>1. ASSUME NEW v \in SUBSET Id, NEW c \in SUBSET Id,
             Cardinality(named["vulnerability"] \cup OneValue(v)) = 1,
             Cardinality(named["candidate"] \cup OneValue(c)) = 1,
             Name(OneValue(v), OneValue(c), "promote")
      PROVE  LoopInv'
  <2>1. OneValue(v) \in SUBSET Id /\ OneValue(c) \in SUBSET Id
    BY DEF OneValue
  <2> QED
    BY <1>0, <1>1, <2>1, NameKeeps
<1> QED
  BY <1>1, RefuseKeeps DEF CompareAgreement

LEMMA PromoteKeeps ==
  ASSUME LoopInv, Promote
  PROVE  LoopInv'
<1>1. CASE /\ Goto("resolved") /\ cleared' = (call.bypass = "no-bypass-found")
           /\ UNCHANGED <<call, record, named>>
  <2>1. stage = "promote" /\ stage' = "resolved"
    BY <1>1 DEF Promote, Goto
  <2>2. call' = call /\ record' = record /\ named' = named
        /\ (cleared' <=> call.bypass = "no-bypass-found")
    BY <1>1
  <2>3. LoopTypeOK'
    BY <1>1 DEF LoopInv, LoopTypeOK
  <2>4. \A role \in Role : RecordOK(role)'
    BY <2>1, <2>2, RecordsStay DEF LoopInv
  <2>5. Established'
    BY <2>1, <2>2 DEF LoopInv, Established
  <2> QED
    BY <2>1, <2>2, <2>3, <2>4, <2>5 DEF LoopInv
<1> QED
  BY <1>1, RefuseKeeps, StopKeeps DEF Promote, Unless

LEMMA LoopWorkKeeps ==
  ASSUME LoopInv, LoopWork
  PROVE  LoopInv'
BY BeginKeeps, FetchKeeps, LineageKeeps, SubjectKeeps, AgreementKeeps, PromoteKeeps
   DEF LoopWork

(* What the invariant says of a resolved loop. *)
LEMMA LoopInvGives == LoopInv => ResolvedLineageIsOne /\ RecordsAreGenuine
<1> SUFFICES ASSUME LoopInv PROVE ResolvedLineageIsOne /\ RecordsAreGenuine
  OBVIOUS
<1>1. ResolvedLineageIsOne
  BY DEF LoopInv, Established, ResolvedLineageIsOne
<1>2. RecordsAreTheProducers /\ StrictIsPinned
  BY DEF LoopInv, RecordOK, RecordsAreTheProducers, StrictIsPinned
<1>3. ClearedMeansNoBypass
  <2> SUFFICES ASSUME stage = "resolved"
               PROVE  cleared <=> record["bypass"].state = "no-bypass-found" /\ ~call.exhausted
    BY DEF ClearedMeansNoBypass
  <2>1. call \in Call /\ RecordOK("bypass") /\ (cleared <=> call.bypass = "no-bypass-found")
    BY DEF LoopInv, LoopTypeOK, Role
  <2>2. record["bypass"].state = call.bypass
    BY <2>1 DEF RecordOK, RequiredState
  <2>3. call.exhausted <=> call.bypass = "bypass-found"
    BY <2>1 DEF Call
  <2> QED
    BY <2>1, <2>2, <2>3
<1> QED
  BY <1>1, <1>2, <1>3 DEF RecordsAreGenuine

-----------------------------------------------------------------------------
(* The join. *)

PastCampaign == {"totals", "verified"}
PastBypass == {"campaign"} \cup PastCampaign
PastCases == {"bypass"} \cup PastBypass
PastMitigation == {"cases"} \cup PastCases
PastMapping == {"mitigation"} \cup PastMitigation
PastBundle == {"mapping"} \cup PastMapping
PastCoverage == {"bundle"} \cup PastBundle
PastFetch == {"semantics", "coverage"} \cup PastCoverage
JoinStage == {"join"} \cup PastFetch

(* The obligations a loop has dealt with. *)
Dealt(loop, past) ==
  IF stage = loop THEN {Obligations[i] : i \in 1 .. (at - 1)}
  ELSE IF stage \in past THEN Obligation ELSE {}

CampaignOK(o) ==
  LET targets == TargetsOf(sem.needs[o], sem.cover[o], bv.reads)
  IN /\ targets # {} /\ bv.listed[o] = targets
     /\ profile = "waf-standard@2" =>
          {t \in targets : t[2] \notin bv.transformed} \subseteq bv.faced[o]

(* What each result was made from. *)
ChainOK ==
  /\ stage \in PastBundle => proof.bound["defense"] = {"check"}
  /\ stage \in PastMitigation => proof.bound["mitigation"] = {"check", "defense"}
  /\ stage \in PastBypass =>
       proof.bound["bypass"] = {"check", "defense", "mitigation"}

FetchedOK ==
  /\ stage = "join" => \A i \in 1 .. (at - 1) : fetched[Fetches[i]] = "pinned"
  /\ stage \in PastFetch => \A s \in Shape : fetched[s] = "pinned"

TurnOK ==
  /\ stage = "join" => at \in 1 .. 4
  /\ stage \in {"coverage", "mapping", "cases", "campaign"} =>
       at \in 1 .. Len(Obligations)

NeededOK == \A o \in Dealt("coverage", PastCoverage) : sem.needs[o] # {}
MappedOK == \A o \in Dealt("mapping", PastMapping) : o \in proof.mapped
BlockedOK == \A o \in Dealt("cases", PastCases) : sem.needs[o] \subseteq proof.blocked[o]
AttackedOK == \A o \in Dealt("campaign", PastCampaign) : CampaignOK(o)

JoinInv ==
  /\ JoinTypeOK /\ AttemptsCountOnce /\ TurnOK
  /\ FetchedOK /\ ChainOK /\ NeededOK /\ MappedOK /\ BlockedOK /\ AttackedOK

LEMMA FetchesAre ==
  /\ Len(Fetches) = 4 /\ Fetches[1] = "check" /\ Fetches[2] = "defense"
  /\ Fetches[3] = "mitigation" /\ Fetches[4] = "bypass"
BY DEF Fetches

LEMMA ObligationsAre ==
  /\ Len(Obligations) \in Nat \ {0}
  /\ \A i \in 1 .. Len(Obligations) : Obligations[i] \in Obligation
  /\ Obligation = {Obligations[i] : i \in 1 .. Len(Obligations)}
<1>1. DOMAIN Obligations = 1 .. Len(Obligations) /\ Len(Obligations) \in Nat
  BY JoinAssumption, LenProperties
<1> QED
  BY <1>1, JoinAssumption DEF Obligation

LEMMA InitialsOK ==
  /\ NoSemantics \in [inputs : SUBSET Input, needs : [Obligation -> SUBSET Input],
                      cover : [Obligation -> SUBSET Component],
                      graph : [Group -> SUBSET Node], root : Node \cup {Nowhere}]
  /\ NoProof \in [bound : [Shape -> SUBSET Shape], mapped : SUBSET Obligation,
                  blocked : [Obligation -> SUBSET Input]]
  /\ NoCampaigns \in
       [reads : [Component -> SUBSET Input], transformed : SUBSET Component,
        faced : [Obligation -> SUBSET Target], listed : [Obligation -> SUBSET Target],
        attempts : SUBSET Attempt, planned : Nat, executed : Nat, unsupported : Nat]
  /\ NoCampaigns.executed = 0 /\ NoCampaigns.attempts = {}
BY DEF NoSemantics, NoProof, NoCampaigns, ByObligation

(* An exception, and the handing over, leave nothing to be proven. *)
LEMMA LeaveKeepsJoin ==
  ASSUME JoinInv, NEW how, how \notin JoinStage, Leave(how)
  PROVE  JoinInv'
<1>1. /\ stage' \notin JoinStage /\ profile' = profile
      /\ fetched' = [s \in Shape |-> "other"]
      /\ sem' = NoSemantics /\ proof' = NoProof /\ bv' = NoCampaigns
  BY DEF Leave, Goto
<1>2. JoinTypeOK'
  BY <1>1, InitialsOK DEF JoinInv, JoinTypeOK
<1>3. AttemptsCountOnce'
  BY <1>1, InitialsOK, FS_EmptySet DEF AttemptsCountOnce
<1>4. /\ stage' \notin {"join", "coverage", "mapping", "cases", "campaign"}
      /\ stage' \notin PastFetch /\ stage' \notin PastCoverage /\ stage' \notin PastBundle
      /\ stage' \notin PastMapping /\ stage' \notin PastMitigation
      /\ stage' \notin PastCases /\ stage' \notin PastBypass /\ stage' \notin PastCampaign
  BY <1>1 DEF JoinStage, PastFetch, PastCoverage, PastBundle, PastMapping,
              PastMitigation, PastCases, PastBypass, PastCampaign
<1>5. TurnOK' /\ FetchedOK' /\ ChainOK'
  BY <1>4 DEF TurnOK, FetchedOK, ChainOK
<1>6. NeededOK' /\ MappedOK' /\ BlockedOK' /\ AttackedOK'
  BY <1>4 DEF NeededOK, MappedOK, BlockedOK, AttackedOK, Dealt
<1> QED
  BY <1>2, <1>3, <1>5, <1>6 DEF JoinInv

(* Steps of the other parts. *)
LEMMA JoinLeft ==
  ASSUME JoinInv, UNCHANGED joinData,
         \/ stage' \notin JoinStage
         \/ stage' = stage /\ at' = at
  PROVE  JoinInv'
<1>1. /\ profile' = profile /\ fetched' = fetched /\ sem' = sem /\ proof' = proof
      /\ bv' = bv
  BY DEF joinData
<1>2. JoinTypeOK' /\ AttemptsCountOnce'
  BY <1>1 DEF JoinInv, JoinTypeOK, AttemptsCountOnce
<1>3. CASE stage' = stage /\ at' = at
  BY <1>1, <1>2, <1>3
     DEF JoinInv, TurnOK, FetchedOK, ChainOK, NeededOK, MappedOK, BlockedOK,
         AttackedOK, Dealt, CampaignOK
<1>4. CASE stage' \notin JoinStage
  <2>1. /\ stage' \notin {"join", "coverage", "mapping", "cases", "campaign"}
        /\ stage' \notin PastFetch /\ stage' \notin PastCoverage
        /\ stage' \notin PastBundle /\ stage' \notin PastMapping
        /\ stage' \notin PastMitigation /\ stage' \notin PastCases
        /\ stage' \notin PastBypass /\ stage' \notin PastCampaign
    BY <1>4 DEF JoinStage, PastFetch, PastCoverage, PastBundle, PastMapping,
                PastMitigation, PastCases, PastBypass, PastCampaign
  <2>2. TurnOK' /\ FetchedOK' /\ ChainOK'
    BY <2>1 DEF TurnOK, FetchedOK, ChainOK
  <2>3. NeededOK' /\ MappedOK' /\ BlockedOK' /\ AttackedOK'
    BY <2>1 DEF NeededOK, MappedOK, BlockedOK, AttackedOK, Dealt
  <2> QED
    BY <1>2, <2>2, <2>3 DEF JoinInv
<1> QED
  BY <1>3, <1>4

(* What has been dealt with after one more turn of a loop, and when the    *)
(* control is before or past it.                                           *)
LEMMA DealtTurn ==
  ASSUME NEW loop, NEW past, NEW next, next \in past, next # loop,
         stage = loop, at \in 1 .. Len(Obligations),
         Advance(Len(Obligations), next)
  PROVE  /\ \/ stage' = loop /\ at' \in 1 .. Len(Obligations)
            \/ stage' = next /\ at' = 1
         /\ \A o \in Dealt(loop, past)' :
              o \in Obligation /\ (o = Obligations[at] \/ o \in Dealt(loop, past))
<1>1. Dealt(loop, past) = {Obligations[i] : i \in 1 .. (at - 1)}
  BY DEF Dealt
<1>2. CASE at = Len(Obligations) /\ stage' = next /\ at' = 1
  <2>1. Dealt(loop, past)' = Obligation
    BY <1>2 DEF Dealt
  <2>2. \A i \in 1 .. Len(Obligations) : i = at \/ i \in 1 .. (at - 1)
    BY <1>2
  <2> QED
    BY <1>1, <1>2, <2>1, <2>2, ObligationsAre
<1>3. CASE at # Len(Obligations) /\ stage' = stage /\ at' = at + 1
  <2>1. Dealt(loop, past)' = {Obligations[i] : i \in 1 .. (at' - 1)}
    BY <1>3 DEF Dealt
  <2>2. at' \in 1 .. Len(Obligations) /\ at' - 1 = at
    BY <1>3, ObligationsAre
  <2>3. \A i \in 1 .. at : i = at \/ i \in 1 .. (at - 1)
    OBVIOUS
  <2>4. \A i \in 1 .. at : i \in 1 .. Len(Obligations)
    BY ObligationsAre
  <2> QED
    BY <1>1, <1>3, <2>1, <2>2, <2>3, <2>4, ObligationsAre
<1> QED
  BY <1>2, <1>3, AdvanceMoves

LEMMA DealtBefore ==
  ASSUME NEW loop, NEW past, stage' \notin past, stage' = loop => at' = 1
  PROVE  Dealt(loop, past)' = {}
BY DEF Dealt

LEMMA DealtPast ==
  ASSUME NEW loop, NEW past, stage \in past, stage # loop, stage' \in past, stage' # loop
  PROVE  Dealt(loop, past)' = Dealt(loop, past)
BY DEF Dealt

(* Until the obligations are gone through, nothing is said of them. *)
LEMMA EarlyInJoin ==
  ASSUME stage' \in {"join", "semantics"}
  PROVE  ChainOK' /\ NeededOK' /\ MappedOK' /\ BlockedOK' /\ AttackedOK'
BY DEF ChainOK, NeededOK, MappedOK, BlockedOK, AttackedOK, Dealt, PastCampaign, PastBypass,
       PastCases, PastMitigation, PastMapping, PastBundle, PastCoverage

(* A refusal in any stage. *)
LEMMA RejectKeepsJoin ==
  ASSUME JoinInv, Reject \/ Leave("canceled") \/ Leave("unreachable")
  PROVE  JoinInv'
<1>1. "rejected" \notin JoinStage /\ "canceled" \notin JoinStage
      /\ "unreachable" \notin JoinStage
  BY DEF JoinStage, PastFetch, PastCoverage, PastBundle, PastMapping, PastMitigation,
         PastCases, PastBypass, PastCampaign
<1> QED
  BY <1>1, LeaveKeepsJoin DEF Reject

(* On both execution planes the content is that of the locator. *)
LEMMA DeliveredIsPinned ==
  ASSUME NEW s \in Shape, NEW r \in Delivered[s]["v2"] \cup LabDelivered
  PROVE  r.content = "pinned"
<1>1. CASE r \in LabDelivered
  BY <1>1 DEF LabDelivered
<1>2. CASE r \in Delivered[s]["v2"]
  <2>1. Delivered[s]["v2"] =
          {[capability |-> x.capability, contract |-> x.contract,
            content |-> x.content] : x \in {y \in Row : Verified(s, "v2", y)}}
    BY DEF Delivered, LocatorKind
  <2>2. PICK row \in Row : Verified(s, "v2", row) /\ r.content = row.content
    BY <1>2, <2>1
  <2> QED
    BY <2>2 DEF Verified, CheckHolds, LocatorAgrees, Strict
<1> QED
  BY <1>1, <1>2

LEMMA FetchResultKeeps ==
  ASSUME JoinInv, FetchResult
  PROVE  JoinInv'
<1>0. stage = "join" /\ at \in 1 .. 4 /\ JoinTypeOK
  BY DEF FetchResult, JoinInv, TurnOK
<1>1. PICK s \in Shape : s = Fetches[at]
  BY <1>0, FetchesAre DEF Shape
<1>2. ASSUME NEW r \in Delivered[s]["v2"] \cup LabDelivered,
             fetched' = [fetched EXCEPT ![s] = r.content],
             Advance(Len(Fetches), "semantics"),
             UNCHANGED <<profile, sem, proof, bv>>
      PROVE  JoinInv'
  <2>1. /\ fetched' \in [Shape -> {"pinned", "other"}] /\ fetched'[s] = "pinned"
        /\ \A q \in Shape \ {s} : fetched'[q] = fetched[q]
    BY <1>0, <1>2, DeliveredIsPinned DEF JoinTypeOK
  <2>2. JoinTypeOK' /\ AttemptsCountOnce'
    BY <1>0, <1>2, <2>1 DEF JoinTypeOK, AttemptsCountOnce, JoinInv
  <2>3. \A i \in 1 .. at : Fetches[i] \in Shape /\ fetched'[Fetches[i]] = "pinned"
    <3> TAKE i \in 1 .. at
    <3>1. Fetches[i] \in Shape
      BY <1>0, FetchesAre DEF Shape
    <3>2. CASE i \in 1 .. (at - 1)
      <4>1. fetched[Fetches[i]] = "pinned"
        BY <1>0, <3>2 DEF JoinInv, FetchedOK
      <4> QED
        BY <2>1, <3>1, <4>1
    <3>3. CASE i = at
      BY <1>1, <2>1, <3>1, <3>3
    <3> QED
      BY <1>0, <3>2, <3>3
  <2>4. \/ at = 4 /\ stage' = "semantics" /\ at' = 1
        \/ at # 4 /\ stage' = "join" /\ at' = at + 1
    BY <1>0, <1>2, FetchesAre, AdvanceMoves
  <2>5. CASE at = 4 /\ stage' = "semantics" /\ at' = 1
    <3>1. \A q \in Shape : fetched'[q] = "pinned"
      BY <2>3, <2>5, FetchesAre DEF Shape
    <3>2. TurnOK' /\ FetchedOK'
      BY <2>5, <3>1 DEF TurnOK, FetchedOK
    <3> QED
      BY <2>2, <2>5, <3>2, EarlyInJoin DEF JoinInv
  <2>6. CASE at # 4 /\ stage' = "join" /\ at' = at + 1
    <3>1. at' \in 1 .. 4 /\ at' - 1 = at
      BY <1>0, <2>6
    <3>2. stage' \notin PastFetch
      BY <2>6 DEF PastFetch, PastCoverage, PastBundle, PastMapping, PastMitigation,
                  PastCases, PastBypass, PastCampaign
    <3>3. TurnOK' /\ FetchedOK'
      BY <2>3, <2>6, <3>1, <3>2 DEF TurnOK, FetchedOK
    <3> QED
      BY <2>2, <2>6, <3>3, EarlyInJoin DEF JoinInv
  <2> QED
    BY <2>4, <2>5, <2>6
<1> QED
  BY <1>1, <1>2, RejectKeepsJoin DEF FetchResult, OrReject

(* The stages in full. *)
LEMMA PastIs ==
  /\ PastCampaign = {"totals", "verified"}
  /\ PastBypass = {"campaign", "totals", "verified"}
  /\ PastCases = {"bypass", "campaign", "totals", "verified"}
  /\ PastMitigation = {"cases", "bypass", "campaign", "totals", "verified"}
  /\ PastMapping = {"mitigation", "cases", "bypass", "campaign", "totals", "verified"}
  /\ PastBundle = {"mapping", "mitigation", "cases", "bypass", "campaign", "totals",
                   "verified"}
  /\ PastCoverage = {"bundle", "mapping", "mitigation", "cases", "bypass", "campaign",
                     "totals", "verified"}
  /\ PastFetch = {"semantics", "coverage", "bundle", "mapping", "mitigation", "cases",
                  "bypass", "campaign", "totals", "verified"}
BY DEF PastFetch, PastCoverage, PastBundle, PastMapping, PastMitigation, PastCases,
       PastBypass, PastCampaign

(* The records stay pinned while the stages go on. *)
LEMMA FetchedStays ==
  ASSUME FetchedOK, stage \in PastFetch, stage' \in PastFetch, fetched' = fetched
  PROVE  FetchedOK'
BY PastIs DEF FetchedOK

LEMMA SemanticsKeeps ==
  ASSUME JoinInv, ValidateSemantics
  PROVE  JoinInv'
<1>0. stage = "semantics" /\ JoinTypeOK /\ FetchedOK /\ AttemptsCountOnce
  BY DEF ValidateSemantics, JoinInv
<1>1. ASSUME NEW i \in ValidInputs, NEW g \in [Group -> SUBSET Node],
             sem' = [sem EXCEPT !.inputs = i, !.graph = g],
             Goto("coverage"), UNCHANGED <<profile, fetched, proof, bv>>
      PROVE  JoinInv'
  <2>1. i \in SUBSET Input
    BY DEF ValidInputs, Semantics
  <2>2. JoinTypeOK' /\ AttemptsCountOnce'
    BY <1>0, <1>1, <2>1 DEF JoinTypeOK, AttemptsCountOnce
  <2>3. stage' = "coverage" /\ at' = 1 /\ fetched' = fetched
    BY <1>1, GotoMoves
  <2>4. TurnOK'
    BY <2>3, ObligationsAre DEF TurnOK
  <2>5. FetchedOK'
    BY <1>0, <2>3, PastIs, FetchedStays
  <2>6. ChainOK'
    BY <2>3, PastIs DEF ChainOK
  <2>7. /\ Dealt("coverage", PastCoverage)' = {} /\ Dealt("mapping", PastMapping)' = {}
        /\ Dealt("cases", PastCases)' = {} /\ Dealt("campaign", PastCampaign)' = {}
    BY <2>3, PastIs, DealtBefore
  <2> QED
    BY <2>2, <2>4, <2>5, <2>6, <2>7 DEF JoinInv, NeededOK, MappedOK, BlockedOK, AttackedOK
<1> QED
  BY <1>1, RejectKeepsJoin DEF ValidateSemantics, OrReject

LEMMA ObligationKeeps ==
  ASSUME JoinInv, ValidateObligation
  PROVE  JoinInv'
<1>0. /\ stage = "coverage" /\ JoinTypeOK /\ FetchedOK /\ AttemptsCountOnce
      /\ at \in 1 .. Len(Obligations)
  BY DEF ValidateObligation, JoinInv, TurnOK
<1>1. PICK o \in Obligation : o = Obligations[at]
  BY <1>0, ObligationsAre
<1>2. ASSUME NEW ref \in Node, NEW required \in SUBSET sem.inputs, NEW found \in SUBSET Component,
             required # {},
             sem' = [sem EXCEPT !.needs[o] = required, !.cover[o] = found, !.root = ref],
             Advance(Len(Obligations), "bundle"),
             UNCHANGED <<profile, fetched, proof, bv>>
      PROVE  JoinInv'
  <2>1. required \in SUBSET Input
    BY <1>0 DEF JoinTypeOK
  <2>2. JoinTypeOK' /\ AttemptsCountOnce'
    BY <1>0, <1>2, <2>1 DEF JoinTypeOK, AttemptsCountOnce
  <2>3. /\ sem'.needs[o] # {}
        /\ \A q \in Obligation \ {o} : sem'.needs[q] = sem.needs[q]
    BY <1>0, <1>2 DEF JoinTypeOK
  <2>4. /\ \/ stage' = "coverage" /\ at' \in 1 .. Len(Obligations)
           \/ stage' = "bundle" /\ at' = 1
        /\ \A q \in Dealt("coverage", PastCoverage)' :
             q \in Obligation /\ (q = Obligations[at] \/ q \in Dealt("coverage", PastCoverage))
    <3>1. "bundle" \in PastCoverage /\ "bundle" # "coverage"
      BY PastIs
    <3> QED
      BY <1>0, <1>2, <3>1, DealtTurn
  <2>5. NeededOK'
    BY <1>1, <2>3, <2>4 DEF NeededOK, JoinInv
  <2>6. TurnOK' /\ ChainOK'
    BY <2>4, PastIs DEF TurnOK, ChainOK
  <2>7. FetchedOK'
    BY <1>0, <1>2, <2>4, PastIs, FetchedStays
  <2>8. /\ Dealt("mapping", PastMapping)' = {}
        /\ Dealt("cases", PastCases)' = {} /\ Dealt("campaign", PastCampaign)' = {}
    BY <2>4, PastIs, DealtBefore
  <2> QED
    BY <2>2, <2>5, <2>6, <2>7, <2>8 DEF JoinInv, MappedOK, BlockedOK, AttackedOK
<1>3. CASE ~Reject
  <2>1. PICK ref \in Node, told \in SUBSET Group, required \in SUBSET sem.inputs :
          /\ required # {}
          /\ CoverageWalk(sem.graph, told, ref) \subseteq Component
          /\ sem' = [sem EXCEPT !.needs[Obligations[at]] = required,
                                !.cover[Obligations[at]] = CoverageWalk(sem.graph, told, ref),
                                !.root = ref]
          /\ Advance(Len(Obligations), "bundle")
          /\ UNCHANGED <<profile, fetched, proof, bv>>
    BY <1>3, Zenon DEF ValidateObligation, OrReject
  <2>2. PICK found \in SUBSET Component : found = CoverageWalk(sem.graph, told, ref)
    BY <2>1
  <2> QED
    BY <1>1, <1>2, <2>1, <2>2
<1> QED
  BY <1>3, RejectKeepsJoin

LEMMA BundleKeeps ==
  ASSUME JoinInv, ValidateBundle
  PROVE  JoinInv'
<1>0. stage = "bundle" /\ JoinTypeOK /\ FetchedOK /\ AttemptsCountOnce /\ NeededOK
  BY DEF ValidateBundle, JoinInv
<1>1. ASSUME NEW binds, binds = {"check"}, Bound("defense", binds),
             sem' = [sem EXCEPT !.graph = NoSemantics.graph, !.root = Nowhere],
             Goto("mapping"), UNCHANGED <<profile, fetched, bv>>
      PROVE  JoinInv'
  <2>1. NoSemantics.graph \in [Group -> SUBSET Node]
    BY InitialsOK
  <2>2. proof' = [proof EXCEPT !.bound["defense"] = {"check"}]
    BY <1>1 DEF Bound
  <2>3. JoinTypeOK' /\ AttemptsCountOnce'
    BY <1>0, <1>1, <2>1, <2>2 DEF JoinTypeOK, AttemptsCountOnce, Shape
  <2>4. proof'.bound["defense"] = {"check"} /\ sem'.needs = sem.needs
    BY <1>0, <1>1, <2>2 DEF JoinTypeOK, Shape
  <2>5. stage' = "mapping" /\ at' = 1 /\ fetched' = fetched
    BY <1>1, GotoMoves
  <2>6. TurnOK' /\ ChainOK'
    BY <2>4, <2>5, PastIs, ObligationsAre DEF TurnOK, ChainOK
  <2>7. FetchedOK'
    BY <1>0, <2>5, PastIs, FetchedStays
  <2>8. Dealt("coverage", PastCoverage)' = Dealt("coverage", PastCoverage)
    BY <1>0, <2>5, PastIs, DealtPast
  <2>9. NeededOK'
    BY <1>0, <2>4, <2>8 DEF NeededOK
  <2>10. /\ Dealt("mapping", PastMapping)' = {}
         /\ Dealt("cases", PastCases)' = {} /\ Dealt("campaign", PastCampaign)' = {}
    BY <2>5, PastIs, DealtBefore
  <2> QED
    BY <2>3, <2>6, <2>7, <2>9, <2>10 DEF JoinInv, MappedOK, BlockedOK, AttackedOK
<1> QED
  BY <1>1, RejectKeepsJoin DEF ValidateBundle, OrReject

LEMMA MappingKeeps ==
  ASSUME JoinInv, ValidateMapping
  PROVE  JoinInv'
<1>0. /\ stage = "mapping" /\ JoinTypeOK /\ FetchedOK /\ AttemptsCountOnce /\ NeededOK
      /\ MappedOK /\ ChainOK /\ at \in 1 .. Len(Obligations)
  BY DEF ValidateMapping, JoinInv, TurnOK
<1>1. PICK o \in Obligation : o = Obligations[at]
  BY <1>0, ObligationsAre
<1>2. ASSUME proof' = [proof EXCEPT !.mapped = @ \cup {o}],
             Advance(Len(Obligations), "mitigation"),
             UNCHANGED <<profile, fetched, sem, bv>>
      PROVE  JoinInv'
  <2>1. JoinTypeOK' /\ AttemptsCountOnce'
    BY <1>0, <1>2 DEF JoinTypeOK, AttemptsCountOnce
  <2>2. proof'.mapped = proof.mapped \cup {o} /\ proof'.bound = proof.bound /\ sem' = sem
    BY <1>0, <1>2 DEF JoinTypeOK
  <2>3. /\ \/ stage' = "mapping" /\ at' \in 1 .. Len(Obligations)
           \/ stage' = "mitigation" /\ at' = 1
        /\ \A q \in Dealt("mapping", PastMapping)' :
             q \in Obligation /\ (q = Obligations[at] \/ q \in Dealt("mapping", PastMapping))
    <3>1. "mitigation" \in PastMapping /\ "mitigation" # "mapping"
      BY PastIs
    <3> QED
      BY <1>0, <1>2, <3>1, DealtTurn
  <2>4. MappedOK'
    BY <1>0, <1>1, <2>2, <2>3 DEF MappedOK
  <2>5. TurnOK' /\ ChainOK'
    BY <1>0, <2>2, <2>3, PastIs DEF TurnOK, ChainOK
  <2>6. FetchedOK'
    BY <1>0, <1>2, <2>3, PastIs, FetchedStays
  <2>7. Dealt("coverage", PastCoverage)' = Dealt("coverage", PastCoverage)
    BY <1>0, <2>3, PastIs, DealtPast
  <2>8. NeededOK'
    BY <1>0, <2>2, <2>7 DEF NeededOK
  <2>9. Dealt("cases", PastCases)' = {} /\ Dealt("campaign", PastCampaign)' = {}
    BY <2>3, PastIs, DealtBefore
  <2> QED
    BY <2>1, <2>4, <2>5, <2>6, <2>8, <2>9 DEF JoinInv, BlockedOK, AttackedOK
<1> QED
  BY <1>1, <1>2, RejectKeepsJoin DEF ValidateMapping, OrReject

LEMMA MitigationKeeps ==
  ASSUME JoinInv, ValidateMitigation
  PROVE  JoinInv'
<1>0. /\ stage = "mitigation" /\ JoinTypeOK /\ FetchedOK /\ AttemptsCountOnce /\ NeededOK
      /\ MappedOK /\ ChainOK
  BY DEF ValidateMitigation, JoinInv
<1>1. ASSUME NEW binds, ChainHolds("mitigation", binds), Bound("mitigation", binds),
             Goto("cases"), UNCHANGED <<profile, fetched, sem, bv>>
      PROVE  JoinInv'
  <2>1. proof' = [proof EXCEPT !.bound["mitigation"] = {"check", "defense"}]
    BY <1>1 DEF Bound, ChainHolds
  <2>2. JoinTypeOK' /\ AttemptsCountOnce'
    BY <1>0, <1>1, <2>1 DEF JoinTypeOK, AttemptsCountOnce, Shape
  <2>3. /\ proof'.bound["mitigation"] = {"check", "defense"}
        /\ proof'.bound["defense"] = proof.bound["defense"]
        /\ proof'.mapped = proof.mapped /\ sem' = sem
    BY <1>0, <1>1, <2>1 DEF JoinTypeOK, Shape
  <2>4. stage' = "cases" /\ at' = 1 /\ fetched' = fetched
    BY <1>1, GotoMoves
  <2>5. TurnOK' /\ ChainOK'
    BY <1>0, <2>3, <2>4, PastIs, ObligationsAre DEF TurnOK, ChainOK
  <2>6. FetchedOK'
    BY <1>0, <2>4, PastIs, FetchedStays
  <2>7. /\ Dealt("coverage", PastCoverage)' = Dealt("coverage", PastCoverage)
        /\ Dealt("mapping", PastMapping)' = Dealt("mapping", PastMapping)
    BY <1>0, <2>4, PastIs, DealtPast
  <2>8. NeededOK' /\ MappedOK'
    BY <1>0, <2>3, <2>7 DEF NeededOK, MappedOK
  <2>9. Dealt("cases", PastCases)' = {} /\ Dealt("campaign", PastCampaign)' = {}
    BY <2>4, PastIs, DealtBefore
  <2> QED
    BY <2>2, <2>5, <2>6, <2>8, <2>9 DEF JoinInv, BlockedOK, AttackedOK
<1> QED
  BY <1>1, RejectKeepsJoin DEF ValidateMitigation, OrReject

LEMMA CasesKeeps ==
  ASSUME JoinInv, ValidateCases
  PROVE  JoinInv'
<1>0. /\ stage = "cases" /\ JoinTypeOK /\ FetchedOK /\ AttemptsCountOnce /\ NeededOK
      /\ MappedOK /\ BlockedOK /\ ChainOK /\ at \in 1 .. Len(Obligations)
  BY DEF ValidateCases, JoinInv, TurnOK
<1>1. PICK o \in Obligation : o = Obligations[at]
  BY <1>0, ObligationsAre
<1>2. ASSUME NEW blocked \in SUBSET Input, sem.needs[o] \subseteq blocked,
             proof' = [proof EXCEPT !.blocked[o] = blocked],
             Advance(Len(Obligations), "bypass"),
             UNCHANGED <<profile, fetched, sem, bv>>
      PROVE  JoinInv'
  <2>1. JoinTypeOK' /\ AttemptsCountOnce'
    BY <1>0, <1>2 DEF JoinTypeOK, AttemptsCountOnce
  <2>2. /\ proof'.blocked[o] = blocked
        /\ \A q \in Obligation \ {o} : proof'.blocked[q] = proof.blocked[q]
        /\ proof'.mapped = proof.mapped /\ proof'.bound = proof.bound /\ sem' = sem
    BY <1>0, <1>2 DEF JoinTypeOK
  <2>3. /\ \/ stage' = "cases" /\ at' \in 1 .. Len(Obligations)
           \/ stage' = "bypass" /\ at' = 1
        /\ \A q \in Dealt("cases", PastCases)' :
             q \in Obligation /\ (q = Obligations[at] \/ q \in Dealt("cases", PastCases))
    <3>1. "bypass" \in PastCases /\ "bypass" # "cases"
      BY PastIs
    <3> QED
      BY <1>0, <1>2, <3>1, DealtTurn
  <2>4. BlockedOK'
    BY <1>0, <1>1, <1>2, <2>2, <2>3 DEF BlockedOK
  <2>5. TurnOK' /\ ChainOK'
    BY <1>0, <2>2, <2>3, PastIs DEF TurnOK, ChainOK
  <2>6. FetchedOK'
    BY <1>0, <1>2, <2>3, PastIs, FetchedStays
  <2>7. /\ Dealt("coverage", PastCoverage)' = Dealt("coverage", PastCoverage)
        /\ Dealt("mapping", PastMapping)' = Dealt("mapping", PastMapping)
    BY <1>0, <2>3, PastIs, DealtPast
  <2>8. NeededOK' /\ MappedOK'
    BY <1>0, <2>2, <2>7 DEF NeededOK, MappedOK
  <2>9. Dealt("campaign", PastCampaign)' = {}
    BY <2>3, PastIs, DealtBefore
  <2> QED
    BY <2>1, <2>4, <2>5, <2>6, <2>8, <2>9 DEF JoinInv, AttackedOK
<1>3. CASE ~Reject
  <2>1. PICK case \in [Input -> Case] :
          /\ CasesHold(o, case)
          /\ proof' = [proof EXCEPT !.blocked[o] = {i \in Input : case[i] = "blocked"}]
          /\ Advance(Len(Obligations), "bypass")
          /\ UNCHANGED <<profile, fetched, sem, bv>>
    BY <1>1, <1>3, Zenon DEF ValidateCases, OrReject
  <2>2. sem.needs[o] \subseteq {i \in Input : case[i] = "blocked"}
    BY <1>0, <2>1 DEF CasesHold, JoinTypeOK
  <2> QED
    BY <1>2, <2>1, <2>2
<1> QED
  BY <1>3, RejectKeepsJoin

LEMMA BypassKeeps ==
  ASSUME JoinInv, ValidateBypass
  PROVE  JoinInv'
<1>0. /\ stage = "bypass" /\ JoinTypeOK /\ FetchedOK /\ AttemptsCountOnce /\ NeededOK
      /\ MappedOK /\ BlockedOK /\ ChainOK
  BY DEF ValidateBypass, JoinInv
<1>1. ASSUME NEW binds, ChainHolds("bypass", binds), Bound("bypass", binds),
             NEW occurs \in [Component -> SUBSET sem.inputs],
             NEW hard \in SUBSET Component,
             bv' = [bv EXCEPT !.reads = occurs, !.transformed = hard],
             Goto("campaign"), UNCHANGED <<profile, fetched, sem>>
      PROVE  JoinInv'
  <2>1. proof' = [proof EXCEPT !.bound["bypass"] = {"check", "defense", "mitigation"}]
    BY <1>1 DEF Bound, ChainHolds
  <2>2. occurs \in [Component -> SUBSET Input]
    BY <1>0 DEF JoinTypeOK
  <2>3. /\ bv' \in
             [reads : [Component -> SUBSET Input], transformed : SUBSET Component,
              faced : [Obligation -> SUBSET Target], listed : [Obligation -> SUBSET Target],
              attempts : SUBSET Attempt, planned : Nat, executed : Nat, unsupported : Nat]
        /\ bv'.executed = bv.executed /\ bv'.attempts = bv.attempts
    BY <1>0, <1>1, <2>2 DEF JoinTypeOK
  <2>4. JoinTypeOK' /\ AttemptsCountOnce'
    BY <1>0, <1>1, <2>1, <2>3 DEF JoinTypeOK, AttemptsCountOnce, Shape
  <2>5. /\ proof'.bound["bypass"] = {"check", "defense", "mitigation"}
        /\ proof'.bound["mitigation"] = proof.bound["mitigation"]
        /\ proof'.bound["defense"] = proof.bound["defense"]
        /\ proof'.mapped = proof.mapped /\ proof'.blocked = proof.blocked /\ sem' = sem
    BY <1>0, <1>1, <2>1 DEF JoinTypeOK, Shape
  <2>6. stage' = "campaign" /\ at' = 1 /\ fetched' = fetched
    BY <1>1, GotoMoves
  <2>7. TurnOK' /\ ChainOK'
    BY <1>0, <2>5, <2>6, PastIs, ObligationsAre DEF TurnOK, ChainOK
  <2>8. FetchedOK'
    BY <1>0, <2>6, PastIs, FetchedStays
  <2>9. /\ Dealt("coverage", PastCoverage)' = Dealt("coverage", PastCoverage)
        /\ Dealt("mapping", PastMapping)' = Dealt("mapping", PastMapping)
        /\ Dealt("cases", PastCases)' = Dealt("cases", PastCases)
    BY <1>0, <2>6, PastIs, DealtPast
  <2>10. NeededOK' /\ MappedOK' /\ BlockedOK'
    BY <1>0, <2>5, <2>9 DEF NeededOK, MappedOK, BlockedOK
  <2>11. Dealt("campaign", PastCampaign)' = {}
    BY <2>6, PastIs, DealtBefore
  <2> QED
    BY <2>4, <2>7, <2>8, <2>10, <2>11 DEF JoinInv, AttackedOK
<1> QED
  BY <1>1, RejectKeepsJoin DEF ValidateBypass, OrReject

(* What is kept of a campaign that holds. *)
LEMMA OutcomeOK ==
  ASSUME NEW p \in {"waf-bypass@2", "waf-bypass@3"}, NEW targets \in SUBSET Target,
         NEW hard \in SUBSET Component, NEW r \in Outcomes[p][targets][hard]
  PROVE  /\ targets # {} /\ r.faced \in SUBSET targets
         /\ r.executed \in Nat /\ r.unsupported \in Nat
         /\ p = "waf-bypass@3" => {t \in targets : t[2] \notin hard} \subseteq r.faced
<1>1. Outcomes[p][targets][hard] =
        {Outcome(d) : d \in {e \in Campaign(targets) : DimensionsHold(p, hard, e)}}
  BY DEF Outcomes
<1>2. PICK d \in Campaign(targets) : DimensionsHold(p, hard, d) /\ r = Outcome(d)
  BY <1>1
<1>3. /\ d.of \in [targets -> Disposition] /\ DOMAIN d.of = targets
  BY DEF Campaign
<1> DEFINE those(S) == {t \in targets : d.of[t] \in S}
           extra(S) == IF d.challenge \in S THEN 1 ELSE 0
<1>4. /\ r.faced = those(Held)
      /\ r.executed = Cardinality(those(Held)) + extra(Held)
      /\ r.unsupported = Cardinality(those({"unsupported"})) + extra({"unsupported"})
  BY <1>2, <1>3 DEF Outcome
<1>5. \A S : Cardinality(those(S)) \in Nat
  <2> TAKE S
  <2>1. IsFiniteSet(Target)
    BY JoinAssumption, FS_Product DEF Target
  <2>2. those(S) \in SUBSET Target
    OBVIOUS
  <2> HIDE DEF those
  <2> QED
    BY <2>1, <2>2, FS_Subset, FS_CardinalityType
<1>6. r.executed \in Nat /\ r.unsupported \in Nat
  <2>1. extra(Held) \in Nat /\ extra({"unsupported"}) \in Nat
    OBVIOUS
  <2> HIDE DEF those, extra
  <2> QED
    BY <1>4, <1>5, <2>1
<1>7. targets # {}
  BY <1>2, <1>3 DEF DimensionsHold
<1>8. ASSUME p = "waf-bypass@3", NEW t \in targets, t[2] \notin hard
      PROVE  t \in r.faced
  <2>1. d.of[t] \notin {"omitted", "bypassed", "unsupported"}
    BY <1>2, <1>3, <1>8 DEF DimensionsHold
  <2>2. d.of[t] \in Held
    BY <1>3, <2>1 DEF Disposition, Held
  <2> QED
    BY <1>4, <2>2
<1> QED
  BY <1>4, <1>6, <1>7, <1>8

(* The attempts of a campaign are counted once. *)
LEMMA AttemptsAdd ==
  ASSUME NEW used \in SUBSET Attempt, NEW ids \in SUBSET Attempt, NEW n,
         DistinctAttempts(ids, n, used)
  PROVE  Cardinality(used \cup ids) = Cardinality(used) + n
<1>1. IsFiniteSet(used) /\ IsFiniteSet(ids)
  BY JoinAssumption, FS_Subset
<1>2. used \cap ids = {} /\ Cardinality(ids) = n
  BY DEF DistinctAttempts
<1>3. Cardinality(used) \in Nat /\ Cardinality(ids) \in Nat
  BY <1>1, FS_CardinalityType
<1>4. Cardinality(used \cup ids) =
        Cardinality(used) + Cardinality(ids) - Cardinality(used \cap ids)
  BY <1>1, FS_Union
<1>5. Cardinality(used \cap ids) = 0
  BY <1>2, FS_EmptySet, ZenonT(40)
<1> QED
  BY <1>2, <1>3, <1>4, <1>5

LEMMA CampaignKeeps ==
  ASSUME JoinInv, ValidateCampaign
  PROVE  JoinInv'
<1>0. /\ stage = "campaign" /\ JoinTypeOK /\ FetchedOK /\ AttemptsCountOnce /\ NeededOK
      /\ MappedOK /\ BlockedOK /\ AttackedOK /\ ChainOK /\ at \in 1 .. Len(Obligations)
  BY DEF ValidateCampaign, JoinInv, TurnOK
<1>1. PICK o \in Obligation : o = Obligations[at]
  BY <1>0, ObligationsAre
<1>2. PICK p \in {"waf-bypass@2", "waf-bypass@3"} :
        p = BypassProfile[profile] /\ (profile = "waf-standard@2" => p = "waf-bypass@3")
  BY <1>0 DEF JoinTypeOK, BypassProfile, Profile
<1>3. PICK targets \in SUBSET Target :
        targets = TargetsOf(sem.needs[o], sem.cover[o], bv.reads)
  <2>1. sem.needs[o] \in SUBSET Input /\ sem.cover[o] \in SUBSET Component
    BY <1>0 DEF JoinTypeOK
  <2> QED
    BY <2>1 DEF TargetsOf, Target
<1>4. ASSUME NEW r \in Outcomes[p][targets][bv.transformed], NEW ids \in SUBSET Attempt,
             DistinctAttempts(ids, r.executed, bv.attempts),
             bv' = [bv EXCEPT !.faced[o] = r.faced, !.listed[o] = targets,
                              !.attempts = @ \cup ids,
                              !.planned = @ + r.executed + r.unsupported,
                              !.executed = @ + r.executed,
                              !.unsupported = @ + r.unsupported],
             Advance(Len(Obligations), "totals"),
             UNCHANGED <<profile, fetched, sem, proof>>
      PROVE  JoinInv'
  <2>1. bv.transformed \in SUBSET Component /\ bv.attempts \in SUBSET Attempt
    BY <1>0 DEF JoinTypeOK
  <2>2. /\ targets # {} /\ r.faced \in SUBSET targets
        /\ r.executed \in Nat /\ r.unsupported \in Nat
        /\ p = "waf-bypass@3" =>
             {t \in targets : t[2] \notin bv.transformed} \subseteq r.faced
    BY <2>1, OutcomeOK
  <2>3. PICK faced \in SUBSET Target, executed \in Nat, unsupported \in Nat :
          faced = r.faced /\ executed = r.executed /\ unsupported = r.unsupported
    BY <2>2
  <2>4. bv' = [bv EXCEPT !.faced[o] = faced, !.listed[o] = targets,
                         !.attempts = @ \cup ids,
                         !.planned = @ + executed + unsupported,
                         !.executed = @ + executed,
                         !.unsupported = @ + unsupported]
    BY <1>4, <2>3
  <2>5. /\ bv' \in
             [reads : [Component -> SUBSET Input], transformed : SUBSET Component,
              faced : [Obligation -> SUBSET Target], listed : [Obligation -> SUBSET Target],
              attempts : SUBSET Attempt, planned : Nat, executed : Nat, unsupported : Nat]
        /\ bv'.executed = bv.executed + executed
        /\ bv'.attempts = bv.attempts \cup ids
        /\ bv'.reads = bv.reads /\ bv'.transformed = bv.transformed
        /\ bv'.faced[o] = faced /\ bv'.listed[o] = targets
        /\ \A q \in Obligation \ {o} : /\ bv'.faced[q] = bv.faced[q]
                                       /\ bv'.listed[q] = bv.listed[q]
    <3>1. /\ bv = [reads |-> bv.reads, transformed |-> bv.transformed,
                   faced |-> bv.faced, listed |-> bv.listed, attempts |-> bv.attempts,
                   planned |-> bv.planned, executed |-> bv.executed,
                   unsupported |-> bv.unsupported]
          /\ bv.reads \in [Component -> SUBSET Input] /\ bv.transformed \in SUBSET Component
          /\ bv.faced \in [Obligation -> SUBSET Target]
          /\ bv.listed \in [Obligation -> SUBSET Target] /\ bv.attempts \in SUBSET Attempt
          /\ bv.planned \in Nat /\ bv.executed \in Nat /\ bv.unsupported \in Nat
      BY <1>0 DEF JoinTypeOK
    <3>2. bv' = [reads |-> bv.reads, transformed |-> bv.transformed,
                 faced |-> [bv.faced EXCEPT ![o] = faced],
                 listed |-> [bv.listed EXCEPT ![o] = targets],
                 attempts |-> bv.attempts \cup ids,
                 planned |-> bv.planned + executed + unsupported,
                 executed |-> bv.executed + executed,
                 unsupported |-> bv.unsupported + unsupported]
      BY <2>4, <3>1
    <3> QED
      BY <3>1, <3>2
  <2>6. JoinTypeOK'
    BY <1>0, <1>4, <2>5, SMTT(20) DEF JoinTypeOK
  <2>7. AttemptsCountOnce'
    BY <1>0, <1>4, <2>1, <2>3, <2>5, AttemptsAdd DEF AttemptsCountOnce
  <2>8. CampaignOK(o)'
    BY <1>2, <1>3, <1>4, <2>2, <2>3, <2>5 DEF CampaignOK
  <2>9. \A q \in Obligation \ {o} : CampaignOK(q) => CampaignOK(q)'
    BY <1>4, <2>5 DEF CampaignOK
  <2>10. /\ \/ stage' = "campaign" /\ at' \in 1 .. Len(Obligations)
            \/ stage' = "totals" /\ at' = 1
         /\ \A q \in Dealt("campaign", PastCampaign)' :
              q \in Obligation /\ (q = Obligations[at] \/ q \in Dealt("campaign", PastCampaign))
    <3>1. "totals" \in PastCampaign /\ "totals" # "campaign"
      BY PastIs
    <3> QED
      BY <1>0, <1>4, <3>1, DealtTurn
  <2>11. AttackedOK'
    BY <1>0, <1>1, <2>8, <2>9, <2>10 DEF AttackedOK
  <2>12. TurnOK' /\ ChainOK'
    BY <1>0, <1>4, <2>10, PastIs DEF TurnOK, ChainOK
  <2>13. FetchedOK'
    BY <1>0, <1>4, <2>10, PastIs, FetchedStays
  <2>14. /\ Dealt("coverage", PastCoverage)' = Dealt("coverage", PastCoverage)
         /\ Dealt("mapping", PastMapping)' = Dealt("mapping", PastMapping)
         /\ Dealt("cases", PastCases)' = Dealt("cases", PastCases)
    BY <1>0, <2>10, PastIs, DealtPast
  <2>15. NeededOK' /\ MappedOK' /\ BlockedOK'
    BY <1>0, <1>4, <2>14 DEF NeededOK, MappedOK, BlockedOK
  <2> QED
    BY <2>6, <2>7, <2>11, <2>12, <2>13, <2>15 DEF JoinInv
<1>5. CASE ~Reject
  <2>1. PICK r \in Outcomes[p][targets][bv.transformed], ids \in SUBSET Attempt :
          /\ DistinctAttempts(ids, r.executed, bv.attempts)
          /\ bv' = [bv EXCEPT !.faced[o] = r.faced, !.listed[o] = targets,
                              !.attempts = @ \cup ids,
                              !.planned = @ + r.executed + r.unsupported,
                              !.executed = @ + r.executed,
                              !.unsupported = @ + r.unsupported]
          /\ Advance(Len(Obligations), "totals")
          /\ UNCHANGED <<profile, fetched, sem, proof>>
    BY <1>1, <1>2, <1>3, <1>5, Zenon DEF ValidateCampaign, OrReject
  <2> QED
    BY <1>4, <2>1
<1> QED
  BY <1>5, RejectKeepsJoin, SMTT(20)

LEMMA TotalsKeeps ==
  ASSUME JoinInv, ValidateTotals
  PROVE  JoinInv'
<1>1. ASSUME Goto("verified"), UNCHANGED joinData
      PROVE  JoinInv'
  <2>1. /\ stage = "totals" /\ stage' = "verified"
        /\ profile' = profile /\ fetched' = fetched /\ sem' = sem /\ proof' = proof
        /\ bv' = bv
    BY <1>1, GotoMoves DEF ValidateTotals, joinData
  <2>2. JoinTypeOK' /\ AttemptsCountOnce'
    BY <2>1 DEF JoinInv, JoinTypeOK, AttemptsCountOnce
  <2>3. TurnOK' /\ FetchedOK' /\ ChainOK'
    BY <2>1, PastIs DEF JoinInv, TurnOK, FetchedOK, ChainOK
  <2>4. /\ Dealt("coverage", PastCoverage)' = Dealt("coverage", PastCoverage)
        /\ Dealt("mapping", PastMapping)' = Dealt("mapping", PastMapping)
        /\ Dealt("cases", PastCases)' = Dealt("cases", PastCases)
        /\ Dealt("campaign", PastCampaign)' = Dealt("campaign", PastCampaign)
    BY <2>1, PastIs, DealtPast
  <2>5. NeededOK' /\ MappedOK' /\ BlockedOK' /\ AttackedOK'
    BY <2>1, <2>4 DEF JoinInv, NeededOK, MappedOK, BlockedOK, AttackedOK, CampaignOK
  <2> QED
    BY <2>2, <2>3, <2>5 DEF JoinInv
<1> QED
  BY <1>1, RejectKeepsJoin DEF ValidateTotals, OrReject

LEMMA HandOverKeeps ==
  ASSUME JoinInv, HandOver
  PROVE  JoinInv'
<1>1. "plan" \notin JoinStage /\ "canceled" \notin JoinStage
  BY PastIs DEF JoinStage
<1> QED
  BY <1>1, LeaveKeepsJoin DEF HandOver

LEMMA JoinWorkKeeps ==
  ASSUME JoinInv, JoinWork
  PROVE  JoinInv'
BY FetchResultKeeps, SemanticsKeeps, ObligationKeeps, BundleKeeps, MappingKeeps,
   MitigationKeeps, CasesKeeps, BypassKeeps, CampaignKeeps, TotalsKeeps, HandOverKeeps
   DEF JoinWork

(* What the invariant says of a verified join. *)
LEMMA JoinInvGives == JoinInv => VerifiedIsProven /\ VerifiedIsOneChain
<1> SUFFICES ASSUME JoinInv PROVE VerifiedIsProven /\ VerifiedIsOneChain
  OBVIOUS
<1>1. stage = "verified" =>
        /\ Dealt("coverage", PastCoverage) = Obligation
        /\ Dealt("mapping", PastMapping) = Obligation
        /\ Dealt("cases", PastCases) = Obligation
        /\ Dealt("campaign", PastCampaign) = Obligation
  BY PastIs DEF Dealt
<1>2. VerifiedIsProven
  BY <1>1 DEF JoinInv, NeededOK, MappedOK, BlockedOK, AttackedOK, CampaignOK,
              VerifiedIsProven
<1>3. VerifiedIsOneChain
  <2> SUFFICES ASSUME stage = "verified"
               PROVE  /\ \A s \in Shape : fetched[s] = "pinned"
                      /\ \A i \in 2 .. Len(Fetches) :
                           proof.bound[Fetches[i]] = {Fetches[j] : j \in 1 .. (i - 1)}
    BY DEF VerifiedIsOneChain
  <2>1. \A s \in Shape : fetched[s] = "pinned"
    BY PastIs DEF JoinInv, FetchedOK
  <2>2. /\ proof.bound["defense"] = {"check"}
        /\ proof.bound["mitigation"] = {"check", "defense"}
        /\ proof.bound["bypass"] = {"check", "defense", "mitigation"}
    BY PastIs DEF JoinInv, ChainOK
  <2>3. /\ {Fetches[j] : j \in 1 .. 1} = {"check"}
        /\ {Fetches[j] : j \in 1 .. 2} = {"check", "defense"}
        /\ {Fetches[j] : j \in 1 .. 3} = {"check", "defense", "mitigation"}
    <3>1. 1 .. 1 = {1} /\ 1 .. 2 = {1, 2} /\ 1 .. 3 = {1, 2, 3}
      OBVIOUS
    <3> QED
      BY <3>1, FetchesAre
  <2>4. 2 .. Len(Fetches) = {2, 3, 4} /\ 2 - 1 = 1 /\ 3 - 1 = 2 /\ 4 - 1 = 3
    BY FetchesAre
  <2> QED
    BY <2>1, <2>2, <2>3, <2>4, FetchesAre
<1> QED
  BY <1>2, <1>3

-----------------------------------------------------------------------------
(* The plan. *)

(* A rule is the independent one of its alternative, or one of the         *)
(* variants on a route the alternative holds on, all of which are there.   *)
RuleOK(r) ==
  /\ r.of \in plan.asked
  /\ \/ r = IndependentRule(r.of)
     \/ /\ r.route \in Route /\ AlternativeHolds(r.of, r.route)
        /\ r \in Variants(r.of, r.route) /\ Variants(r.of, r.route) \subseteq plan.rules

AskedOK(of) ==
  /\ \E r \in plan.rules : r.of = of
  /\ of \subseteq {k[1] : k \in plan.ruled}

PlanInv ==
  /\ PlanTypeOK
  /\ stage = "document" => at \in 1 .. Documents
  /\ \A r \in plan.rules : RuleOK(r)
  /\ \A of \in plan.asked : AskedOK(of)
  /\ stage = "planned" => plan.rules # {} /\ plan.bound = plan.ruled

(* Alternatives depend on what was read of the semantics only. *)
LEMMA ReadsStay ==
  ASSUME plan'.inputs = plan.inputs, plan'.reads = plan.reads, NEW of, NEW route
  PROVE  /\ Variants(of, route)' = Variants(of, route)
         /\ AlternativeHolds(of, route)' <=> AlternativeHolds(of, route)
BY DEF Variants, AlternativeHolds, PathPayloads, ExpectedRefs

(* Steps of the other parts. *)
LEMMA PlanLeft ==
  ASSUME PlanInv, plan' = plan,
         \/ stage' \notin {"document", "planned"}
         \/ stage' = stage /\ at' = at
  PROVE  PlanInv'
<1>1. \A r : RuleOK(r) => RuleOK(r)'
  BY ReadsStay DEF RuleOK, IndependentRule
<1>2. \A of : AskedOK(of) => AskedOK(of)'
  BY DEF AskedOK
<1> QED
  BY <1>1, <1>2 DEF PlanInv, PlanTypeOK

(* A plan of which nothing is translated yet. *)
LEMMA FreshPlan ==
  ASSUME NEW inputs \in [Input -> InputFact], NEW reads \in [Component -> SUBSET Input],
         plan' = [inputs |-> inputs, reads |-> reads, asked |-> {}, rules |-> {},
                  ruled |-> {}, bound |-> {}],
         stage' # "planned", stage' = "document" => at' = 1
  PROVE  PlanInv'
<1>1. PlanTypeOK' /\ plan'.rules = {} /\ plan'.asked = {}
  BY DEF PlanTypeOK
<1>2. 1 \in 1 .. Documents
  BY PlanAssumption
<1> QED
  BY <1>1, <1>2 DEF PlanInv

LEMMA NoInputsOK ==
  /\ NoPlan.inputs \in [Input -> InputFact] /\ NoPlan.reads \in [Component -> SUBSET Input]
  /\ NoPlan = [inputs |-> NoPlan.inputs, reads |-> NoPlan.reads, asked |-> {},
               rules |-> {}, ruled |-> {}, bound |-> {}]
<1>1. [route |-> "unrouted", payload |-> NoPayload] \in InputFact
  BY DEF InputFact, Route, Payload, NoPayload
<1> QED
  BY <1>1 DEF NoPlan

LEMMA NothingKeeps ==
  ASSUME NothingEmitted("inexpressible") \/ NothingEmitted("rejected")
  PROVE  PlanInv'
<1>1. stage' \in {"inexpressible", "rejected"} /\ plan' = NoPlan
  BY DEF NothingEmitted, Goto
<1> QED
  BY <1>1, NoInputsOK, FreshPlan

LEMMA BeginPlanKeeps ==
  ASSUME PlanInv, BeginPlan
  PROVE  PlanInv'
<1>1. ASSUME NEW inputs \in [Input -> InputFact], NEW reads \in [Component -> SUBSET Input],
             plan' = [NoPlan EXCEPT !.inputs = inputs, !.reads = reads], Goto("document")
      PROVE  PlanInv'
  <2>1. plan' = [inputs |-> inputs, reads |-> reads, asked |-> {}, rules |-> {},
                 ruled |-> {}, bound |-> {}]
    BY <1>1 DEF NoPlan
  <2>2. stage' = "document" /\ at' = 1
    BY <1>1, GotoMoves
  <2> QED
    BY <2>1, <2>2, FreshPlan
<1> QED
  BY <1>1, NothingKeeps DEF BeginPlan, OrNothing

(* The variants of an alternative on a route. *)
LEMMA VariantsAre ==
  ASSUME PlanTypeOK, NEW of \in SUBSET Component, NEW route \in Route
  PROVE  /\ Variants(of, route) \in SUBSET Rule /\ Variants(of, route) # {}
         /\ \A r \in Variants(of, route) : /\ r.of = of /\ r.route = route
                                           /\ r.needs = of \ PathComponents(of)
<1>1. PathPayloads(of, route) \in SUBSET Payload
  <2>1. \A c \in Component : plan.reads[c] \in SUBSET Input
    BY DEF PlanTypeOK
  <2>2. \A i \in Input : plan.inputs[i].payload \in Payload
    BY DEF PlanTypeOK, InputFact
  <2> QED
    BY <2>1, <2>2 DEF PathPayloads, ExpectedRefs, PathComponents
<1>2. PICK paths \in SUBSET Payload :
        /\ paths = IF PathPayloads(of, route) = {} THEN {NoPayload}
                   ELSE PathPayloads(of, route)
        /\ paths # {}
  BY <1>1 DEF Payload
<1> DEFINE V(p) == [of |-> of, needs |-> of \ PathComponents(of), route |-> route,
                    path |-> p]
<1>3. Variants(of, route) = {V(p) : p \in paths}
  BY <1>2 DEF Variants
<1>4. \A p \in paths : /\ V(p) \in Rule /\ V(p).of = of /\ V(p).route = route
                      /\ V(p).needs = of \ PathComponents(of)
  BY DEF Rule
<1> HIDE DEF V
<1> QED
  BY <1>2, <1>3, <1>4

(* What a document of rules adds to the plan. *)
AddsOK(coverage, rules, emitted) ==
  /\ coverage \subseteq SUBSET Component
  /\ emitted \subseteq Rule
  /\ \A of \in coverage : of \subseteq {k[1] : k \in rules} /\ \E r \in emitted : r.of = of
  /\ \A r \in emitted :
       /\ r.of \in coverage
       /\ \/ r = IndependentRule(r.of)
          \/ /\ r.route \in Route /\ AlternativeHolds(r.of, r.route)
             /\ r \in Variants(r.of, r.route) /\ Variants(r.of, r.route) \subseteq emitted

LEMMA IndependentAdds ==
  ASSUME NEW coverage \in SUBSET (SUBSET Component), NEW rules,
         UNION coverage \subseteq {k[1] : k \in rules}
  PROVE  AddsOK(coverage, rules, {IndependentRule(of) : of \in coverage})
<1>1. \A of \in coverage : IndependentRule(of) \in Rule /\ IndependentRule(of).of = of
  BY DEF IndependentRule, Rule
<1>2. \A r \in {IndependentRule(of) : of \in coverage} :
        r.of \in coverage /\ r = IndependentRule(r.of)
  BY <1>1
<1>3. \A of \in coverage : of \subseteq {k[1] : k \in rules}
  OBVIOUS
<1>4. \A of \in coverage : \E r \in {IndependentRule(x) : x \in coverage} : r.of = of
  BY <1>1
<1> QED
  BY <1>1, <1>2, <1>3, <1>4 DEF AddsOK

LEMMA VariantsAdd ==
  ASSUME PlanTypeOK, NEW coverage \in SUBSET (SUBSET Component), NEW rules,
         UNION coverage \subseteq {k[1] : k \in rules},
         NEW placed \in SUBSET (coverage \X Route), PlacesEverything(coverage, placed),
         \A b \in placed : AlternativeHolds(b[1], b[2])
  PROVE  AddsOK(coverage, rules, UNION {Variants(b[1], b[2]) : b \in placed})
<1> DEFINE emitted == UNION {Variants(b[1], b[2]) : b \in placed}
<1>1. \A b \in placed : /\ b[1] \in coverage /\ b[1] \in SUBSET Component /\ b[2] \in Route
                        /\ Variants(b[1], b[2]) \in SUBSET emitted
  OBVIOUS
<1>2. ASSUME NEW r \in emitted
      PROVE  /\ r.of \in coverage /\ r \in Rule
             /\ r.route \in Route /\ AlternativeHolds(r.of, r.route)
             /\ r \in Variants(r.of, r.route) /\ Variants(r.of, r.route) \subseteq emitted
  <2>1. PICK b \in placed : r \in Variants(b[1], b[2])
    BY <1>2
  <2> HIDE DEF emitted
  <2>2. r.of = b[1] /\ r.route = b[2] /\ r \in Rule
    <3>1. PICK of \in SUBSET Component, route \in Route : of = b[1] /\ route = b[2]
      BY <1>1, <2>1
    <3>2. r \in Variants(of, route)
      BY <2>1, <3>1
    <3>3. r.of = of /\ r.route = route /\ r \in Rule
      BY <3>2, VariantsAre, ZenonT(40)
    <3> QED
      BY <3>1, <3>3
  <2>3. AlternativeHolds(r.of, r.route)
    BY <2>2
  <2> QED
    BY <1>1, <2>1, <2>2, <2>3
<1>3. ASSUME NEW of \in coverage
      PROVE  of \subseteq {k[1] : k \in rules} /\ \E r \in emitted : r.of = of
  <2>1. PICK b \in placed : b[1] = of
    BY DEF PlacesEverything
  <2> HIDE DEF emitted
  <2>2. PICK r \in Variants(b[1], b[2]) : r.of = of
    <3>1. PICK route \in Route : route = b[2]
      BY <1>1, <2>1
    <3>2. \E r \in Variants(of, route) : r.of = of
      BY VariantsAre
    <3> QED
      BY <2>1, <3>1, <3>2
  <2> QED
    BY <1>1, <2>1, <2>2
<1> QED
  BY <1>2, <1>3 DEF AddsOK

(* The turns of the loop over the documents. *)
LEMMA DocumentMoves ==
  ASSUME PlanInv, stage = "document", Advance(Documents, "emit")
  PROVE  /\ stage' \in {"document", "emit"}
         /\ stage' = "document" => at' \in 1 .. Documents
<1>1. at \in 1 .. Documents /\ Documents \in Nat
  BY PlanAssumption DEF PlanInv
<1> QED
  BY <1>1, AdvanceMoves

LEMMA DocumentAdds ==
  ASSUME PlanInv, stage = "document", Advance(Documents, "emit"),
         NEW coverage, NEW rules \in SUBSET Carrier, NEW emitted,
         AddsOK(coverage, rules, emitted),
         plan' = [plan EXCEPT !.asked = @ \cup coverage, !.rules = @ \cup emitted,
                              !.ruled = @ \cup rules]
  PROVE  PlanInv'
<1>1. /\ coverage \in SUBSET (SUBSET Component) /\ emitted \in SUBSET Rule /\ PlanTypeOK
  BY DEF AddsOK, PlanInv
<1>2. /\ plan'.inputs = plan.inputs /\ plan'.reads = plan.reads /\ plan'.bound = plan.bound
      /\ plan'.asked = plan.asked \cup coverage /\ plan'.rules = plan.rules \cup emitted
      /\ plan'.ruled = plan.ruled \cup rules
  BY <1>1 DEF PlanTypeOK
<1>3. PlanTypeOK'
  BY <1>1 DEF PlanTypeOK
<1>4. ASSUME NEW r \in plan'.rules
      PROVE  RuleOK(r)'
  <2>1. CASE r \in plan.rules
    <3>1. RuleOK(r)
      BY <2>1 DEF PlanInv
    <3> QED
      BY <1>2, <3>1, ReadsStay DEF RuleOK, IndependentRule
  <2>2. CASE r \in emitted
    <3>1. /\ r.of \in coverage
          /\ \/ r = IndependentRule(r.of)
             \/ /\ r.route \in Route /\ AlternativeHolds(r.of, r.route)
                /\ r \in Variants(r.of, r.route) /\ Variants(r.of, r.route) \subseteq emitted
      BY <2>2 DEF AddsOK
    <3> QED
      BY <1>2, <3>1, ReadsStay DEF RuleOK, IndependentRule
  <2> QED
    BY <1>2, <2>1, <2>2
<1>5. ASSUME NEW of \in plan'.asked
      PROVE  AskedOK(of)'
  <2>1. CASE of \in plan.asked
    <3>1. AskedOK(of)
      BY <2>1 DEF PlanInv
    <3> QED
      BY <1>2, <3>1 DEF AskedOK
  <2>2. CASE of \in coverage
    <3>1. of \subseteq {k[1] : k \in rules} /\ \E r \in emitted : r.of = of
      BY <2>2 DEF AddsOK
    <3> QED
      BY <1>2, <3>1 DEF AskedOK
  <2> QED
    BY <1>2, <2>1, <2>2
<1>6. stage' \in {"document", "emit"} /\ (stage' = "document" => at' \in 1 .. Documents)
  BY DocumentMoves
<1> QED
  BY <1>3, <1>4, <1>5, <1>6 DEF PlanInv

LEMMA BindingsAdd ==
  ASSUME PlanInv, stage = "document", Advance(Documents, "emit"), TranslateBindings
  PROVE  PlanInv'
<1>1. PICK bindings \in SUBSET Carrier : plan' = [plan EXCEPT !.bound = @ \cup bindings]
  BY DEF TranslateBindings
<1>2. /\ plan'.inputs = plan.inputs /\ plan'.reads = plan.reads
      /\ plan'.asked = plan.asked /\ plan'.rules = plan.rules /\ plan'.ruled = plan.ruled
  BY <1>1 DEF PlanInv, PlanTypeOK
<1>3. PlanTypeOK'
  BY <1>1 DEF PlanInv, PlanTypeOK
<1>4. \A r : RuleOK(r) => RuleOK(r)'
  BY <1>2, ReadsStay DEF RuleOK, IndependentRule
<1>5. \A of : AskedOK(of) => AskedOK(of)'
  BY <1>2 DEF AskedOK
<1>6. stage' \in {"document", "emit"} /\ (stage' = "document" => at' \in 1 .. Documents)
  BY DocumentMoves
<1> QED
  BY <1>2, <1>3, <1>4, <1>5, <1>6 DEF PlanInv

LEMMA RulesAdd ==
  ASSUME PlanInv, stage = "document", Advance(Documents, "emit"), TranslateRules
  PROVE  PlanInv'
<1>1. PICK rules \in SUBSET Carrier, coverage \in SUBSET (SUBSET Component \ {{}}) :
        /\ UNION coverage \subseteq {k[1] : k \in rules}
        /\ \E emitted \in
                {{IndependentRule(of) : of \in coverage}} \cup
                {UNION {Variants(b[1], b[2]) : b \in placed} :
                   placed \in {p \in SUBSET (coverage \X Route) :
                                 /\ PlacesEverything(coverage, p)
                                 /\ \A b \in p : AlternativeHolds(b[1], b[2])}} :
             plan' = [plan EXCEPT !.asked = @ \cup coverage, !.rules = @ \cup emitted,
                                  !.ruled = @ \cup rules]
  BY Zenon DEF TranslateRules
<1>2. coverage \in SUBSET (SUBSET Component) /\ PlanTypeOK
  BY DEF PlanInv
<1>3. PICK emitted :
        /\ AddsOK(coverage, rules, emitted)
        /\ plan' = [plan EXCEPT !.asked = @ \cup coverage, !.rules = @ \cup emitted,
                                !.ruled = @ \cup rules]
  <2>1. PICK emitted \in
                {{IndependentRule(of) : of \in coverage}} \cup
                {UNION {Variants(b[1], b[2]) : b \in placed} :
                   placed \in {p \in SUBSET (coverage \X Route) :
                                 /\ PlacesEverything(coverage, p)
                                 /\ \A b \in p : AlternativeHolds(b[1], b[2])}} :
             plan' = [plan EXCEPT !.asked = @ \cup coverage, !.rules = @ \cup emitted,
                                  !.ruled = @ \cup rules]
    BY <1>1
  <2>2. CASE emitted = {IndependentRule(of) : of \in coverage}
    BY <1>1, <1>2, <2>1, <2>2, IndependentAdds
  <2>3. CASE \E placed \in SUBSET (coverage \X Route) :
               /\ PlacesEverything(coverage, placed)
               /\ \A b \in placed : AlternativeHolds(b[1], b[2])
               /\ emitted = UNION {Variants(b[1], b[2]) : b \in placed}
    BY <1>1, <1>2, <2>1, <2>3, VariantsAdd
  <2> QED
    BY <2>1, <2>2, <2>3
<1> QED
  BY <1>3, DocumentAdds

LEMMA EmitKeeps ==
  ASSUME PlanInv, EmitPlan
  PROVE  PlanInv'
<1>1. ASSUME plan.rules # {}, plan.bound = plan.ruled, Goto("planned"), UNCHANGED plan
      PROVE  PlanInv'
  <2>1. stage' = "planned" /\ plan' = plan
    BY <1>1, GotoMoves
  <2>2. \A r : RuleOK(r) => RuleOK(r)'
    BY <2>1, ReadsStay DEF RuleOK, IndependentRule
  <2>3. \A of : AskedOK(of) => AskedOK(of)'
    BY <2>1 DEF AskedOK
  <2> QED
    BY <1>1, <2>1, <2>2, <2>3 DEF PlanInv, PlanTypeOK
<1> QED
  BY <1>1, NothingKeeps DEF EmitPlan, OrNothing

LEMMA PlanWorkKeeps ==
  ASSUME PlanInv, PlanWork
  PROVE  PlanInv'
BY BeginPlanKeeps, RulesAdd, BindingsAdd, EmitKeeps, NothingKeeps
   DEF PlanWork, TranslateDocument, OrNothing

(* The inputs of an alternative that holds on a route: a path payload      *)
(* there is one its path components were seen with, and none is missing.   *)
LEMMA SeenOnRoute ==
  ASSUME PlanTypeOK, NEW of \in SUBSET Component, NEW route \in Route,
         AlternativeHolds(of, route)
  PROVE  /\ \A c \in PathComponents(of) : \A i \in ExpectedRefs(c, route) :
              \/ plan.inputs[i].payload \in PathPayloads(of, route)
              \/ plan.inputs[i].payload = NoPayload /\ PathPayloads(of, route) = {}
         /\ \A p \in PathPayloads(of, route) :
              \E c \in PathComponents(of) : \E i \in ExpectedRefs(c, route) :
                plan.inputs[i].payload = p
<1>1. ASSUME NEW p \in PathPayloads(of, route)
      PROVE  \E c \in PathComponents(of) : \E i \in ExpectedRefs(c, route) :
               plan.inputs[i].payload = p /\ p # NoPayload
  BY DEF PathPayloads
<1>2. ASSUME NEW c \in PathComponents(of), NEW i \in ExpectedRefs(c, route),
             plan.inputs[i].payload # NoPayload
      PROVE  plan.inputs[i].payload \in PathPayloads(of, route) /\ route = "opaque"
  <2>1. plan.inputs[i].payload \in PathPayloads(of, route)
    BY <1>2 DEF PathPayloads
  <2>2. i \in Input /\ plan.inputs[i].route = route
    BY DEF ExpectedRefs, PlanTypeOK, PathComponents
  <2>3. plan.inputs[i] \in InputFact
    BY <2>2 DEF PlanTypeOK
  <2> QED
    BY <1>2, <2>1, <2>2, <2>3 DEF InputFact
<1>3. ASSUME NEW c \in PathComponents(of), NEW i \in ExpectedRefs(c, route),
             plan.inputs[i].payload = NoPayload, PathPayloads(of, route) # {}
      PROVE  FALSE
  <2>1. route = "opaque"
    BY <1>1, <1>2, <1>3
  <2>2. c \in of
    BY DEF PathComponents
  <2> QED
    BY <1>3, <2>1, <2>2 DEF AlternativeHolds
<1> QED
  BY <1>1, <1>2, <1>3

LEMMA PlanMatches ==
  ASSUME PlanInv, NEW i \in Input, NEW of \in plan.asked,
         of \subseteq RequestOf(i).hits,
         NEW r \in plan.rules, r.of = of, r.route \in {Anywhere, RequestOf(i).route},
         RequestOf(i).payload # NoPayload =>
           PathComponents(of) # {} \/ \E x \in plan.rules : x.of = of /\ x.route = Anywhere
  PROVE  \E x \in plan.rules : x.of = of /\ Matches(x, RequestOf(i))
<1>0. /\ PlanTypeOK /\ of \in SUBSET Component
      /\ \A x \in plan.rules : RuleOK(x) /\ x \in Rule
  BY DEF PlanInv, PlanTypeOK
<1>1. /\ RequestOf(i).hits = {c \in Component : i \in plan.reads[c]}
      /\ RequestOf(i).route = plan.inputs[i].route
      /\ RequestOf(i).payload = plan.inputs[i].payload
  BY DEF RequestOf
<1>2. Anywhere \notin Route
  BY DEF Anywhere, Route
<1>3. ASSUME NEW x \in plan.rules, x.of = of, x = IndependentRule(of)
      PROVE  Matches(x, RequestOf(i))
  BY <1>3 DEF IndependentRule, Matches
<1>4. CASE \E x \in plan.rules : x.of = of /\ x.route \notin Route
  BY <1>0, <1>3, <1>4 DEF RuleOK
<1>5. CASE \A x \in plan.rules : x.of = of => x.route \in Route
  <2>1. PICK route \in Route : route = r.route /\ route = plan.inputs[i].route
    BY <1>1, <1>2, <1>5
  <2>2. /\ AlternativeHolds(of, route) /\ Variants(of, route) \subseteq plan.rules
    <3>1. RuleOK(r) /\ r # IndependentRule(of)
      BY <1>0, <1>2, <1>5 DEF IndependentRule
    <3> QED
      BY <2>1, <3>1 DEF RuleOK
  <2>3. \A c \in of : i \in ExpectedRefs(c, route)
    BY <1>0, <1>1, <2>1 DEF ExpectedRefs
  <2>4. \A x \in Variants(of, route) : /\ x.of = of /\ x.route = route
                                       /\ x.needs = of \ PathComponents(of)
    BY <1>0, VariantsAre, ZenonT(40)
  <2>5. PICK x \in Variants(of, route) : x.path = plan.inputs[i].payload
    <3>1. CASE PathPayloads(of, route) = {}
      <4>1. plan.inputs[i].payload = NoPayload
        <5>1. CASE PathComponents(of) = {}
          BY <1>1, <1>2, <1>5, <5>1
        <5>2. ASSUME NEW c \in PathComponents(of) PROVE plan.inputs[i].payload = NoPayload
          <6>1. c \in of
            BY DEF PathComponents
          <6> QED
            BY <1>0, <2>2, <2>3, <3>1, <6>1, SeenOnRoute
        <5> QED
          BY <5>1, <5>2
      <4>2. [of |-> of, needs |-> of \ PathComponents(of), route |-> route,
             path |-> NoPayload] \in Variants(of, route)
        BY <3>1 DEF Variants
      <4> QED
        BY <4>1, <4>2
    <3>2. CASE PathPayloads(of, route) # {}
      <4>1. PICK c \in PathComponents(of) : c \in of
        BY <1>0, <2>2, <3>2, SeenOnRoute DEF PathComponents
      <4>2. plan.inputs[i].payload \in PathPayloads(of, route)
        BY <1>0, <2>2, <2>3, <3>2, <4>1, SeenOnRoute
      <4>3. [of |-> of, needs |-> of \ PathComponents(of), route |-> route,
             path |-> plan.inputs[i].payload] \in Variants(of, route)
        BY <4>2 DEF Variants
      <4> QED
        BY <4>3
    <3> QED
      BY <3>1, <3>2
  <2>6. x.needs \subseteq RequestOf(i).hits /\ x.route = RequestOf(i).route
        /\ x.path = RequestOf(i).payload /\ x.of = of /\ x \in plan.rules
    BY <1>1, <2>1, <2>2, <2>4, <2>5
  <2> QED
    BY <2>6 DEF Matches
<1> QED
  BY <1>4, <1>5

LEMMA PlanNotWider ==
  ASSUME PlanInv, NEW r \in plan.rules, r.of \ r.needs # {}
  PROVE  /\ r.of \ r.needs \subseteq PathComponents(r.of)
         /\ \E i \in Input : /\ plan.inputs[i].route = r.route
                             /\ plan.inputs[i].payload = r.path
                             /\ RequestOf(i).hits \cap (r.of \ r.needs) # {}
<1>0. PlanTypeOK /\ RuleOK(r) /\ r \in Rule
  BY DEF PlanInv, PlanTypeOK
<1>1. PICK of \in SUBSET Component, route \in Route :
        /\ of = r.of /\ route = r.route
        /\ AlternativeHolds(of, route) /\ r \in Variants(of, route)
  <2>1. r # IndependentRule(r.of)
    BY DEF IndependentRule
  <2> QED
    BY <1>0, <2>1 DEF RuleOK, Rule
<1>2. r.needs = of \ PathComponents(of)
  BY <1>0, <1>1, VariantsAre
<1>3. /\ r.of \ r.needs = PathComponents(of)
      /\ PathComponents(of) # {}
  BY <1>1, <1>2 DEF PathComponents
<1>4. PICK c \in PathComponents(of) :
        \E i \in ExpectedRefs(c, route) : plan.inputs[i].payload = r.path
  <2>1. CASE PathPayloads(of, route) = {}
    <3>1. r.path = NoPayload
      BY <1>1, <2>1 DEF Variants
    <3>2. PICK c \in PathComponents(of) : c \in of
      BY <1>3 DEF PathComponents
    <3>3. PICK i \in ExpectedRefs(c, route) : TRUE
      BY <1>1, <3>2 DEF AlternativeHolds
    <3>4. plan.inputs[i].payload = NoPayload
      BY <1>0, <1>1, <2>1, SeenOnRoute
    <3> QED
      BY <3>1, <3>4
  <2>2. CASE PathPayloads(of, route) # {}
    <3>1. r.path \in PathPayloads(of, route)
      BY <1>1, <2>2 DEF Variants
    <3> QED
      BY <1>0, <1>1, <3>1, SeenOnRoute
  <2> QED
    BY <2>1, <2>2
<1>5. PICK i \in ExpectedRefs(c, route) : plan.inputs[i].payload = r.path
  BY <1>4
<1>6. c \in Component /\ i \in plan.reads[c] /\ plan.inputs[i].route = route /\ i \in Input
  BY <1>0 DEF ExpectedRefs, PathComponents, PlanTypeOK
<1>7. c \in RequestOf(i).hits
  BY <1>6 DEF RequestOf
<1> QED
  BY <1>1, <1>3, <1>5, <1>6, <1>7

(* What the invariant says of an emitted plan. *)
LEMMA PlanInvGives == PlanInv => PlannedIsFaithful
<1> SUFFICES ASSUME PlanInv PROVE PlannedIsFaithful
  OBVIOUS
<1>1. PlannedIsComplete
  BY DEF PlanInv, RuleOK, AskedOK, PlannedIsComplete
<1>2. PlannedMatchesInputs
  BY PlanMatches DEF PlannedMatchesInputs
<1>3. PlannedIsNotWider
  BY PlanNotWider DEF PlannedIsNotWider, PlanInv, RuleOK
<1> QED
  BY <1>1, <1>2, <1>3 DEF PlannedIsFaithful

-----------------------------------------------------------------------------
(* The three parts together: the control is in one of them at a time, and  *)
(* the steps of one leave the others alone.                                *)

Repeated == {"fetch", "lineage", "subject", "agreement", "join", "coverage", "mapping",
             "cases", "campaign", "document"}

(* A step goes to one of these stages, or on to the next turn of a loop. *)
MovesTo(to) ==
  /\ signal' = signal
  /\ \/ stage' \in to /\ at' = 1
     \/ stage' = stage /\ stage \in Repeated

ControlOK ==
  /\ stage \in Stage /\ signal \in BOOLEAN
  /\ stage \notin Repeated => at = 1

LEMMA GotoMovesTo ==
  ASSUME NEW to, NEW next \in to, Goto(next)
  PROVE  MovesTo(to)
BY DEF Goto, MovesTo

LEMMA AdvanceMovesTo ==
  ASSUME NEW to, NEW next \in to, NEW last, Advance(last, next), stage \in Repeated
  PROVE  MovesTo(to)
BY DEF Advance, Goto, MovesTo

LoopReaches == LoopStage \cup {"resolved", "refused", "canceled"}
JoinReaches == JoinStage \cup {"rejected", "canceled", "unreachable", "plan"}
PlanReaches == PlanStage \cup {"planned", "rejected", "inexpressible"}

LEMMA LoopMoves ==
  ASSUME LoopWork
  PROVE  stage \in LoopStage /\ MovesTo(LoopReaches)
<1>1. /\ "fetch" \in LoopReaches /\ "lineage" \in LoopReaches /\ "subject" \in LoopReaches
      /\ "agreement" \in LoopReaches /\ "promote" \in LoopReaches
      /\ "resolved" \in LoopReaches /\ "refused" \in LoopReaches
      /\ "canceled" \in LoopReaches
  BY DEF LoopReaches, LoopStage
<1>2. Refuse \/ Goto("canceled") => MovesTo(LoopReaches)
  BY <1>1, GotoMovesTo DEF Refuse
<1>3. CASE Begin
  BY <1>1, <1>2, <1>3, GotoMovesTo DEF Begin, Unless, LoopStage
<1>4. CASE FetchRecord
  <2>1. Refuse \/ Goto("canceled") \/ Advance(Len(Roles), "lineage")
    BY <1>4 DEF FetchRecord, Unless
  <2>2. stage \in LoopStage /\ stage \in Repeated
    BY <1>4 DEF FetchRecord, LoopStage, Repeated
  <2> QED
    BY <1>1, <1>2, <2>1, <2>2, AdvanceMovesTo
<1>5. CASE CompareLineage
  <2>1. \/ Refuse \/ Goto("canceled")
        \/ Advance(Len(Roles), IF call.subject THEN "subject" ELSE "agreement")
    BY <1>5 DEF CompareLineage, Unless
  <2>2. stage \in LoopStage /\ stage \in Repeated
    BY <1>5 DEF CompareLineage, LoopStage, Repeated
  <2>3. (IF call.subject THEN "subject" ELSE "agreement") \in LoopReaches
    BY <1>1
  <2> QED
    BY <1>2, <2>1, <2>2, <2>3, AdvanceMovesTo
<1>6. CASE CompareSubject \/ CompareAgreement
  <2>1. Refuse \/ Advance(Len(Roles), "promote")
    BY <1>6 DEF CompareSubject, CompareAgreement, Name
  <2>2. stage \in LoopStage /\ stage \in Repeated
    BY <1>6 DEF CompareSubject, CompareAgreement, LoopStage, Repeated
  <2> QED
    BY <1>1, <1>2, <2>1, <2>2, AdvanceMovesTo
<1>7. CASE Promote
  BY <1>1, <1>2, <1>7, GotoMovesTo DEF Promote, Unless, LoopStage
<1> QED
  BY <1>3, <1>4, <1>5, <1>6, <1>7 DEF LoopWork

LEMMA JoinMoves ==
  ASSUME JoinWork
  PROVE  stage \in JoinStage /\ MovesTo(JoinReaches)
<1>1. /\ \A s \in {"join", "semantics", "coverage", "bundle", "mapping", "mitigation",
                   "cases", "bypass", "campaign", "totals", "verified"} :
           s \in JoinStage /\ s \in JoinReaches
      /\ "rejected" \in JoinReaches /\ "canceled" \in JoinReaches
      /\ "unreachable" \in JoinReaches /\ "plan" \in JoinReaches
  BY PastIs DEF JoinReaches, JoinStage
<1>2. \A how \in JoinReaches : Leave(how) => MovesTo(JoinReaches)
  BY GotoMovesTo DEF Leave
<1>3. Reject => MovesTo(JoinReaches)
  BY <1>1, <1>2 DEF Reject
<1>4. CASE FetchResult
  <2>1. \/ Leave("canceled") \/ Leave("unreachable") \/ Reject
        \/ Advance(Len(Fetches), "semantics")
    BY <1>4 DEF FetchResult, OrReject
  <2>2. stage = "join" /\ stage \in Repeated
    BY <1>4 DEF FetchResult, Repeated
  <2> QED
    BY <1>1, <1>2, <1>3, <2>1, <2>2, AdvanceMovesTo
<1>5. CASE ValidateSemantics
  <2>1. stage = "semantics" /\ (Leave("canceled") \/ Reject \/ Goto("coverage"))
    BY <1>5 DEF ValidateSemantics, OrReject
  <2> QED
    BY <1>1, <1>2, <1>3, <2>1, GotoMovesTo
<1>6. CASE ValidateObligation
  <2>1. stage = "coverage" /\ (Reject \/ Advance(Len(Obligations), "bundle"))
    BY <1>6, Zenon DEF ValidateObligation, OrReject
  <2> QED
    BY <1>1, <1>3, <2>1, AdvanceMovesTo DEF Repeated
<1>7. CASE ValidateBundle
  <2>1. stage = "bundle" /\ (Reject \/ Goto("mapping"))
    BY <1>7 DEF ValidateBundle, OrReject
  <2> QED
    BY <1>1, <1>3, <2>1, GotoMovesTo
<1>8. CASE ValidateMapping
  <2>1. stage = "mapping" /\ (Reject \/ Advance(Len(Obligations), "mitigation"))
    BY <1>8 DEF ValidateMapping, OrReject
  <2> QED
    BY <1>1, <1>3, <2>1, AdvanceMovesTo DEF Repeated
<1>9. CASE ValidateMitigation
  <2>1. stage = "mitigation" /\ (Reject \/ Goto("cases"))
    BY <1>9 DEF ValidateMitigation, OrReject
  <2> QED
    BY <1>1, <1>3, <2>1, GotoMovesTo
<1>10. CASE ValidateCases
  <2>1. stage = "cases" /\ (Reject \/ Advance(Len(Obligations), "bypass"))
    BY <1>10, Zenon DEF ValidateCases, OrReject
  <2> QED
    BY <1>1, <1>3, <2>1, AdvanceMovesTo DEF Repeated
<1>11. CASE ValidateBypass
  <2>1. stage = "bypass" /\ (Reject \/ Goto("campaign"))
    BY <1>11 DEF ValidateBypass, OrReject
  <2> QED
    BY <1>1, <1>3, <2>1, GotoMovesTo
<1>12. CASE ValidateCampaign
  <2>1. stage = "campaign" /\ (Reject \/ Advance(Len(Obligations), "totals"))
    BY <1>12, Zenon DEF ValidateCampaign, OrReject
  <2> QED
    BY <1>1, <1>3, <2>1, AdvanceMovesTo DEF Repeated
<1>13. CASE ValidateTotals
  <2>1. stage = "totals" /\ (Reject \/ Goto("verified"))
    BY <1>13 DEF ValidateTotals, OrReject
  <2> QED
    BY <1>1, <1>3, <2>1, GotoMovesTo
<1>14. CASE HandOver
  <2>1. stage = "verified" /\ (Leave("canceled") \/ Leave("plan"))
    BY <1>14 DEF HandOver
  <2> QED
    BY <1>1, <1>2, <2>1
<1> QED
  BY <1>4, <1>5, <1>6, <1>7, <1>8, <1>9, <1>10, <1>11, <1>12, <1>13, <1>14 DEF JoinWork

LEMMA PlanMoves ==
  ASSUME PlanWork
  PROVE  stage \in PlanStage /\ MovesTo(PlanReaches)
<1>1. /\ "document" \in PlanReaches /\ "emit" \in PlanReaches /\ "planned" \in PlanReaches
      /\ "rejected" \in PlanReaches /\ "inexpressible" \in PlanReaches
  BY DEF PlanReaches, PlanStage
<1>2. NothingEmitted("inexpressible") \/ NothingEmitted("rejected") => MovesTo(PlanReaches)
  BY <1>1, GotoMovesTo DEF NothingEmitted
<1>3. CASE BeginPlan
  BY <1>1, <1>2, <1>3, GotoMovesTo DEF BeginPlan, OrNothing, PlanStage
<1>4. CASE TranslateDocument
  BY <1>1, <1>2, <1>4, AdvanceMovesTo DEF TranslateDocument, OrNothing, PlanStage, Repeated
<1>5. CASE EmitPlan
  BY <1>1, <1>2, <1>5, GotoMovesTo DEF EmitPlan, OrNothing, PlanStage
<1> QED
  BY <1>3, <1>4, <1>5 DEF PlanWork

(* What each part keeps of what it has established. *)
EvidenceInv == ControlOK /\ LoopInv /\ JoinInv /\ PlanInv

LEMMA MovesKeepControl ==
  ASSUME ControlOK, NEW to, to \subseteq Stage, MovesTo(to)
  PROVE  ControlOK'
BY DEF ControlOK, MovesTo

LEMMA ReachesAreStages ==
  /\ LoopReaches \subseteq Stage /\ JoinReaches \subseteq Stage
  /\ PlanReaches \subseteq Stage
BY PastIs DEF LoopReaches, LoopStage, JoinReaches, JoinStage, PlanReaches, PlanStage,
              Stage, Ended

LEMMA EvidenceInit == Init => EvidenceInv
<1> SUFFICES ASSUME Init PROVE EvidenceInv
  OBVIOUS
<1>0. stage \in {"begin", "join"} /\ at = 1 /\ signal = FALSE
  BY DEF Init
<1>1. ControlOK
  BY <1>0 DEF ControlOK, Stage
<1>2. LoopInv
  <2>1. NoRecord \in [capability : Shape \cup {"none"}, contract : Contract,
                      content : {"pinned", "other"}, state : State]
    BY DEF NoRecord, Contract, State
  <2>2. LoopTypeOK
    BY <2>1 DEF Init, LoopInit, LoopTypeOK
  <2>3. \A key \in Key : named[key] = {}
    BY DEF Init, LoopInit
  <2> QED
    BY <1>0, <2>2, <2>3 DEF LoopInv, Key
<1>3. JoinInv
  <2>1. /\ profile \in Profile /\ fetched = [s \in Shape |-> "other"]
        /\ sem = NoSemantics /\ proof = NoProof /\ bv = NoCampaigns
    BY DEF Init, JoinInit
  <2>2. JoinTypeOK
    BY <2>1, InitialsOK DEF JoinTypeOK
  <2>3. AttemptsCountOnce
    BY <2>1, InitialsOK, FS_EmptySet DEF AttemptsCountOnce
  <2>4. TurnOK /\ FetchedOK /\ ChainOK
    BY <1>0, PastIs DEF TurnOK, FetchedOK, ChainOK
  <2>5. NeededOK /\ MappedOK /\ BlockedOK /\ AttackedOK
    BY <1>0, PastIs DEF NeededOK, MappedOK, BlockedOK, AttackedOK, Dealt
  <2> QED
    BY <2>2, <2>3, <2>4, <2>5 DEF JoinInv
<1>4. PlanInv
  <2>1. plan = NoPlan
    BY DEF Init, PlanInit
  <2>2. PlanTypeOK /\ plan.rules = {} /\ plan.asked = {}
    BY <2>1, NoInputsOK DEF PlanTypeOK
  <2> QED
    BY <1>0, <2>2 DEF PlanInv
<1> QED
  BY <1>1, <1>2, <1>3, <1>4 DEF EvidenceInv

LEMMA EvidenceStep == EvidenceInv /\ [Next]_vars => EvidenceInv'
<1> SUFFICES ASSUME EvidenceInv, [Next]_vars PROVE EvidenceInv'
  OBVIOUS
<1>0. ControlOK /\ LoopInv /\ JoinInv /\ PlanInv
  BY DEF EvidenceInv
<1>1. CASE ResolveProofLoop
  <2>1. LoopWork /\ UNCHANGED joinData /\ plan' = plan
    BY <1>1 DEF ResolveProofLoop
  <2>2. stage \in LoopStage /\ MovesTo(LoopReaches)
    BY <2>1, LoopMoves
  <2>3. stage' \in LoopReaches
    BY <2>2 DEF MovesTo, LoopReaches
  <2>4. stage' \notin JoinStage /\ stage' \notin {"document", "planned"}
    BY <2>3, PastIs DEF LoopReaches, LoopStage, JoinStage
  <2>5. ControlOK'
    BY <1>0, <2>2, MovesKeepControl, ReachesAreStages
  <2> QED
    BY <1>0, <2>1, <2>4, <2>5, LoopWorkKeeps, JoinLeft, PlanLeft DEF EvidenceInv
<1>2. CASE VerifyFourResults
  <2>1. JoinWork /\ UNCHANGED loopData /\ plan' = plan
    BY <1>2 DEF VerifyFourResults
  <2>2. stage \in JoinStage /\ MovesTo(JoinReaches)
    BY <2>1, JoinMoves
  <2>3. stage' \in JoinReaches
    BY <2>2 DEF MovesTo, JoinReaches
  <2>4. stage' \notin LoopStage \cup {"resolved"} /\ stage' \notin {"document", "planned"}
    BY <2>3, PastIs DEF JoinReaches, LoopStage, JoinStage
  <2>5. ControlOK'
    BY <1>0, <2>2, MovesKeepControl, ReachesAreStages
  <2> QED
    BY <1>0, <2>1, <2>4, <2>5, JoinWorkKeeps, LoopLeft, PlanLeft DEF EvidenceInv
<1>3. CASE BuildPlan
  <2>1. PlanWork /\ UNCHANGED loopData /\ UNCHANGED joinData
    BY <1>3 DEF BuildPlan
  <2>2. stage \in PlanStage /\ MovesTo(PlanReaches)
    BY <2>1, PlanMoves
  <2>3. stage' \in PlanReaches
    BY <2>2 DEF MovesTo, PlanReaches
  <2>4. stage' \notin LoopStage \cup {"resolved"} /\ stage' \notin JoinStage
    BY <2>3, PastIs DEF PlanReaches, PlanStage, LoopStage, JoinStage
  <2>5. ControlOK'
    BY <1>0, <2>2, MovesKeepControl, ReachesAreStages
  <2> QED
    BY <1>0, <2>1, <2>4, <2>5, PlanWorkKeeps, LoopLeft, JoinLeft DEF EvidenceInv
<1>4. CASE Cancel \/ UNCHANGED vars
  <2>1. /\ stage' = stage /\ at' = at /\ plan' = plan
        /\ UNCHANGED loopData /\ UNCHANGED joinData
        /\ signal' \in {signal, TRUE}
    BY <1>4 DEF Cancel, SetSignal, vars, control
  <2>2. ControlOK'
    BY <1>0, <2>1 DEF ControlOK
  <2> QED
    BY <1>0, <2>1, <2>2, LoopLeft, JoinLeft, PlanLeft DEF EvidenceInv
<1> QED
  BY <1>1, <1>2, <1>3, <1>4 DEF Next, Done

-----------------------------------------------------------------------------
(* Everything a resolution has established at the stage it is at still     *)
(* holds there, in the proof loop, in the join and in the plan.            *)
THEOREM EvidenceInvariant == Spec => []EvidenceInv
BY EvidenceInit, EvidenceStep, PTL DEF Spec

(* Types, and no loop of resolve_proof_loop, of the join or of the planner *)
(* goes beyond what it goes through.                                       *)
THEOREM EvidenceTypeCorrect == Spec => []EvidenceTypeOK
<1>1. EvidenceInv => EvidenceTypeOK
  <2> SUFFICES ASSUME EvidenceInv PROVE EvidenceTypeOK
    OBVIOUS
  <2>1. stage \in Stage /\ signal \in BOOLEAN /\ LoopTypeOK /\ JoinTypeOK /\ PlanTypeOK
    BY DEF EvidenceInv, ControlOK, LoopInv, JoinInv, PlanInv
  <2>2. at \in 1 .. Turns(stage)
    <3>1. CASE stage \in {"fetch", "lineage", "subject", "agreement"}
      BY <3>1, RolesAre DEF EvidenceInv, LoopInv, Turns
    <3>2. CASE stage = "join"
      BY <3>2, FetchesAre DEF EvidenceInv, JoinInv, TurnOK, Turns
    <3>3. CASE stage \in {"coverage", "mapping", "cases", "campaign"}
      BY <3>3 DEF EvidenceInv, JoinInv, TurnOK, Turns
    <3>4. CASE stage = "document"
      BY <3>4 DEF EvidenceInv, PlanInv, Turns
    <3>5. CASE stage \notin Repeated
      <4>1. at = 1 /\ Turns(stage) = 1
        BY <3>5 DEF EvidenceInv, ControlOK, Repeated, Turns
      <4> QED
        BY <4>1
    <3> QED
      BY <3>1, <3>2, <3>3, <3>4, <3>5 DEF Repeated
  <2> QED
    BY <2>1, <2>2 DEF EvidenceTypeOK
<1> QED
  BY <1>1, EvidenceInvariant, PTL

(* resolve_proof_loop promotes a pattern only from documents of one        *)
(* lineage, whatever identifiers they name.                                *)
THEOREM EvidenceLineageIsOne == Spec => []ResolvedLineageIsOne
<1>1. EvidenceInv => ResolvedLineageIsOne
  BY LoopInvGives DEF EvidenceInv
<1> QED
  BY <1>1, EvidenceInvariant, PTL

(* The records resolve_proof_loop rests on are of the right producers, of  *)
(* the pinned content, and say what is claimed of them.                    *)
THEOREM EvidenceRecordsAreGenuine == Spec => []RecordsAreGenuine
<1>1. EvidenceInv => RecordsAreGenuine
  BY LoopInvGives DEF EvidenceInv
<1> QED
  BY <1>1, EvidenceInvariant, PTL

(* A join that resolve_and_verify_four_result_join accepts is proven for   *)
(* every obligation, for any obligations, components and attempts.         *)
THEOREM EvidenceVerifiedIsProven == Spec => []VerifiedIsProven
<1>1. EvidenceInv => VerifiedIsProven
  BY JoinInvGives DEF EvidenceInv
<1> QED
  BY <1>1, EvidenceInvariant, PTL

(* The four results of an accepted join are one chain of pinned results.   *)
THEOREM EvidenceVerifiedIsOneChain == Spec => []VerifiedIsOneChain
<1>1. EvidenceInv => VerifiedIsOneChain
  BY JoinInvGives DEF EvidenceInv
<1> QED
  BY <1>1, EvidenceInvariant, PTL

(* A plan that build_waf_translation_plan emits says what was asked,       *)
(* whole, and no more, for any documents, components and test inputs.      *)
THEOREM EvidencePlannedIsFaithful == Spec => []PlannedIsFaithful
<1>1. EvidenceInv => PlannedIsFaithful
  BY PlanInvGives DEF EvidenceInv
<1> QED
  BY <1>1, EvidenceInvariant, PTL

(* A step taken with the signal set takes no record in and promotes        *)
(* nothing.                                                                *)
LEMMA SignalStopsStep ==
  ASSUME signal, [Next]_vars
  PROVE  record' = record /\ (stage' = "resolved" => stage = "resolved")
<1>1. CASE LoopWork
  <2>1. CASE Begin
    BY <2>1 DEF Begin, Unless, Goto, loopData
  <2>2. CASE FetchRecord
    BY <2>2 DEF FetchRecord, Unless, Goto, loopData
  <2>3. CASE CompareLineage
    BY <2>3 DEF CompareLineage, Unless, Goto, loopData
  <2>4. CASE CompareSubject \/ CompareAgreement
    <3>1. stage \in {"subject", "agreement"} /\ record' = record
      BY <2>4 DEF CompareSubject, CompareAgreement, Name, Refuse, loopData
    <3>2. Refuse \/ Advance(Len(Roles), "promote")
      BY <2>4 DEF CompareSubject, CompareAgreement, Name
    <3> QED
      BY <3>1, <3>2 DEF Refuse, Advance, Goto
  <2>5. CASE Promote
    BY <2>5 DEF Promote, Unless, Refuse, Goto, loopData
  <2> QED
    BY <1>1, <2>1, <2>2, <2>3, <2>4, <2>5 DEF LoopWork
<1>2. CASE JoinWork /\ UNCHANGED loopData
  <2>1. stage' \in JoinReaches
    BY <1>2, JoinMoves DEF MovesTo, JoinReaches
  <2>2. stage' # "resolved"
    BY <2>1, PastIs DEF JoinReaches, JoinStage
  <2> QED
    BY <1>2, <2>2 DEF loopData
<1>3. CASE PlanWork /\ UNCHANGED loopData
  <2>1. stage' \in PlanReaches
    BY <1>3, PlanMoves DEF MovesTo, PlanReaches
  <2>2. stage' # "resolved"
    BY <2>1 DEF PlanReaches, PlanStage
  <2> QED
    BY <1>3, <2>2 DEF loopData
<1>4. CASE Cancel \/ UNCHANGED vars
  BY <1>4 DEF Cancel, SetSignal, vars, control, loopData
<1> QED
  BY <1>1, <1>2, <1>3, <1>4
     DEF Next, ResolveProofLoop, VerifyFourResults, BuildPlan, Done

(* Once the signal of a run is set, resolve_proof_loop takes no further    *)
(* record in and promotes nothing, wherever it is.                         *)
THEOREM EvidenceSignalStops == Spec => SignalStopsTheLoop
<1>1. [Next]_vars =>
        [signal => record' = record /\ (stage' = "resolved" => stage = "resolved")]_loopVars
  BY SignalStopsStep
<1> QED
  BY <1>1, PTL DEF Spec, SignalStopsTheLoop

-----------------------------------------------------------------------------
(* The coverage walk finds what can be reached.                            *)
(*                                                                         *)
(* The walk is a recursive function, of which nothing is known but that it *)
(* satisfies its equation, if anything does.                               *)

(* The equation of the walk: what it finds at a node, when it finds f in   *)
(* the places it goes on to.                                               *)
Found(groups, told, f, v, n) ==
  IF n \in Component THEN {n}
  ELSE IF n \in v \/ n \notin told THEN {Failed}
  ELSE UNION {f[v \cup {n}][child] : child \in groups[n]}

Walking(groups, told, f) ==
  [v \in SUBSET Group |-> [n \in Node |-> Found(groups, told, f, v, n)]]

Walks == [SUBSET Group -> [Node -> SUBSET (Component \cup {Failed})]]

LEMMA FoundType ==
  ASSUME NEW groups \in [Group -> SUBSET Node], NEW told, NEW f \in Walks,
         NEW v \in SUBSET Group, NEW n \in Node
  PROVE  Found(groups, told, f, v, n) \in SUBSET (Component \cup {Failed})
<1>1. CASE n \in Component \/ n \in v \/ n \notin told
  BY <1>1 DEF Found
<1>2. CASE ~ (n \in Component \/ n \in v \/ n \notin told)
  <2>1. v \cup {n} \in SUBSET Group /\ groups[n] \in SUBSET Node
    BY <1>2 DEF Node
  <2>2. \A child \in groups[n] : f[v \cup {n}][child] \in SUBSET (Component \cup {Failed})
    BY <2>1 DEF Walks
  <2>3. Found(groups, told, f, v, n) = UNION {f[v \cup {n}][child] : child \in groups[n]}
    BY <1>2 DEF Found
  <2> QED BY <2>2, <2>3
<1> QED BY <1>1, <1>2

LEMMA FoundMonotonic ==
  ASSUME NEW groups \in [Group -> SUBSET Node], NEW told,
         NEW f \in Walks, NEW g \in Walks,
         \A v \in SUBSET Group, n \in Node : f[v][n] \subseteq g[v][n],
         NEW v \in SUBSET Group, NEW n \in Node
  PROVE  Found(groups, told, f, v, n) \subseteq Found(groups, told, g, v, n)
<1>1. CASE n \in Component \/ n \in v \/ n \notin told
  BY <1>1 DEF Found
<1>2. CASE ~ (n \in Component \/ n \in v \/ n \notin told)
  <2>1. v \cup {n} \in SUBSET Group /\ groups[n] \in SUBSET Node
    BY <1>2 DEF Node
  <2>2. \A child \in groups[n] : f[v \cup {n}][child] \subseteq g[v \cup {n}][child]
    BY <2>1
  <2>3. /\ Found(groups, told, f, v, n) = UNION {f[v \cup {n}][child] : child \in groups[n]}
        /\ Found(groups, told, g, v, n) = UNION {g[v \cup {n}][child] : child \in groups[n]}
    BY <1>2 DEF Found
  <2> QED BY <2>2, <2>3, ZenonT(40)
<1> QED BY <1>1, <1>2

(* The equation has a solution: the least of the assignments it makes no   *)
(* larger.                                                                 *)
LEMMA WalkExists ==
  ASSUME NEW groups \in [Group -> SUBSET Node], NEW told
  PROVE  \E w \in Walks : w = Walking(groups, told, w)
<1> DEFINE Closed(f) == \A v \in SUBSET Group, n \in Node :
                          Found(groups, told, f, v, n) \subseteq f[v][n]
           Least(v, n) == {x \in Component \cup {Failed} :
                             \A f \in Walks : Closed(f) => x \in f[v][n]}
           least == [v \in SUBSET Group |-> [n \in Node |-> Least(v, n)]]
           next == Walking(groups, told, least)
<1>1. least \in Walks
  BY DEF Walks
<1>2. \A v \in SUBSET Group, n \in Node : least[v][n] = Least(v, n)
  OBVIOUS
<1>3. \A v \in SUBSET Group, n \in Node :
        next[v][n] = Found(groups, told, least, v, n)
  BY DEF Walking
<1>4. next \in Walks
  <2>1. \A v \in SUBSET Group, n \in Node :
          Found(groups, told, least, v, n) \in SUBSET (Component \cup {Failed})
    BY <1>1, FoundType
  <2> QED BY <2>1 DEF Walks, Walking
<1> HIDE DEF least, next
<1>5. \A f \in Walks : Closed(f) =>
        \A v \in SUBSET Group, n \in Node : least[v][n] \subseteq f[v][n]
  BY <1>2
<1>6. \A f \in Walks : Closed(f) =>
        \A v \in SUBSET Group, n \in Node :
          Found(groups, told, least, v, n) \subseteq f[v][n]
  <2> SUFFICES ASSUME NEW f \in Walks, Closed(f), NEW v \in SUBSET Group, NEW n \in Node
               PROVE  Found(groups, told, least, v, n) \subseteq f[v][n]
    OBVIOUS
  <2>1. Found(groups, told, least, v, n) \subseteq Found(groups, told, f, v, n)
    BY <1>1, <1>5, FoundMonotonic
  <2> QED BY <2>1
<1>7. \A v \in SUBSET Group, n \in Node : next[v][n] \subseteq least[v][n]
  <2> SUFFICES ASSUME NEW v \in SUBSET Group, NEW n \in Node, NEW x \in next[v][n]
               PROVE  x \in least[v][n]
    OBVIOUS
  <2>1. x \in Component \cup {Failed}
    BY <1>4 DEF Walks
  <2>2. \A f \in Walks : Closed(f) => x \in f[v][n]
    BY <1>3, <1>6
  <2>3. x \in Least(v, n)
    BY <2>1, <2>2
  <2> HIDE DEF Least
  <2> QED BY <2>3, <1>2
<1>8. Closed(next)
  <2> SUFFICES ASSUME NEW v \in SUBSET Group, NEW n \in Node
               PROVE  Found(groups, told, next, v, n) \subseteq next[v][n]
    OBVIOUS
  <2>1. Found(groups, told, next, v, n) \subseteq Found(groups, told, least, v, n)
    BY <1>1, <1>4, <1>7, FoundMonotonic
  <2> QED BY <2>1, <1>3
<1>9. \A v \in SUBSET Group, n \in Node : least[v][n] = next[v][n]
  BY <1>4, <1>5, <1>7, <1>8
<1>10. least = next
  BY <1>1, <1>4, <1>9 DEF Walks
<1> QED BY <1>1, <1>10 DEF next

(* What the walk finds, node by node. *)
IsWalk(groups, told, w) ==
  \A u \in SUBSET Group, m \in Node :
    /\ m \in Component => w[u][m] = {m}
    /\ m \notin Component /\ (m \in u \/ m \notin told) => w[u][m] = {Failed}
    /\ m \notin Component /\ m \notin u /\ m \in told =>
         \A y : y \in w[u][m] <=> \E c \in groups[m] : y \in w[u \cup {m}][c]

LEMMA WalkIs ==
  ASSUME NEW groups, NEW told, NEW w, w = Walking(groups, told, w)
  PROVE  IsWalk(groups, told, w)
<1> SUFFICES ASSUME NEW u \in SUBSET Group, NEW m \in Node
             PROVE  /\ m \in Component => w[u][m] = {m}
                    /\ m \notin Component /\ (m \in u \/ m \notin told) => w[u][m] = {Failed}
                    /\ m \notin Component /\ m \notin u /\ m \in told =>
                         \A y : y \in w[u][m] <=> \E c \in groups[m] : y \in w[u \cup {m}][c]
  BY DEF IsWalk
<1>1. w[u][m] = Found(groups, told, w, u, m)
  BY DEF Walking
<1>2. \A y : y \in UNION {w[u \cup {m}][c] : c \in groups[m]} <=>
               \E c \in groups[m] : y \in w[u \cup {m}][c]
  OBVIOUS
<1>3. m \notin Component /\ m \notin u /\ m \in told =>
        w[u][m] = UNION {w[u \cup {m}][c] : c \in groups[m]}
  BY <1>1, Zenon DEF Found
<1>4. /\ m \in Component => w[u][m] = {m}
      /\ m \notin Component /\ (m \in u \/ m \notin told) => w[u][m] = {Failed}
  BY <1>1, Zenon DEF Found
<1> QED BY <1>2, <1>3, <1>4, Zenon

(* The walk of the model is such a walk. *)
LEMMA CoverageWalkIs ==
  ASSUME NEW groups \in [Group -> SUBSET Node], NEW told, NEW ref \in Node
  PROVE  \E w : /\ IsWalk(groups, told, w)
                /\ CoverageWalk(groups, told, ref) = w[{}][ref]
<1> DEFINE w == CHOOSE f : f = Walking(groups, told, f)
<1>1. w = Walking(groups, told, w)
  <2>1. \E f : f = Walking(groups, told, f)
    BY WalkExists
  <2> QED BY <2>1, Zenon
<1>2. CoverageWalk(groups, told, ref) = w[{}][ref]
  BY Zenon DEF CoverageWalk, Walking, Found
<1> HIDE DEF w
<1> QED BY <1>1, <1>2, WalkIs, Zenon

LEMMA BelowSteps ==
  ASSUME NEW groups \in [Group -> SUBSET Node], NEW n \in Group, NEW c \in groups[n]
  PROVE  {c} \cup Below(groups, c) \subseteq Below(groups, n)
<1>1. n \notin Component
  BY JoinAssumption
<1>2. c \in Below(groups, n)
  BY <1>1 DEF Below
<1>3. ASSUME NEW m \in Below(groups, c)
      PROVE  m \in Below(groups, n)
  <2>1. c \notin Component /\ c \in Group /\ m \in Node
    BY <1>3 DEF Below, Node
  <2>2. ASSUME NEW S \in SUBSET Node, groups[n] \subseteq S, ClosedUnder(groups, S)
        PROVE  m \in S
    <3>1. groups[c] \subseteq S
      BY <2>1, <2>2 DEF ClosedUnder
    <3> QED BY <3>1, <2>1, <2>2, <1>3 DEF Below
  <2> QED BY <1>1, <2>1, <2>2 DEF Below
<1> QED BY <1>2, <1>3

(* What is found at a group was found at one of its children. *)
LEMMA FoundFurther ==
  ASSUME NEW groups, NEW told, NEW w, IsWalk(groups, told, w),
         NEW u \in SUBSET Group, NEW m \in Node, NEW y \in w[u][m], y # Failed, y # m
  PROVE  /\ m \notin Component /\ m \notin u
         /\ \E c \in groups[m] : y \in w[u \cup {m}][c]
<1>1. /\ m \in Component => w[u][m] = {m}
      /\ m \notin Component /\ (m \in u \/ m \notin told) => w[u][m] = {Failed}
      /\ m \notin Component /\ m \notin u /\ m \in told =>
           \A z : z \in w[u][m] <=> \E c \in groups[m] : z \in w[u \cup {m}][c]
  BY Zenon DEF IsWalk
<1>2. m \notin Component /\ m \notin u /\ m \in told
  BY <1>1
<1> QED BY <1>1, <1>2

(* A walk finds, besides its failures, only what can be reached.  Of the   *)
(* walks that find anything else, one could enter the fewest groups; the   *)
(* walk on to the child where that was found can enter fewer.              *)
LEMMA WalkStaysBelow ==
  ASSUME NEW groups \in [Group -> SUBSET Node], NEW told \in SUBSET Group,
         NEW w, IsWalk(groups, told, w),
         NEW v \in SUBSET Group, NEW n \in Node, NEW x \in w[v][n], x # Failed
  PROVE  x \in {n} \cup Below(groups, n)
<1> DEFINE Astray(u, m, y) == /\ y \in w[u][m] /\ y # Failed
                              /\ y \notin {m} \cup Below(groups, m)
           Left(u) == Cardinality(Group \ u)
           T == {k \in Nat : \E u \in SUBSET Group, m \in Node :
                               k = Left(u) /\ \E y : Astray(u, m, y)}
<1>1. \A u \in SUBSET Group : Left(u) \in Nat
  BY JoinAssumption, FS_Subset, FS_CardinalityType
<1> SUFFICES ASSUME T # {}
             PROVE  FALSE
  <2>1. ~ Astray(v, n, x) => x \in {n} \cup Below(groups, n)
    OBVIOUS
  <2> HIDE DEF Astray
  <2> QED BY <1>1, <2>1
<1>3. PICK k \in T : \A i \in T : ~(<<i, k>> \in OpToRel(<, Nat))
  <2>1. T \subseteq Nat
    OBVIOUS
  <2> HIDE DEF T
  <2> QED BY <2>1, NatLessThanWellFounded, WFMin
<1>4. PICK u \in SUBSET Group, m \in Node : k = Left(u) /\ \E y : Astray(u, m, y)
  OBVIOUS
<1> HIDE DEF T, Left
<1>5. PICK y : Astray(u, m, y)
  BY <1>4
<1>6. y \in w[u][m] /\ y # Failed /\ y # m
  BY <1>5
<1>7. /\ m \notin Component /\ m \notin u
      /\ \E c \in groups[m] : y \in w[u \cup {m}][c]
  BY <1>6, FoundFurther
<1>8. PICK c \in groups[m] : y \in w[u \cup {m}][c]
  BY <1>7
<1>9. m \in Group /\ c \in Node /\ u \cup {m} \in SUBSET Group
  BY <1>7 DEF Node
<1>10. Astray(u \cup {m}, c, y)
  BY <1>5, <1>8, <1>9, BelowSteps
<1>11. Left(u \cup {m}) < Left(u)
  <2>1. Group \ (u \cup {m}) = (Group \ u) \ {m} /\ m \in Group \ u
    BY <1>7, <1>9
  <2>2. IsFiniteSet(Group \ u)
    BY JoinAssumption, FS_Subset
  <2>3. Cardinality((Group \ u) \ {m}) = Cardinality(Group \ u) - 1
    BY <2>1, <2>2, FS_RemoveElement
  <2>4. Cardinality(Group \ u) \in Nat
    BY <2>2, FS_CardinalityType
  <2>5. Left(u \cup {m}) = Left(u) - 1 /\ Left(u) \in Nat
    BY <2>1, <2>3, <2>4 DEF Left
  <2> QED BY <2>5
<1> HIDE DEF Astray
<1>12. Left(u \cup {m}) \in T
  BY <1>1, <1>9, <1>10 DEF T
<1> QED BY <1>1, <1>3, <1>4, <1>9, <1>11, <1>12 DEF OpToRel

(* A walk that does not fail has found all that can be reached: of every   *)
(* node it comes to, it finds what is there and goes on to the children,   *)
(* within the groups it is in.                                             *)
LEMMA WalkReaches ==
  ASSUME NEW groups \in [Group -> SUBSET Node], NEW told \in SUBSET Group,
         NEW ref \in Node, CoverageWalk(groups, told, ref) \subseteq Component
  PROVE  /\ CoverageWalk(groups, told, ref) =
              ({ref} \cup Below(groups, ref)) \cap Component
         /\ \A g \in ({ref} \cup Below(groups, ref)) \cap Group : g \notin Below(groups, g)
<1> DEFINE all == CoverageWalk(groups, told, ref)
<1>1. PICK w : IsWalk(groups, told, w) /\ all = w[{}][ref]
  BY CoverageWalkIs
<1> DEFINE Seen(U) == {m \in Node : \E u \in SUBSET Group : U \subseteq u /\ w[u][m] \subseteq all}
<1> HIDE DEF all
<1>3. Failed \notin all /\ all \subseteq Component
  BY JoinAssumption DEF all
<1>4. ASSUME NEW g \in Group, NEW u \in SUBSET Group, w[u][g] \subseteq all
      PROVE  g \notin u /\ \A c \in groups[g] : w[u \cup {g}][c] \subseteq all
  <2>1. g \in Node /\ g \notin Component
    BY JoinAssumption DEF Node
  <2>2. w[u][g] # {Failed}
    BY <1>3, <1>4
  <2>3. g \notin u /\ g \in told
    BY <2>1, <2>2, <1>1 DEF IsWalk
  <2>4. \A y : y \in w[u][g] <=> \E c \in groups[g] : y \in w[u \cup {g}][c]
    BY <2>1, <2>3, <1>1 DEF IsWalk
  <2> QED BY <2>3, <2>4, <1>4
<1>5. ASSUME NEW U \in SUBSET Group, NEW g \in Seen(U) \cap Group
      PROVE  groups[g] \subseteq Seen(U) /\ groups[g] \subseteq Seen({g})
  <2>1. PICK u \in SUBSET Group : U \subseteq u /\ w[u][g] \subseteq all
    BY <1>5
  <2>2. \A c \in groups[g] : w[u \cup {g}][c] \subseteq all
    BY <1>4, <2>1
  <2>3. /\ u \cup {g} \in SUBSET Group /\ U \subseteq u \cup {g} /\ {g} \subseteq u \cup {g}
        /\ groups[g] \subseteq Node
    BY <2>1
  <2> QED BY <2>2, <2>3
<1>6. \A U \in SUBSET Group : ClosedUnder(groups, Seen(U))
  BY <1>5 DEF ClosedUnder
<1>7. ASSUME NEW U \in SUBSET Group, NEW n \in Group, groups[n] \subseteq Seen(U)
      PROVE  Below(groups, n) \subseteq Seen(U)
  <2>1. n \notin Component /\ Seen(U) \in SUBSET Node
    BY JoinAssumption
  <2> HIDE DEF Seen
  <2> QED BY <2>1, <1>6, <1>7 DEF Below
<1>8. {ref} \cup Below(groups, ref) \subseteq Seen({})
  <2>1. ref \in Seen({})
    BY <1>1
  <2>2. CASE ref \in Component
    BY <2>1, <2>2 DEF Below
  <2>3. CASE ref \in Group
    <3>1. groups[ref] \subseteq Seen({})
      BY <1>5, <2>1, <2>3
    <3> HIDE DEF Seen
    <3> QED BY <3>1, <2>1, <2>3, <1>7
  <2> QED BY <2>2, <2>3 DEF Node
<1>9. ASSUME NEW m \in ({ref} \cup Below(groups, ref)) \cap Component
      PROVE  m \in all
  <2>1. PICK u \in SUBSET Group : w[u][m] \subseteq all
    BY <1>8
  <2>2. w[u][m] = {m}
    BY <1>1 DEF Node, IsWalk
  <2> QED BY <2>1, <2>2
<1>10. ASSUME NEW x \in all
       PROVE  x \in ({ref} \cup Below(groups, ref)) \cap Component
  BY <1>1, <1>3, WalkStaysBelow
<1>11. ASSUME NEW g \in ({ref} \cup Below(groups, ref)) \cap Group, g \in Below(groups, g)
       PROVE  FALSE
  <2>1. groups[g] \subseteq Seen({g})
    <3>1. {} \in SUBSET Group /\ g \in Seen({}) \cap Group
      BY <1>8
    <3> HIDE DEF Seen
    <3> QED BY <3>1, <1>5
  <2>2. g \in Seen({g})
    <3> HIDE DEF Seen
    <3> QED BY <2>1, <1>7, <1>11
  <2>3. PICK u \in SUBSET Group : {g} \subseteq u /\ w[u][g] \subseteq all
    BY <2>2
  <2> QED BY <1>4, <2>3
<1> QED BY <1>9, <1>10, <1>11 DEF all

-----------------------------------------------------------------------------
(* What was found of the last reference is kept until the bundle is looked *)
(* at.                                                                     *)
CoverInv ==
  /\ CoverageIsReachability
  /\ sem.root # Nowhere => stage = "bundle" \/ (stage = "coverage" /\ at > 1)

(* A reference that is accepted was walked to the end. *)
LEMMA ObligationCovers ==
  ASSUME JoinInv, ValidateObligation, ~Reject
  PROVE  CoverInv'
<1>1. /\ stage = "coverage" /\ at \in 1 .. Len(Obligations)
      /\ sem \in [inputs : SUBSET Input, needs : [Obligation -> SUBSET Input],
                  cover : [Obligation -> SUBSET Component],
                  graph : [Group -> SUBSET Node], root : Node \cup {Nowhere}]
  BY DEF ValidateObligation, JoinInv, TurnOK, JoinTypeOK
<1>2. PICK ref \in Node, told \in SUBSET Group, required \in SUBSET sem.inputs :
        /\ CoverageWalk(sem.graph, told, ref) \subseteq Component
        /\ sem' = [sem EXCEPT !.needs[Obligations[at]] = required,
                              !.cover[Obligations[at]] = CoverageWalk(sem.graph, told, ref),
                              !.root = ref]
        /\ Advance(Len(Obligations), "bundle")
  BY Zenon DEF ValidateObligation, OrReject
<1>3. PICK o \in Obligation : o = Obligations[at]
  BY <1>1, ObligationsAre
<1>4. PICK graph \in [Group -> SUBSET Node] : graph = sem.graph
  BY <1>1
<1>5. PICK found \in SUBSET Component : found = CoverageWalk(graph, told, ref)
  BY <1>2, <1>4
<1>6. sem'.cover[o] = found /\ sem'.root = ref /\ sem'.graph = graph
  BY <1>1, <1>2, <1>3, <1>4, <1>5
<1>7. /\ found = ({ref} \cup Below(graph, ref)) \cap Component
      /\ \A g \in ({ref} \cup Below(graph, ref)) \cap Group : g \notin Below(graph, g)
  BY <1>5, WalkReaches
<1>8. \/ stage' = "coverage" /\ at' > 1 /\ at' - 1 = at
      \/ stage' = "bundle" /\ at = Len(Obligations)
  BY <1>1, <1>2, ObligationsAre, AdvanceMoves
<1>9. o = IF stage' = "coverage" THEN Obligations[at' - 1] ELSE Obligations[Len(Obligations)]
  BY <1>3, <1>8
<1>10. CoverageIsReachability'
  BY <1>6, <1>7, <1>9, Zenon DEF CoverageIsReachability
<1> QED
  BY <1>8, <1>10 DEF CoverInv

(* Before and after, no reference is kept. *)
LEMMA NoReference ==
  ASSUME sem'.root = Nowhere
  PROVE  CoverInv'
BY DEF CoverInv, CoverageIsReachability

LEMMA LeaveCovers ==
  ASSUME NEW how, Leave(how)
  PROVE  CoverInv'
<1>1. sem'.root = Nowhere
  BY DEF Leave, NoSemantics
<1> QED
  BY <1>1, NoReference

LEMMA JoinCovers ==
  ASSUME JoinInv, CoverInv, JoinWork
  PROVE  CoverInv'
<1>0. sem \in [inputs : SUBSET Input, needs : [Obligation -> SUBSET Input],
               cover : [Obligation -> SUBSET Component],
               graph : [Group -> SUBSET Node], root : Node \cup {Nowhere}]
  BY DEF JoinInv, JoinTypeOK
<1>1. Reject \/ Leave("canceled") \/ Leave("unreachable") \/ Leave("plan") => CoverInv'
  BY LeaveCovers DEF Reject
<1>2. stage \notin {"coverage", "bundle"} => sem.root = Nowhere
  BY DEF CoverInv
<1>3. stage \notin {"coverage", "bundle"} /\ sem' = sem => CoverInv'
  BY <1>2, NoReference
<1>4. CASE FetchResult
  BY <1>1, <1>3, <1>4 DEF FetchResult, OrReject
<1>5. CASE ValidateSemantics
  <2>1. ASSUME NEW i, NEW g, sem' = [sem EXCEPT !.inputs = i, !.graph = g]
        PROVE  sem'.root = sem.root
    BY <1>0, <2>1
  <2> QED
    BY <1>1, <1>2, <1>5, <2>1, NoReference DEF ValidateSemantics, OrReject
<1>6. CASE ValidateObligation
  BY <1>1, <1>6, ObligationCovers
<1>7. CASE ValidateBundle
  <2>1. sem' = [sem EXCEPT !.graph = NoSemantics.graph, !.root = Nowhere] =>
          sem'.root = Nowhere
    BY <1>0
  <2> QED
    BY <1>1, <1>7, <2>1, NoReference DEF ValidateBundle, OrReject
<1>8. CASE ValidateMapping \/ ValidateMitigation
  BY <1>1, <1>3, <1>8 DEF ValidateMapping, ValidateMitigation, OrReject
<1>9. CASE ValidateCases \/ ValidateCampaign
  <2>1. stage \notin {"coverage", "bundle"} /\ (Reject \/ sem' = sem)
    BY <1>9, Zenon DEF ValidateCases, ValidateCampaign, OrReject
  <2> QED
    BY <1>1, <1>3, <2>1
<1>10. CASE ValidateBypass \/ ValidateTotals
  BY <1>1, <1>3, <1>10 DEF ValidateBypass, ValidateTotals, OrReject, joinData
<1>11. CASE HandOver
  BY <1>1, <1>11 DEF HandOver
<1> QED
  BY <1>4, <1>5, <1>6, <1>7, <1>8, <1>9, <1>10, <1>11 DEF JoinWork

LEMMA CoverStep == EvidenceInv /\ CoverInv /\ [Next]_vars => CoverInv'
<1> SUFFICES ASSUME EvidenceInv, CoverInv, [Next]_vars PROVE CoverInv'
  OBVIOUS
<1>1. CASE VerifyFourResults
  BY <1>1, JoinCovers DEF VerifyFourResults, EvidenceInv
<1>2. CASE ResolveProofLoop \/ BuildPlan
  <2>1. stage \notin {"coverage", "bundle"} /\ sem' = sem
    BY <1>2, LoopMoves, PlanMoves
       DEF ResolveProofLoop, BuildPlan, LoopStage, PlanStage, joinData
  <2> QED
    BY <2>1, NoReference DEF CoverInv
<1>3. CASE Cancel \/ UNCHANGED vars
  <2>1. stage' = stage /\ at' = at /\ sem' = sem
    BY <1>3 DEF Cancel, SetSignal, vars, control, joinData
  <2> QED
    BY <2>1 DEF CoverInv, CoverageIsReachability
<1> QED
  BY <1>1, <1>2, <1>3 DEF Next, Done

(* An obligation covers exactly the components that can be reached from    *)
(* the reference it gives, and _coverage_members accepts no reference from *)
(* which a cycle can be reached, for any finite coverage groups.           *)
THEOREM EvidenceCoverageIsReachability == Spec => []CoverageIsReachability
<1>1. Init => CoverInv
  <2>1. Init => sem.root = Nowhere
    BY DEF Init, JoinInit, NoSemantics
  <2> QED
    BY <2>1 DEF CoverInv, CoverageIsReachability
<1>2. CoverInv => CoverageIsReachability
  BY DEF CoverInv
<1> QED
  BY <1>1, <1>2, CoverStep, EvidenceInvariant, PTL DEF Spec

-----------------------------------------------------------------------------
(* Why a resolution ends.                                                  *)

(* The stages in the order of the code; the end comes last. *)
Order(s) ==
  CASE s = "begin" -> 1
    [] s = "fetch" -> 2
    [] s = "lineage" -> 3
    [] s \in {"subject", "agreement"} -> 4
    [] s = "promote" -> 5
    [] s = "join" -> 6
    [] s = "semantics" -> 7
    [] s = "coverage" -> 8
    [] s = "bundle" -> 9
    [] s = "mapping" -> 10
    [] s = "mitigation" -> 11
    [] s = "cases" -> 12
    [] s = "bypass" -> 13
    [] s = "campaign" -> 14
    [] s = "totals" -> 15
    [] s = "verified" -> 16
    [] s = "plan" -> 17
    [] s = "document" -> 18
    [] s = "emit" -> 19
    [] OTHER -> 20

(* To a later stage, or to the next turn of a loop. *)
Onward ==
  \/ Order(stage) < Order(stage')
  \/ stage' = stage /\ at' = at + 1

(* No step of the proof loop, the join or the plan goes back to a stage    *)
(* that was left or repeats a turn, and no loop has more turns than items: *)
(* a resolution has as many steps as its stages have turns, at most.       *)
ResolutionGoesOnward ==
  [][ResolveProofLoop \/ VerifyFourResults \/ BuildPlan
       => Onward /\ at' <= Turns(stage')]_vars

LEMMA GotoOnward ==
  ASSUME NEW next, Goto(next), Order(stage) < Order(next)
  PROVE  Onward
BY DEF Goto, Onward

LEMMA AdvanceOnward ==
  ASSUME NEW last, NEW next, Advance(last, next), Order(stage) < Order(next)
  PROVE  Onward
BY DEF Advance, Goto, Onward

(* An end is later than everything else. *)
LEMMA EndIsLast ==
  /\ \A s \in LoopStage \cup JoinStage \cup PlanStage : Order(s) < 20
  /\ \A s \in {"refused", "canceled", "resolved", "rejected", "unreachable", "planned",
               "inexpressible"} : Order(s) = 20
<1>1. \A s \in LoopStage \cup PlanStage : Order(s) < 20
  BY DEF LoopStage, PlanStage, Order
<1>2. \A s \in JoinStage : Order(s) < 20
  BY PastIs DEF JoinStage, Order
<1>3. \A s \in {"refused", "canceled", "resolved", "rejected", "unreachable", "planned",
                "inexpressible"} : Order(s) = 20
  BY DEF Order
<1> QED
  BY <1>1, <1>2, <1>3

LEMMA LoopOnward == LoopWork => Onward
<1> SUFFICES ASSUME LoopWork PROVE Onward
  OBVIOUS
<1>1. Order(stage) < 20
  BY LoopMoves, EndIsLast
<1>2. Refuse \/ Goto("canceled") \/ Goto("resolved") => Onward
  BY <1>1, EndIsLast, GotoOnward DEF Refuse
<1>3. CASE Begin
  <2>1. stage = "begin" /\ (Refuse \/ Goto("canceled") \/ Goto("fetch"))
    BY <1>3 DEF Begin, Unless
  <2>2. Order("begin") < Order("fetch")
    BY DEF Order
  <2> QED
    BY <1>2, <2>1, <2>2, GotoOnward
<1>4. CASE FetchRecord
  <2>1. stage = "fetch" /\ (Refuse \/ Goto("canceled") \/ Advance(Len(Roles), "lineage"))
    BY <1>4 DEF FetchRecord, Unless
  <2>2. Order("fetch") < Order("lineage")
    BY DEF Order
  <2> QED
    BY <1>2, <2>1, <2>2, AdvanceOnward
<1>5. CASE CompareLineage
  <2>1. /\ stage = "lineage"
        /\ \/ Refuse \/ Goto("canceled")
           \/ Advance(Len(Roles), IF call.subject THEN "subject" ELSE "agreement")
    BY <1>5 DEF CompareLineage, Unless
  <2>2. Order("lineage") < Order(IF call.subject THEN "subject" ELSE "agreement")
    BY DEF Order
  <2> QED
    BY <1>2, <2>1, <2>2, AdvanceOnward
<1>6. CASE CompareSubject \/ CompareAgreement
  <2>1. /\ stage \in {"subject", "agreement"}
        /\ Refuse \/ Advance(Len(Roles), "promote")
    BY <1>6 DEF CompareSubject, CompareAgreement, Name
  <2>2. Order(stage) < Order("promote")
    BY <2>1 DEF Order
  <2> QED
    BY <1>2, <2>1, <2>2, AdvanceOnward
<1>7. CASE Promote
  BY <1>2, <1>7 DEF Promote, Unless
<1> QED
  BY <1>3, <1>4, <1>5, <1>6, <1>7 DEF LoopWork

LEMMA JoinOnward == JoinWork => Onward
<1> SUFFICES ASSUME JoinWork PROVE Onward
  OBVIOUS
<1>1. Order(stage) < 20
  BY JoinMoves, EndIsLast
<1>2. Leave("canceled") \/ Leave("unreachable") \/ Reject => Onward
  BY <1>1, EndIsLast, GotoOnward DEF Leave, Reject
<1>3. /\ Order("join") < Order("semantics") /\ Order("semantics") < Order("coverage")
      /\ Order("coverage") < Order("bundle") /\ Order("bundle") < Order("mapping")
      /\ Order("mapping") < Order("mitigation") /\ Order("mitigation") < Order("cases")
      /\ Order("cases") < Order("bypass") /\ Order("bypass") < Order("campaign")
      /\ Order("campaign") < Order("totals") /\ Order("totals") < Order("verified")
      /\ Order("verified") < Order("plan")
  BY DEF Order
<1>4. CASE FetchResult
  <2>1. /\ stage = "join"
        /\ \/ Leave("canceled") \/ Leave("unreachable") \/ Reject
           \/ Advance(Len(Fetches), "semantics")
    BY <1>4 DEF FetchResult, OrReject
  <2> QED
    BY <1>2, <1>3, <2>1, AdvanceOnward
<1>5. CASE ValidateSemantics
  <2>1. stage = "semantics" /\ (Leave("canceled") \/ Reject \/ Goto("coverage"))
    BY <1>5 DEF ValidateSemantics, OrReject
  <2> QED
    BY <1>2, <1>3, <2>1, GotoOnward
<1>6. CASE ValidateObligation
  <2>1. stage = "coverage" /\ (Reject \/ Advance(Len(Obligations), "bundle"))
    BY <1>6, Zenon DEF ValidateObligation, OrReject
  <2> QED
    BY <1>2, <1>3, <2>1, AdvanceOnward
<1>7. CASE ValidateBundle
  <2>1. stage = "bundle" /\ (Reject \/ Goto("mapping"))
    BY <1>7 DEF ValidateBundle, OrReject
  <2> QED
    BY <1>2, <1>3, <2>1, GotoOnward
<1>8. CASE ValidateMapping
  <2>1. stage = "mapping" /\ (Reject \/ Advance(Len(Obligations), "mitigation"))
    BY <1>8 DEF ValidateMapping, OrReject
  <2> QED
    BY <1>2, <1>3, <2>1, AdvanceOnward
<1>9. CASE ValidateMitigation
  <2>1. stage = "mitigation" /\ (Reject \/ Goto("cases"))
    BY <1>9 DEF ValidateMitigation, OrReject
  <2> QED
    BY <1>2, <1>3, <2>1, GotoOnward
<1>10. CASE ValidateCases
  <2>1. stage = "cases" /\ (Reject \/ Advance(Len(Obligations), "bypass"))
    BY <1>10, Zenon DEF ValidateCases, OrReject
  <2> QED
    BY <1>2, <1>3, <2>1, AdvanceOnward
<1>11. CASE ValidateBypass
  <2>1. stage = "bypass" /\ (Reject \/ Goto("campaign"))
    BY <1>11 DEF ValidateBypass, OrReject
  <2> QED
    BY <1>2, <1>3, <2>1, GotoOnward
<1>12. CASE ValidateCampaign
  <2>1. stage = "campaign" /\ (Reject \/ Advance(Len(Obligations), "totals"))
    BY <1>12, Zenon DEF ValidateCampaign, OrReject
  <2> QED
    BY <1>2, <1>3, <2>1, AdvanceOnward
<1>13. CASE ValidateTotals
  <2>1. stage = "totals" /\ (Reject \/ Goto("verified"))
    BY <1>13 DEF ValidateTotals, OrReject
  <2> QED
    BY <1>2, <1>3, <2>1, GotoOnward
<1>14. CASE HandOver
  <2>1. stage = "verified" /\ (Leave("canceled") \/ Goto("plan"))
    BY <1>14 DEF HandOver, Leave
  <2> QED
    BY <1>2, <1>3, <2>1, GotoOnward
<1> QED
  BY <1>4, <1>5, <1>6, <1>7, <1>8, <1>9, <1>10, <1>11, <1>12, <1>13, <1>14 DEF JoinWork

LEMMA PlanOnward == PlanWork => Onward
<1> SUFFICES ASSUME PlanWork PROVE Onward
  OBVIOUS
<1>1. Order(stage) < 20
  BY PlanMoves, EndIsLast
<1>2. \A how \in {"inexpressible", "rejected"} : NothingEmitted(how) => Onward
  BY <1>1, EndIsLast, GotoOnward DEF NothingEmitted
<1>3. Order("plan") < Order("document") /\ Order("document") < Order("emit")
  BY DEF Order
<1>4. CASE BeginPlan
  <2>1. /\ stage = "plan"
        /\ NothingEmitted("inexpressible") \/ NothingEmitted("rejected") \/ Goto("document")
    BY <1>4 DEF BeginPlan, OrNothing
  <2> QED
    BY <1>2, <1>3, <2>1, GotoOnward
<1>5. CASE TranslateDocument
  <2>1. /\ stage = "document"
        /\ \/ NothingEmitted("inexpressible") \/ NothingEmitted("rejected")
           \/ Advance(Documents, "emit")
    BY <1>5 DEF TranslateDocument, OrNothing
  <2> QED
    BY <1>2, <1>3, <2>1, AdvanceOnward
<1>6. CASE EmitPlan
  <2>1. NothingEmitted("inexpressible") \/ NothingEmitted("rejected") \/ Goto("planned")
    BY <1>6 DEF EmitPlan, OrNothing
  <2> QED
    BY <1>1, <1>2, <2>1, EndIsLast, GotoOnward
<1> QED
  BY <1>4, <1>5, <1>6 DEF PlanWork

(* Both resolutions go through their stages once, in order, and through    *)
(* each loop item by item, whatever the rows, documents and results say:   *)
(* there is nothing in the evidence that could keep them busy forever.     *)
THEOREM EvidenceGoesOnward == Spec => ResolutionGoesOnward
<1> DEFINE Work == ResolveProofLoop \/ VerifyFourResults \/ BuildPlan
           A == Work => Onward /\ at' <= Turns(stage')
<1>1. Work => Onward
  BY LoopOnward, JoinOnward, PlanOnward DEF ResolveProofLoop, VerifyFourResults, BuildPlan
<1>2. EvidenceTypeOK' => at' <= Turns(stage')
  <2>1. \A s : Turns(s) \in Nat
    BY RolesAre, FetchesAre, ObligationsAre, PlanAssumption DEF Turns
  <2> QED
    BY <2>1 DEF EvidenceTypeOK
<1>3. EvidenceTypeOK' /\ [Next]_vars => [A]_vars
  BY <1>1, <1>2
<1> QED
  BY <1>3, EvidenceTypeCorrect, PTL DEF Spec, ResolutionGoesOnward
=============================================================================
