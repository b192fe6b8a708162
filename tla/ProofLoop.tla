----------------------------- MODULE ProofLoop -----------------------------
(***************************************************************************)
(* resolve_proof_loop of upstream.py: the three results of a proof loop    *)
(* are fetched one after the other, their lineage is compared with the     *)
(* request and with each other, and what they prove is promoted into a     *)
(* pattern.  The cancellation signal may be set at any time.               *)
(*                                                                         *)
(* A document is abstracted to the identifiers found in it.  Each stage    *)
(* reads parts of a document no other stage reads, so a part is chosen by  *)
(* the stage that reads it.                                                *)
(***************************************************************************)
EXTENDS Naturals, Sequences, FiniteSets, UpstreamFetch

CONSTANTS Id,    \* identifiers found in documents
          Ours   \* the ones the request names

ASSUME OursAssumption == Ours \in Id

VARIABLES call,     \* the request
          record,   \* what was fetched for each role
          named,    \* the identifiers unambiguously named so far
          cleared   \* bypass_cleared of the qualification

loopData == <<call, record, named, cleared>>
loopVars == <<control, loopData>>

-----------------------------------------------------------------------------
Roles == <<"defense", "mitigation", "bypass">>
Role == {"defense", "mitigation", "bypass"}

State == {"candidate-produced", "blocked", "no-bypass-found", "bypass-found",
          "other"}

(* ProofLoopRoutingMetadata.validate_route: a bypass is accepted only from *)
(* an exhausted loop.  direct: the caller wrote the references; plain and  *)
(* strict: they are those of three OrchestrationUpstreamInputs, which also *)
(* need a correlation and a subject; lab: they are strict locators of      *)
(* Workflow Lab.                                                           *)
Call ==
  {c \in [mode : {"direct", "plain", "strict", "lab"}, correlation : BOOLEAN,
          subject : BOOLEAN, revision : BOOLEAN,
          bypass : {"no-bypass-found", "bypass-found"}, exhausted : BOOLEAN] :
     /\ c.mode # "direct" => c.correlation /\ c.subject
     /\ c.exhausted <=> c.bypass = "bypass-found"}

(* Only strict locators are passed on to the resolver. *)
KindOf(c) == IF c.mode = "strict" THEN "strict" ELSE "none"

ReferencesOf(c, role) == IF c.mode = "direct" THEN Reference ELSE {LocatedAt(role)}

(* What the resolver of the request's execution plane may hand over. *)
Resolvable(c, role) ==
  IF c.mode = "lab" THEN LabDelivered
  ELSE UNION {Delivered[ref.prefix][KindOf(c)] :
                ref \in {q \in ReferencesOf(c, role) : Readable(q, KindOf(c))}}

RequiredState(c) ==
  [defense |-> "candidate-produced", mitigation |-> "blocked", bypass |-> c.bypass]

NoRecord == [capability |-> "none", contract |-> "other", content |-> "other",
             state |-> "other"]

Key == {"correlation", "revision", "vulnerability", "candidate"}

LoopInit ==
  /\ call \in Call
  /\ record = [role \in Role |-> NoRecord]
  /\ named = [key \in Key |-> {}]
  /\ cleared = FALSE

-----------------------------------------------------------------------------
Refuse == Goto("refused") /\ UNCHANGED loopData

Regardless(step) == step  \* faulty variant: nobody looks at the signal

(* check_cancelled raises, or the step is taken. *)
Unless(step) == IF signal THEN Goto("canceled") /\ UNCHANGED loopData ELSE step

(* _one_value, _find_one: what a document names when it names one thing. *)
OneValue(found) == IF Cardinality(found) = 1 THEN found ELSE {}

Begin ==
  /\ stage = "begin"
  /\ Unless(IF call.correlation /\ (call.revision \/ call.subject)
            THEN Goto("fetch") /\ UNCHANGED loopData
            ELSE Refuse)

DefenseByName(role, r) ==  \* faulty variant: one contract is not compared
  /\ r.capability \in {role, "none"}
  /\ role = "defense" \/ r.contract \in (ContractsOf[role] \ {"bypass@2.0"}) \cup {"none"}

(* _validate_record_identity: the record is judged by the role it is given *)
(* for, fetch has judged it by the prefix of its key.                      *)
ValidRecordIdentity(role, r) ==
  /\ r.capability \in {role, "none"}
  /\ r.contract \in (ContractsOf[role] \ {"bypass@2.0"}) \cup {"none"}

StateRequired(c, role, state) == state = RequiredState(c)[role]

(* One turn of the fetch loop.  Transport faults, absent rows and several  *)
(* rows are refusals; the signal set during the read is seen after it.     *)
FetchRecord ==
  /\ stage = "fetch"
  /\ LET role == Roles[at] IN
     Unless(\/ Refuse
            \/ \E r \in Resolvable(call, role), s \in State :
                 /\ StateRequired(call, role, s)
                 /\ ValidRecordIdentity(role, r)
                 /\ record' = [record EXCEPT ![role] =
                      [capability |-> r.capability, contract |-> r.contract,
                       content |-> r.content, state |-> s]]
                 /\ Advance(Len(Roles), "lineage")
                 /\ UNCHANGED <<call, named, cleared>>)

(* The lineage loop.  A document that names none or several is accepted    *)
(* only when the request binds a subject.                                  *)
LineageHolds(c, corr, rev) ==
  /\ corr \subseteq {Ours}
  /\ c.revision => rev \subseteq {Ours}
  /\ c.subject \/ (corr # {} /\ rev # {})

(* Documents whose correlation was compared with a strict locator hold it. *)
FoundIn(role) ==
  IF call.mode = "strict" /\ role # "bypass"
  THEN {found \in SUBSET Id : Ours \in found} ELSE SUBSET Id

CompareLineage ==
  /\ stage = "lineage"
  /\ Unless(\E c \in FoundIn(Roles[at]), v \in SUBSET Id :
              LET corr == OneValue(c)
                  rev == OneValue(v)
              IN IF LineageHolds(call, corr, rev)
                 THEN /\ named' = [named EXCEPT !["correlation"] = @ \cup corr,
                                               !["revision"] = @ \cup rev]
                      /\ Advance(Len(Roles), IF call.subject THEN "subject" ELSE "agreement")
                      /\ UNCHANGED <<call, record, cleared>>
                 ELSE Refuse)

Name(vuln, cand, next) ==
  /\ named' = [named EXCEPT !["vulnerability"] = @ \cup vuln, !["candidate"] = @ \cup cand]
  /\ Advance(Len(Roles), next)
  /\ UNCHANGED <<call, record, cleared>>

AtMostOne == {{}} \cup {{i} : i \in Id}

AnySubject(role, vuln, cand) ==  \* faulty variant: only Defense Generation is compared
  role = "defense" => vuln = {Ours} /\ cand = {Ours}

(* With a subject: _role_vulnerability_id and _role_candidate_id.  Defense *)
(* Generation names both: the primary candidate's, for the vulnerability   *)
(* also the request's or the only one found.  Mitigation Check may name    *)
(* each.  Bypass Validation names the vulnerability, or instead the source *)
(* candidate in the same field, or none.                                   *)
SubjectHolds(role, vuln, cand) ==
  /\ vuln \subseteq {Ours} /\ cand \subseteq {Ours}
  /\ role = "defense" => vuln # {} /\ cand # {}

CompareSubject ==
  /\ stage = "subject"
  /\ \E vuln, cand \in AtMostOne :
       IF SubjectHolds(Roles[at], vuln, cand) THEN Name(vuln, cand, "promote")
       ELSE Refuse

(* Without one the three documents name one vulnerability and one          *)
(* candidate, the same in all.                                             *)
CompareAgreement ==
  /\ stage = "agreement"
  /\ \E v, c \in SUBSET Id :
       LET vuln == OneValue(v)
           cand == OneValue(c)
       IN IF /\ vuln # {} /\ cand # {}
             /\ Cardinality(named["vulnerability"] \cup vuln) = 1
             /\ Cardinality(named["candidate"] \cup cand) = 1
          THEN Name(vuln, cand, "promote") ELSE Refuse

(* The pattern needs four strings of the primary candidate; a malformed    *)
(* counterexample is refused.                                              *)
Promote ==
  /\ stage = "promote"
  /\ \/ Refuse
     \/ Unless(/\ Goto("resolved")
               /\ cleared' = (call.bypass = "no-bypass-found")
               /\ UNCHANGED <<call, record, named>>)

LoopWork ==
  Begin \/ FetchRecord \/ CompareLineage \/ CompareSubject \/ CompareAgreement \/ Promote

-----------------------------------------------------------------------------
LoopTypeOK ==
  /\ call \in Call
  /\ record \in [Role -> [capability : Shape \cup {"none"}, contract : Contract,
                          content : {"pinned", "other"}, state : State]]
  /\ named \in [Key -> SUBSET Id]
  /\ cleared \in BOOLEAN

(* A pattern is promoted only when no two of the three documents           *)
(* unambiguously name different correlations, vulnerabilities or           *)
(* candidates (and subject revisions, when the request gives one), they    *)
(* name those of the request where it names some, and some document names  *)
(* the vulnerability and the candidate.  Every loop of resolve_proof_loop  *)
(* has a part in it.                                                       *)
ResolvedLineageIsOne ==
  stage = "resolved" =>
    /\ named["correlation"] \subseteq {Ours}
    /\ call.revision => named["revision"] \subseteq {Ours}
    /\ Cardinality(named["vulnerability"]) = 1 /\ Cardinality(named["candidate"]) = 1
    /\ call.subject => named["vulnerability"] = {Ours} /\ named["candidate"] = {Ours}

(* The three records of a resolved loop come from the three producers,     *)
(* although fetch looks only at the prefix of a key the caller may have    *)
(* put into any of the three places: none names another producer or        *)
(* contract, and one that leaves a name out is Bypass Validation's, told   *)
(* by its contract, or is pinned by a locator of Workflow Lab.             *)
RecordsAreTheProducers ==
  stage = "resolved" =>
    \A role \in Role :
      LET r == record[role] IN
      /\ r.capability = role
         \/ (r.capability = "none" /\ (role = "bypass" \/ call.mode = "lab"))
      /\ r.contract \in ContractsOf[role]
         \/ (r.contract = "none" /\ call.mode = "lab")

(* With strict locators, of either plane, the content of all three records *)
(* is what the orchestrator's digests name: a row rewritten after its      *)
(* completion, and consistent in itself, is not used.                      *)
StrictIsPinned ==
  stage = "resolved" /\ call.mode \in {"strict", "lab"} =>
    \A role \in Role : record[role].content = "pinned"

(* A pattern is called bypass-cleared exactly when the record of Bypass    *)
(* Validation that was read says that no bypass was found, and the loop    *)
(* was not exhausted: the qualification is taken from the request, and so, *)
(* on the Lab plane, is the state of the record.                           *)
ClearedMeansNoBypass ==
  stage = "resolved" =>
    (cleared <=> record["bypass"].state = "no-bypass-found" /\ ~call.exhausted)

(* A resolved loop rests on genuine records: of the right producers, of    *)
(* the content that was pinned, and saying what is claimed of them.        *)
RecordsAreGenuine ==
  RecordsAreTheProducers /\ StrictIsPinned /\ ClearedMeansNoBypass

(* Once the signal is set no further record is taken in, and nothing is    *)
(* promoted: check_cancelled stands before and after each read.            *)
SignalStopsTheLoop ==
  [][signal => record' = record /\ (stage' = "resolved" => stage = "resolved")]_loopVars
=============================================================================
