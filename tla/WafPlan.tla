------------------------------ MODULE WafPlan ------------------------------
(***************************************************************************)
(* build_waf_translation_plan of shared_contracts_v2.py: the artifacts of  *)
(* a verified candidate are translated, in order, into one set of Akamai   *)
(* rules, or nothing is emitted.                                           *)
(*                                                                         *)
(* A rule set of Defense Generation asks for alternatives: sets of         *)
(* components that must all be present in a request.  An alternative may   *)
(* be bound to the route of the test inputs it was proven with.  What the  *)
(* planner reads of the semantics is chosen when it starts, and each       *)
(* document when it is translated.                                         *)
(***************************************************************************)
EXTENDS FourResultJoin

CONSTANTS LocationOf, \* the kind of location of each component
          Documents   \* how many artifacts the candidate has: a bound

ASSUME PlanAssumption ==
  /\ LocationOf \in [Component -> {"query", "header", "path", "body"}]
  /\ Documents \in Nat \ {0}

VARIABLE plan   \* what was read of the semantics, and what is translated so far

-----------------------------------------------------------------------------
(* A template input has an opaque path key and perhaps a path payload; a   *)
(* rendered request has its path and no payload of its own.                *)
Route == {"opaque", "rendered"}
NoPayload == "none"
Payload == {NoPayload, "p1", "p2"}
Anywhere == "anywhere"

InputFact ==
  {f \in [route : Route \cup {"unrouted"}, payload : Payload] :
     f.payload # NoPayload => f.route = "opaque"}

(* A carrier is the component a rule or a binding is for, and how it       *)
(* spells its selector.                                                    *)
Carrier == Component \X {"exact", "folded"}

(* of: the alternative it was made from; needs: the components that have a *)
(* condition; path: the payload the exact path condition ends with.        *)
Rule == [of : SUBSET Component, needs : SUBSET Component,
         route : Route \cup {Anywhere}, path : Payload \cup {Anywhere}]

(* asked: the alternatives of the documents so far. *)
NoPlan == [inputs |-> [i \in Input |-> [route |-> "unrouted", payload |-> NoPayload]],
           reads |-> [c \in Component |-> {}],
           asked |-> {}, rules |-> {}, ruled |-> {}, bound |-> {}]

PlanInit == plan = NoPlan

(* cannot-express becomes a result, another code of SharedContractV2Error  *)
(* is raised; in both cases nothing of the plan remains.                   *)
NothingEmitted(how) == Goto(how) /\ plan' = NoPlan

OrNothing(accepted) ==
  NothingEmitted("inexpressible") \/ NothingEmitted("rejected") \/ accepted

BeginPlan ==
  /\ stage = "plan"
  /\ OrNothing(\E inputs \in [Input -> InputFact], reads \in [Component -> SUBSET Input] :
                 /\ plan' = [NoPlan EXCEPT !.inputs = inputs, !.reads = reads]
                 /\ Goto("document"))

-----------------------------------------------------------------------------
(* _semantic_carrier and _same_carrier_binding: only the name of a header  *)
(* is compared without its case.                                           *)
SameCarrierBinding(k) == k[2] = "exact" \/ LocationOf[k[1]] = "header"

(* The loop over the rules: one for each component.  (Patterns, flags and  *)
(* transformations are copied.)                                            *)
RulesExpressible(rules) ==
  /\ rules # {}
  /\ \A k \in rules : SameCarrierBinding(k)
  /\ \A k, l \in rules : k[1] = l[1] => k = l

PathComponents(of) == {c \in of : LocationOf[c] = "path"}

(* The inputs a component was seen in, on a route. *)
ExpectedRefs(c, route) ==
  {i \in plan.reads[c] : plan.inputs[i].route = route}

PathPayloads(of, route) ==
  {plan.inputs[i].payload :
     i \in UNION {ExpectedRefs(c, route) : c \in PathComponents(of)}} \ {NoPayload}

(* A binding that names other inputs than these is refused, and so is a    *)
(* path component of a template whose path is not given.                   *)
AlternativeHolds(of, route) ==
  \A c \in of :
    /\ ExpectedRefs(c, route) # {}
    /\ c \in PathComponents(of) /\ route = "opaque" =>
         \A i \in ExpectedRefs(c, route) : plan.inputs[i].payload # NoPayload

OneVariant(of, route) ==  \* faulty variant: one of the path payloads is kept
  LET payloads == PathPayloads(of, route)
  IN {[of |-> of, needs |-> of \ PathComponents(of), route |-> route,
       path |-> IF payloads = {} THEN NoPayload ELSE CHOOSE p \in payloads : TRUE]}

(* A route-bound alternative: the route becomes exact conditions on path   *)
(* and method, which take the place of the path components; one rule for   *)
(* each path payload.                                                      *)
Variants(of, route) ==
  LET payloads == PathPayloads(of, route)
  IN {[of |-> of, needs |-> of \ PathComponents(of), route |-> route, path |-> p] :
        p \in IF payloads = {} THEN {NoPayload} ELSE payloads}

IndependentRule(of) ==
  [of |-> of, needs |-> of, route |-> Anywhere, path |-> Anywhere]

PlacesEverything(coverage, placed) == {b[1] : b \in placed} = coverage

(* _translate_rule_document. *)
TranslateRules ==
  \E rules \in SUBSET Carrier, coverage \in SUBSET (SUBSET Component \ {{}}) :
    LET ruled == {k[1] : k \in rules}
    IN /\ RulesExpressible(rules)
       /\ coverage # {} /\ UNION coverage \subseteq ruled
       /\ \E emitted \in
               {{IndependentRule(of) : of \in coverage}} \cup
               {UNION {Variants(b[1], b[2]) : b \in placed} :
                  placed \in {p \in SUBSET (coverage \X Route) :
                                /\ PlacesEverything(coverage, p)
                                /\ \A b \in p : AlternativeHolds(b[1], b[2])}} :
            plan' = [plan EXCEPT !.asked = @ \cup coverage, !.rules = @ \cup emitted,
                                 !.ruled = @ \cup rules]

(* _translate_carrier_document.  (A binding of a component the semantics   *)
(* do not have is translated, and makes the comparison at the end fail.)   *)
TranslateBindings ==
  \E bindings \in SUBSET Carrier :
    /\ bindings # {}
    /\ \A k \in bindings : SameCarrierBinding(k)
    /\ plan' = [plan EXCEPT !.bound = @ \cup bindings]

TranslateDocument ==
  /\ stage = "document"
  /\ OrNothing(/\ TranslateRules \/ TranslateBindings
               /\ Advance(Documents, "emit"))

(* The comparison of the carriers, the syntax of every rule, and the       *)
(* directives and obligations that must refer to what is emitted.          *)
EmitPlan ==
  /\ stage = "emit"
  /\ OrNothing(/\ plan.rules # {} /\ plan.bound = plan.ruled
               /\ Goto("planned") /\ UNCHANGED plan)

PlanWork == BeginPlan \/ TranslateDocument \/ EmitPlan

-----------------------------------------------------------------------------
PlanTypeOK ==
  plan \in [inputs : [Input -> InputFact], reads : [Component -> SUBSET Input],
            asked : SUBSET SUBSET Component, rules : SUBSET Rule,
            ruled : SUBSET Carrier, bound : SUBSET Carrier]

(* The request a test input stands for. *)
RequestOf(i) ==
  [route |-> plan.inputs[i].route, payload |-> plan.inputs[i].payload,
   hits |-> {c \in Component : i \in plan.reads[c]}]

Matches(rule, q) ==
  /\ rule.needs \subseteq q.hits
  /\ rule.route \in {Anywhere, q.route}
  /\ rule.path \in {Anywhere, q.payload}

(* An emitted plan matches the test inputs: an input in which all          *)
(* components of a translated alternative were seen is matched by a rule   *)
(* made from it, if the alternative is not bound to other routes.  (An     *)
(* input with a path payload is matched only by alternatives with a path   *)
(* component: the exact path of the others is the registered one.)         *)
PlannedMatchesInputs ==
  stage = "planned" =>
    \A i \in Input, of \in plan.asked :
      LET q == RequestOf(i)
          made == {r \in plan.rules : r.of = of}
      IN /\ of \subseteq q.hits
         /\ \E r \in made : r.route \in {Anywhere, q.route}
         /\ q.payload # NoPayload => PathComponents(of) # {}
                                     \/ \E r \in made : r.route = Anywhere
         => \E r \in made : Matches(r, q)

(* No rule is wider than the alternative it was made from: a request it    *)
(* matches shows every component of the alternative, or, for a path        *)
(* component that lost its condition, has the path of a test input that a  *)
(* path component of the alternative was seen in.                          *)
PlannedIsNotWider ==
  stage = "planned" =>
    \A r \in plan.rules :
      /\ r.of \in plan.asked
      /\ r.of \ r.needs # {} =>
           /\ r.of \ r.needs \subseteq PathComponents(r.of)
           /\ \E i \in Input : /\ plan.inputs[i].route = r.route
                               /\ plan.inputs[i].payload = r.path
                               /\ RequestOf(i).hits \cap (r.of \ r.needs) # {}

(* An emitted plan is complete: every alternative of every document has a  *)
(* rule, and every component of it is claimed by a carrier binding.        *)
PlannedIsComplete ==
  stage = "planned" =>
    /\ plan.asked # {}
    /\ \A of \in plan.asked : /\ \E r \in plan.rules : r.of = of
                              /\ of \subseteq {k[1] : k \in plan.bound}

(* An emitted plan says what was asked, whole, and no more. *)
PlannedIsFaithful == PlannedIsComplete /\ PlannedMatchesInputs /\ PlannedIsNotWider
=============================================================================
