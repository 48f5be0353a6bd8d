------------------------ MODULE EvaluationContracts ------------------------
(***************************************************************************)
(* The contracts an evaluated question is judged by                        *)
(* (backend/evaluation/contracts.py, models.py).                           *)
(*                                                                         *)
(* A subquery is a record                                                  *)
(*   [id, tool, deps, joins, outputs, bindings, numbers, close]            *)
(* with lists for deps, joins and outputs and a function for bindings from *)
(* input names to <<subquery id, output>>.  Of a question only the numbers *)
(* it states, and whether its wording is close enough to the expected one, *)
(* are kept.  A contract is a record                                       *)
(*   [route, entities, tools, subs, numbers, final, full]                  *)
(* where numbers are those of the user's question and final is NoFinal or  *)
(* [mode, transform, rows].                                                *)
(***************************************************************************)
EXTENDS Naturals, Sequences, FiniteSets

CONSTANTS NoFinal, NoTransform

Elems(s) == {s[i] : i \in DOMAIN s}
Distinct(s) == Cardinality(Elems(s)) = Len(s)
same_string_set(list, expected) == Distinct(list) /\ Elems(list) = Elems(expected)

IdsOf(subs) == [i \in DOMAIN subs |-> subs[i].id]

(* actual_by_id: of two items with one id the later one stays.             *)
ById(subs, id) ==
  LET at == {i \in DOMAIN subs : subs[i].id = id} IN
  subs[CHOOSE i \in at : \A k \in at : k <= i]

(* Every expected subquery is mapped to the actual one of its own id, or   *)
(* else to the only unmapped one of its tool.                              *)
MapOne(subs, mapping, expected) ==
  LET extend(id) == [e \in DOMAIN mapping \cup {expected.id} |->
                       IF e = expected.id THEN id ELSE mapping[e]]
      used == {mapping[e] : e \in DOMAIN mapping}
      candidates == {i \in DOMAIN subs :
                       subs[i].tool = expected.tool /\ subs[i].id \notin used} IN
  IF expected.id \in Elems(IdsOf(subs)) THEN extend(expected.id)
  ELSE IF Cardinality(candidates) = 1
       THEN extend(subs[CHOOSE i \in candidates : TRUE].id)
       ELSE mapping

IdMapping(contract, subs) ==
  LET upTo[n \in 0 .. Len(contract.subs)] ==
        IF n = 0 THEN [e \in {} |-> ""]
        ELSE MapOne(subs, upTo[n - 1], contract.subs[n]) IN
  upTo[Len(contract.subs)]

(* A number that the user's question states and the contract expects must  *)
(* be kept, and the wording must be close.                                 *)
_question_matches(contract, expected, actual) ==
  /\ expected.numbers \cap contract.numbers \subseteq actual.numbers
  /\ actual.close

StepPasses(contract, mapping, subs, expected) ==
  /\ expected.id \in DOMAIN mapping
  /\ LET actual == ById(subs, mapping[expected.id])
         mapped == SelectSeq(expected.deps, LAMBDA d : d \in DOMAIN mapping)
         deps == [i \in DOMAIN mapped |-> mapping[mapped[i]]] IN
     /\ actual.tool = expected.tool
     /\ same_string_set(actual.deps, deps)
     /\ contract.route = "HYBRID" => same_string_set(actual.joins, expected.joins)
     /\ _question_matches(contract, expected, actual)

compare_execution_contract(contract, tools, subs, transform) ==
  LET mapping == IdMapping(contract, subs) IN
  [ routing |-> Distinct(tools) /\ Elems(tools) = contract.tools,
    mapping |-> mapping,
    split |->
      /\ Distinct(IdsOf(subs)) /\ Len(subs) = Len(contract.subs)
      /\ \A i \in DOMAIN contract.subs :
           StepPasses(contract, mapping, subs, contract.subs[i])
      /\ transform = (IF contract.final = NoFinal THEN NoTransform
                      ELSE contract.final.transform) ]

(* The outputs and the bindings of the completed plan.                     *)
OutputsPass(expected, actual) ==
  Distinct(actual.outputs) /\ Elems(expected.outputs) \subseteq Elems(actual.outputs)

BindingsPass(expected, actual, mapping) ==
  /\ DOMAIN actual.bindings = DOMAIN expected.bindings
  /\ \A k \in DOMAIN expected.bindings :
       LET from == expected.bindings[k] IN
       from[1] \in DOMAIN mapping /\ actual.bindings[k] = <<mapping[from[1]], from[2]>>

compare_execution_plan_contract(contract, subs, mapping) ==
  LET steps == DOMAIN contract.subs
      actual(i) == ById(subs, mapping[contract.subs[i].id])
      found == /\ Len(subs) = Len(contract.subs) /\ Distinct(IdsOf(subs))
               /\ \A i \in steps : /\ contract.subs[i].id \in DOMAIN mapping
                                   /\ mapping[contract.subs[i].id] \in Elems(IdsOf(subs)) IN
  [ outputs |-> found /\ \A i \in steps : OutputsPass(contract.subs[i], actual(i)),
    bindings |-> found /\ \A i \in steps : BindingsPass(contract.subs[i], actual(i), mapping) ]

(* Entities in the order of the question; an actual one may say more.      *)
entity_matches(expected, actual) ==
  /\ Len(expected) = Len(actual)
  /\ \A i \in DOMAIN expected : \A f \in DOMAIN expected[i] :
       f \in DOMAIN actual[i] /\ actual[i][f] = expected[i][f]
============================================================================
