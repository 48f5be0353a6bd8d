-------------------------- MODULE EvaluationScores --------------------------
(***************************************************************************)
(* How one trial of one question is scored (backend/evaluation/runner.py). *)
(* In orchestrator mode the production graph has answered the question and *)
(* its state is compared with the contract; in source mode the runner      *)
(* generates and executes every expected subquery itself.                  *)
(*                                                                         *)
(* An observation o is what production, or the models and databases, did:  *)
(*   entity, tools, raw (the route as first drafted), draft, subs (the     *)
(*   plan), transform, results (per tool: NoSource or [query, attempts,    *)
(*   rows]), composed (NoComposed or [mode, transform, rows, whole]), and  *)
(*   for source mode candidate (per tool: what its one generation gave).   *)
(* Rows are "gold", "other", "broken" (a required alias is missing) or, in *)
(* a source result, "error".  A check is "T", "F" or, not reached, "N".    *)
(***************************************************************************)
EXTENDS EvaluationContracts

CONSTANTS NoSource, NoComposed

Check(b) == IF b THEN "T" ELSE "F"

(* One False is False; all True, of at least one, is True.                 *)
Together(values) ==
  IF "F" \in values THEN "F" ELSE IF values = {"T"} THEN "T" ELSE "N"

(* normalize_rows and the comparison of hashes.                            *)
ContractCheck(rows) == Check(rows # "broken")
ResultCheck(rows) == IF rows = "broken" THEN "N" ELSE Check(rows = "gold")

Unreached(generation, safety, execution) ==
  [status |-> "FAIL", generation |-> generation, safety |-> safety,
   execution |-> execution, contract |-> "N", result |-> "N"]

Scored(rows, safety) ==
  [status |-> IF rows = "gold" THEN "PASS" ELSE "FAIL", generation |-> "T",
   safety |-> safety, execution |-> "T", contract |-> ContractCheck(rows),
   result |-> ResultCheck(rows)]

----------------------------------------------------------------------------
(* Orchestrator mode.                                                      *)

_evaluate_orchestrator_source(expected, o, mapping) ==
  LET src == o.results[expected.tool]
      planned == expected.id \in DOMAIN mapping
                 /\ mapping[expected.id] \in Elems(IdsOf(o.subs))
      written == IF src = NoSource THEN "F" ELSE Check(src.query)
      safe == Check("unsafe" \notin Elems(src.attempts)) IN
  IF ~planned \/ src = NoSource THEN Unreached(written, "N", "F")
  ELSE IF src.rows = "error"
       THEN Unreached(Check(src.query), safe, "F")
       ELSE [Scored(src.rows, safe) EXCEPT !.generation = Check(src.query)]

OrchestratorSources(contract, o, mapping) ==
  [i \in DOMAIN contract.subs |->
     _evaluate_orchestrator_source(contract.subs[i], o, mapping)]

(* _score_final_result.                                                    *)
FinalContractCheck(composed) ==
  Check(composed # NoComposed /\ composed.rows \notin {"error", "broken"})

(* Mutant: the mode and the cut flag of the composed result are not read.  *)
_score_final_result_rows(final, composed) ==
  Check(/\ composed # NoComposed
        /\ composed.rows \notin {"error", "broken"}
        /\ composed.transform = final.transform
        /\ composed.rows = "gold")

_score_final_result(final, composed) ==
  Check(/\ composed # NoComposed
        /\ composed.rows \notin {"error", "broken"}
        /\ composed.mode = final.mode
        /\ composed.transform = final.transform
        /\ composed.whole
        /\ composed.rows = "gold")

(* The stages in the order they are blamed in; the first that failed       *)
(* names the failure.                                                      *)
StageTests(contract, o, comparison, plan, subs) ==
  LET of(f) == {subs[i][f] : i \in DOMAIN subs}
      source == Together(of("result"))
      composes == o.composed # NoComposed /\ o.composed.rows # "error"
      evaluated == contract.final # NoFinal \/ contract.full
      final == IF contract.final # NoFinal
               THEN _score_final_result(contract.final, o.composed)
               ELSE IF evaluated /\ composes THEN source ELSE "N" IN
  << <<"ENTITY", ~entity_matches(contract.entities, o.entity)>>,
     <<"ROUTING", ~comparison.routing>>,
     <<"PLANNING", ~(comparison.split /\ plan.outputs /\ plan.bindings)>>,
     <<"GENERATION", of("generation") # {"T"}>>,
     <<"SAFETY", "F" \in of("safety")>>,
     <<"EXECUTION", of("execution") # {"T"}>>,
     <<"RESULT_CONTRACT", Together(of("contract")) # "T">>,
     <<"COMPOSITION", ~composes>>,
     <<"RESULT_CONTRACT",
       contract.final # NoFinal /\ FinalContractCheck(o.composed) = "F">>,
     <<"RESULT_SEMANTIC", source # "T" \/ (evaluated /\ final # "T")>> >>

FailureStage(tests) ==
  LET failed == {i \in DOMAIN tests : tests[i][2]} IN
  IF failed = {} THEN "none"
  ELSE tests[CHOOSE i \in failed : \A k \in failed : i <= k][1]

(* The mapping of ids is the normalized draft's, the split is judged on    *)
(* the route as it was first drafted.                                      *)
_evaluate_case_orchestrator(contract, o) ==
  LET comparison == compare_execution_contract(contract, o.tools, o.raw, o.transform)
      mapping == compare_execution_contract(contract, o.tools, o.draft, o.transform).mapping
      plan == compare_execution_plan_contract(contract, o.subs, mapping)
      subs == OrchestratorSources(contract, o, mapping)
      stage == FailureStage(StageTests(contract, o, comparison, plan, subs)) IN
  [pass |-> stage = "none", error |-> FALSE]

----------------------------------------------------------------------------
(* Source mode.  A subquery is not even generated unless those it depends  *)
(* on passed, so its inputs are rows that matched their Gold.              *)

Candidate(kind) ==
  CASE kind \in {"unsafe", "invalid"} -> Unreached("F", "F", "F")
    [] kind \in {"timeout", "failing"} -> Unreached("T", "T", "F")
    [] kind = "unreachable" -> [Unreached("F", "F", "F") EXCEPT !.status = "ERROR"]
    [] OTHER -> Scored(kind, "T")

Blocked == [Unreached("N", "N", "N") EXCEPT !.status = "BLOCKED_BY_DEPENDENCY"]

EvaluateSubquery(o, mapping, done, expected) ==
  LET mapped == expected.id \in DOMAIN mapping
                /\ mapping[expected.id] \in Elems(IdsOf(o.subs))
      record ==
        IF \E d \in Elems(expected.deps) : d \notin DOMAIN done \/ done[d].status # "PASS"
        THEN Blocked
        ELSE IF ~mapped \/ ById(o.subs, mapping[expected.id]).tool # expected.tool
             THEN Unreached("F", "N", "N")
             ELSE Candidate(o.candidate[expected.tool]) IN
  [e \in DOMAIN done \cup {expected.id} |->
     IF e = expected.id THEN record ELSE done[e]]

_evaluate_subqueries(contract, o, mapping) ==
  LET upTo[n \in 0 .. Len(contract.subs)] ==
        IF n = 0 THEN [e \in {} |-> Blocked]
        ELSE EvaluateSubquery(o, mapping, upTo[n - 1], contract.subs[n]) IN
  upTo[Len(contract.subs)]

_evaluate_case_source(contract, o) ==
  LET comparison == compare_execution_contract(contract, o.tools, o.raw, o.transform)
      mapping == compare_execution_contract(contract, o.tools, o.draft, o.transform).mapping
      plan == compare_execution_plan_contract(contract, o.subs, mapping)
      subs == _evaluate_subqueries(contract, o, mapping) IN
  [pass |-> /\ entity_matches(contract.entities, o.entity)
            /\ comparison.routing /\ comparison.split
            /\ plan.outputs /\ plan.bindings
            /\ \A e \in DOMAIN subs : subs[e].status = "PASS",
   error |-> \E e \in DOMAIN subs : subs[e].status = "ERROR"]

(* A provider or connection failure anywhere, o.raised, makes the trial an *)
(* ERROR and not a score.                                                  *)
_evaluate_case(mode, contract, o) ==
  IF o.raised
  THEN [pass |-> FALSE, error |-> TRUE]
  ELSE IF mode = "orchestrator" THEN _evaluate_case_orchestrator(contract, o)
  ELSE _evaluate_case_source(contract, o)
============================================================================
