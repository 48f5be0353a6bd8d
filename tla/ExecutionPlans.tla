--------------------------- MODULE ExecutionPlans ---------------------------
(***************************************************************************)
(* The plans that reach execute_plan: at most one subquery for each source *)
(* (validate_subqueries), each after the ones it depends on.  PlanQuery    *)
(* ends in one of these; ExecutePlan starts from any of them.              *)
(***************************************************************************)
EXTENDS QueryFailures, Sequences

PlanItem == [tool : ToolNames, dependsOn : SUBSET ToolNames]

ExecutionPlanSet ==
  {p \in UNION {[1 .. n -> PlanItem] : n \in 1 .. 2} :
     \A i \in DOMAIN p :
       /\ \A j \in DOMAIN p : p[j].tool = p[i].tool => j = i
       /\ p[i].dependsOn \subseteq {p[j].tool : j \in 1 .. (i - 1)}}
=============================================================================
