------------------------------ MODULE PlanQuery ------------------------------
(***************************************************************************)
(* From a question to an execution plan: the nodes route_query and         *)
(* plan_outputs.  Both ask the model for a document, validate it, and give *)
(* it one chance to repair it.  plan_outputs plans the subqueries of a     *)
(* route without dependencies concurrently (asyncio.gather), and others    *)
(* one after the other.                                                    *)
(***************************************************************************)
EXTENDS Planning

CONSTANT RouteDrafts   \* the routes the model may answer with

\* The schema of the answer: a list of items, each for one of the two tools.
ASSUME RouteDraftsAssumption ==
  \A d \in RouteDrafts : /\ d \in Seq(Range1(d))
                         /\ \A i \in DOMAIN d : d[i].tool \in ToolNames

\* range(2) in route_query and in _select_output_plan
RepairAttempts == 2

VARIABLES
  pc,          \* route, plan, validate, done, or how an error leaves the node
  transform,   \* resultTransform is present
  expected,    \* expected_sources; {} when nothing was inferred
  route,       \* routeDraft: the validated, ordered route
  repairs,     \* routeRepairCount
  task,        \* tool |-> plan_one: idle, running, finished, failed
  tries,       \* tool |-> model calls made by plan_one
  planned,     \* tool |-> requiredOutputs
  plan         \* the validated subqueries

vars == <<pc, transform, expected, route, repairs, task, tries, planned, plan>>

RouteTools == {route[i].tool : i \in DOMAIN route}

Item(t) == route[CHOOSE i \in DOMAIN route : route[i].tool = t]

Init ==
  /\ pc = "route"
  /\ transform = FALSE
  /\ expected \in SUBSET ToolNames
  /\ route = <<>>
  /\ repairs = 0
  /\ task = [t \in ToolNames |-> "idle"]
  /\ tries = [t \in ToolNames |-> 0]
  /\ planned = [t \in ToolNames |-> {}]
  /\ plan = <<>>

\* The route uses other sources than the question's wording requires.
sources_conflict(items, t) ==
  expected # {} /\ ~t /\ {items[i].tool : i \in DOMAIN items} # expected

\* parse_route_draft and the comparison with the inferred sources.
RouteAccepted(draft, t) ==
  LET items == validate_route_subqueries(draft) IN
  /\ items # Rejected
  /\ t => bom_shortage_route(items)
  /\ ~sources_conflict(items, t)

\* route_query, an answer that is accepted.
RouteSucceeds ==
  /\ pc = "route"
  /\ \E draft \in RouteDrafts, t \in BOOLEAN :
       /\ RouteAccepted(draft, t)
       /\ transform' = t
       /\ route' = validate_route_subqueries(draft)
  /\ pc' = "plan"
  /\ UNCHANGED <<expected, repairs, task, tries, planned, plan>>

\* route_query, an answer that is refused: one repair, then RoutePlanError.
RouteRefused ==
  /\ pc = "route"
  /\ \E draft \in RouteDrafts, t \in BOOLEAN : ~RouteAccepted(draft, t)
  /\ IF repairs = RepairAttempts - 1
       THEN pc' = "route_error" /\ UNCHANGED repairs
       ELSE repairs' = repairs + 1 /\ UNCHANGED pc
  /\ UNCHANGED <<transform, expected, route, task, tries, planned, plan>>

\* route_query, the model cannot be called.
RouteRaises ==
  /\ pc = "route"
  /\ pc' = "api_error"
  /\ UNCHANGED <<transform, expected, route, repairs, task, tries, planned, plan>>

-----------------------------------------------------------------------------
\* plan_outputs gathers when no subquery depends on another, and otherwise
\* awaits plan_one item by item.
Concurrent == \A i \in DOMAIN route : route[i].dependsOn = {}

\* Mutant: each dependent subquery waits for all others.
MayStart_AllOthers(t) ==
  /\ task[t] = "idle"
  /\ Concurrent \/ \A u \in RouteTools \ {t} : task[u] = "finished"

MayStart(t) ==
  LET n == CHOOSE i \in DOMAIN route : route[i].tool = t IN
  /\ task[t] = "idle"
  /\ Concurrent \/ \A j \in 1 .. (n - 1) : task[route[j].tool] = "finished"

\* The tasks that the node starts now: all of a gather, or the next one.
PlanOneStarts ==
  LET starting == {t \in RouteTools : MayStart(t)} IN
  /\ pc = "plan"
  /\ starting # {}
  /\ task' = [t \in ToolNames |-> IF t \in starting THEN "running" ELSE task[t]]
  /\ UNCHANGED <<pc, transform, expected, route, repairs, tries, planned, plan>>

\* Mutant: what later subqueries bind to is not added.
outgoing_None(t) == {}

\* _outgoing_binding_outputs: what other items bind to.
outgoing(t) ==
  UNION {{b[2] : b \in {c \in route[i].bindings : c[1] = Item(t).id}} :
           i \in DOMAIN route}

\* finalize_required_outputs raises unless the source owns every alias.
Finalizable(t, selected) ==
  selected \cup Range1(Item(t).joinKeys) \cup outgoing(t) \subseteq Aliases[t]

finalize_required_outputs(t, selected) ==
  selected \cup Range1(Item(t).joinKeys) \cup outgoing(t)

\* What plan_one selects: the transform's outputs, or the aliases and entity
\* identities of an answer that passed _parse_output_plan and the result shape.
Selections(t) ==
  IF transform THEN {TransformOutputs[t]} ELSE (SUBSET Aliases[t]) \ {{}}

\* plan_one with a usable answer; an alias the source does not own is a plain
\* ValueError that the repair loop does not catch.
PlanOneReturns(t) ==
  /\ task[t] = "running"
  /\ \E selected \in Selections(t) :
       IF Finalizable(t, selected)
         THEN /\ planned' =
                   [planned EXCEPT ![t] = finalize_required_outputs(t, selected)]
              /\ task' = [task EXCEPT ![t] = "finished"]
              /\ UNCHANGED pc
         ELSE /\ task' = [task EXCEPT ![t] = "failed"]
              /\ pc' = IF pc = "plan" THEN "value_error" ELSE pc
              /\ UNCHANGED planned
  /\ UNCHANGED <<transform, expected, route, repairs, tries, plan>>

\* plan_one with an answer that is refused: one repair, then
\* OutputPlanningError, which gather passes on while the other runs on.
PlanOneRefused(t) ==
  /\ task[t] = "running"
  /\ ~transform
  /\ tries' = [tries EXCEPT ![t] = @ + 1]
  /\ IF tries[t] = RepairAttempts - 1
       THEN /\ task' = [task EXCEPT ![t] = "failed"]
            /\ pc' = IF pc = "plan" THEN "output_error" ELSE pc
       ELSE UNCHANGED <<task, pc>>
  /\ UNCHANGED <<transform, expected, route, repairs, planned, plan>>

\* plan_one, the model cannot be called.
PlanOneRaises(t) ==
  /\ task[t] = "running"
  /\ ~transform
  /\ task' = [task EXCEPT ![t] = "failed"]
  /\ pc' = IF pc = "plan" THEN "api_error" ELSE pc
  /\ UNCHANGED <<transform, expected, route, repairs, tries, planned, plan>>

\* The planned items in route order, with their outputs.
PlannedItems ==
  [i \in DOMAIN route |->
     [id |-> route[i].id, tool |-> route[i].tool,
      dependsOn |-> route[i].dependsOn, joinKeys |-> route[i].joinKeys,
      bindings |-> route[i].bindings, outputs |-> planned[route[i].tool]]]

\* The end of plan_outputs; its two validators raise plain ValueErrors.
Validate ==
  LET items == validate_subqueries(PlannedItems) IN
  /\ pc = "plan"
  /\ \A t \in RouteTools : task[t] = "finished"
  /\ IF items # Rejected /\ (transform => transform_valid(items))
       THEN plan' = items /\ pc' = "done"
       ELSE pc' = "value_error" /\ UNCHANGED plan
  /\ UNCHANGED <<transform, expected, route, repairs, task, tries, planned>>

PlanOne(t) == PlanOneReturns(t) \/ PlanOneRefused(t) \/ PlanOneRaises(t)

Next ==
  \/ RouteSucceeds \/ RouteRefused \/ RouteRaises \/ PlanOneStarts \/ Validate
  \/ \E t \in ToolNames : PlanOne(t)

\* Every await in the two nodes is a model call, which the client's timeout
\* bounds, and the event loop runs every started task.
FairSpec ==
  /\ Init /\ [][Next]_vars
  /\ WF_vars(RouteSucceeds \/ RouteRefused \/ RouteRaises)
  /\ WF_vars(PlanOneStarts \/ Validate)
  /\ \A t \in ToolNames : WF_vars(PlanOne(t))

-----------------------------------------------------------------------------
Ends == {"done", "route_error", "output_error", "value_error", "api_error"}

\* A plan that comes out can be executed: one subquery per source, each after
\* the ones it depends on; whatever model documents were repaired on the way
\* (validate_route_subqueries, validate_subqueries, _topological_order).
Executable == INSTANCE ExecutionPlans

PlanExecutable == pc = "done" => ExecutionView(plan) \in Executable!ExecutionPlanSet

\* What is joined or handed over is really asked for: the join keys of a hybrid
\* plan are required outputs of both its sources, and a bound alias is one of
\* the producer's required outputs (finalize_required_outputs).
NeededOutputsPlanned ==
  pc = "done" =>
    \A i \in DOMAIN plan :
      /\ \A j \in DOMAIN plan : Range1(plan[i].joinKeys) \subseteq plan[j].outputs
      /\ \A b \in plan[i].bindings :
           \E j \in 1 .. (i - 1) : plan[j].id = b[1] /\ b[2] \in plan[j].outputs

\* A route that route_query accepted always gets through plan_outputs' own
\* checks: chat maps RoutePlanError and OutputPlanningError to an answer, but a
\* plain ValueError would become an internal server error.
AcceptedRoutePlans == pc # "value_error"

\* Without a transform, a plan uses exactly the sources the wording of the
\* question requires (infer_required_sources).
EvidenceRespected ==
  pc = "done" /\ expected # {} /\ ~transform =>
    {plan[i].tool : i \in DOMAIN plan} = expected

\* A route that is accepted keeps its promises: it gets through planning without
\* an internal error, and to the sources the question asks for.
AcceptedRouteSound == AcceptedRoutePlans /\ EvidenceRespected

\* Planning ends, and so does every plan_one that was started, the ones a
\* failed sibling left behind included.
PlanningEnds ==
  <>[](pc \in Ends /\ \A t \in ToolNames : task[t] # "running")
=============================================================================
