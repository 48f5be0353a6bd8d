----------------------------- MODULE StrictQuery -----------------------------
(***************************************************************************)
(* The strict path, strict_query/pipeline.py: the nodes resolve_entity,    *)
(* route_query, plan_outputs, execute_plan and compose_results of the      *)
(* snapshot, run one after the other over a state of their own.            *)
(*                                                                         *)
(* plan_outputs and execute_plan start tasks with asyncio.gather.  When    *)
(* one raises, the exception leaves the path at once and its siblings run  *)
(* on, as orphans whose results nobody takes.  The two agents are run in   *)
(* full (StrictAgent), so that an attempt can be cut off anywhere in them. *)
(***************************************************************************)
EXTENDS StrictAgent, StrictResolve

CONSTANTS
  Question,    \* [numbers, filters, quantities] of the user's question
  Readings,    \* what resolve_entity may read (StrictResolve)
  NamedNumbers, \* entity the question names |-> number |-> occurrences in its name
  RouteDocs    \* the documents the router model may answer with

\* The JSON schemas of the router's answer and the types of what is read: an
\* answer is a sequence of items, a question mentions finitely many entities.
RouteItem ==
  [id : STRING, tool : ToolNames, dependsOn : SUBSET STRING, joinKeys : Seq(STRING),
   bindings : SUBSET (STRING \X STRING \X BOOLEAN), numbers : [Numbers -> Nat],
   filters : SUBSET Numbers]

ASSUME QuestionAssumption ==
  Question \in [numbers : [Numbers -> Nat], filters : SUBSET Numbers,
                quantities : SUBSET Nat]

ASSUME NamesAssumption == NamedNumbers \in [DOMAIN NamedNumbers -> [Numbers -> Nat]]

ASSUME ReadingsAssumption ==
  \A r \in Readings : /\ DOMAIN r.extractions = 1 .. Len(r.extractions)
                      /\ Len(r.extractions) \in Nat
                      /\ IsFiniteSet(Grounds(r))

ASSUME RouteDocsAssumption ==
  RouteDocs \subseteq [tool_plan : Seq(ToolNames), qty : Nat, items : Seq(RouteItem)]

VARIABLES
  spc,       \* off, then the node, or how the path ended: returned, raised
  reading,   \* what resolve_entity reads; NoReading once it returned
  entity,
  tries,     \* route attempts made
  route,     \* routeDraft's items
  qty,       \* resultTransform's productionQty, 0 for None
  ptask,     \* tool |-> plan_outputs for it: idle, first or second try, done, failed
  planned,   \* tool |-> the planned subquery
  plan,      \* the validated subqueries
  task,      \* tool |-> idle, running, finished, returned, raised, cancelled
  agent,     \* tool |-> state of its agent
  outcomes,  \* tool |-> summary, NoSummary before
  query_failure, composed

svars == <<spc, reading, entity, tries, route, qty, ptask, planned, plan, task,
           agent, outcomes, query_failure, composed>>

NoReading ==
  [confirmed |-> {}, rows |-> {}, tool_calls |-> FALSE, extractions |-> <<>>,
   category |-> {}, relation |-> {}, leading |-> {}]

NoItem ==
  [id |-> "none", tool |-> NoTool, dependsOn |-> {}, joinKeys |-> <<>>,
   bindings |-> {}, numbers |-> [n \in Numbers |-> 0], filters |-> {}, outputs |-> {}]

NoSummary ==
  [result |-> "none", failed |-> FALSE, truncated |-> FALSE, invoked |-> FALSE,
   enforced |-> {}, empty_reason |-> "none", failure |-> NoFailure]

NoComposed == [error |-> FALSE, truncated |-> FALSE, rows |-> "none"]

StrictInit ==
  /\ spc = "off" /\ reading = NoReading /\ entity = {} /\ tries = 0
  /\ route = <<>> /\ qty = 0 /\ plan = <<>>
  /\ ptask = [t \in ToolNames |-> "idle"]
  /\ planned = [t \in ToolNames |-> NoItem]
  /\ task = [t \in ToolNames |-> "idle"]
  /\ agent = [t \in ToolNames |-> strict_initial_state]
  /\ outcomes = [t \in ToolNames |-> NoSummary]
  /\ query_failure = NoFailure
  /\ composed = NoComposed

-----------------------------------------------------------------------------
(***************************************************************************)
(* resolve_entity and route_query.                                         *)
(***************************************************************************)
StrictResolveEntity ==
  LET outcome == strict_resolve(reading) IN
  /\ spc = "resolve"
  /\ IF outcome.error = "none"
       THEN entity' = outcome.entity /\ spc' = "route"
       ELSE spc' = "raised" /\ UNCHANGED entity
  /\ reading' = NoReading
  /\ UNCHANGED <<tries, route, qty, ptask, planned, plan, task, agent, outcomes,
                 query_failure, composed>>

\* The occurrences of number n that the names of the resolved entities explain.
entity_numbers(n) ==
  Cardinality(UNION {{e} \X (1 .. NamedNumbers[e][n]) : e \in entity \cap DOMAIN NamedNumbers})

\* The validated items of an answer, or Rejected.
StrictRouteItems(doc) ==
  LET items == strict_parse_route(doc, Question.quantities, tries > 0) IN
  IF numeric_conditions_kept(Question.numbers, [n \in Numbers |-> entity_numbers(n)],
                             items)
    THEN items ELSE Rejected

\* One answer of the router: accepted, refused once, or RoutePlanError.
StrictRoute ==
  /\ spc = "route"
  /\ \E doc \in RouteDocs :
       LET items == StrictRouteItems(doc) IN
       IF items # Rejected
         THEN route' = items /\ qty' = doc.qty /\ spc' = "plan" /\ tries' = 0
         ELSE /\ tries' = tries + 1
              /\ spc' = IF tries = 1 THEN "raised" ELSE "route"
              /\ UNCHANGED <<route, qty>>
  /\ UNCHANGED <<reading, entity, ptask, planned, plan, task, agent, outcomes,
                 query_failure, composed>>

\* Any model or database call outside of the agents fails.
StrictCallRaises ==
  /\ spc \in {"resolve", "route"}
  /\ spc' = "raised"
  /\ UNCHANGED <<reading, entity, tries, route, qty, ptask, planned, plan, task,
                 agent, outcomes, query_failure, composed>>

-----------------------------------------------------------------------------
(***************************************************************************)
(* plan_outputs.                                                           *)
(***************************************************************************)
RoutePlace(t) == CHOOSE i \in DOMAIN route : route[i].tool = t

\* Subqueries without dependencies are planned in a gather, others in turn.
StrictPlanStarts ==
  LET concurrent == \A i \in DOMAIN route : route[i].dependsOn = {}
      starting == {t \in {route[i].tool : i \in DOMAIN route} :
                     /\ ptask[t] = "idle"
                     /\ concurrent \/ \A j \in 1 .. (RoutePlace(t) - 1) :
                                        ptask[route[j].tool] = "done"}
  IN /\ spc = "plan"
     /\ starting # {}
     /\ ptask' = [t \in ToolNames |-> IF t \in starting THEN "first" ELSE ptask[t]]
     /\ UNCHANGED <<spc, reading, entity, tries, route, qty, planned, plan, task,
                    agent, outcomes, query_failure, composed>>

\* The wording of the question an agent is given.  For a transform the SQL
\* question is replaced by a fixed one; a graph question may be replaced by the
\* user's own, with a hint appended.
rewritten(item) ==
  IF qty # 0
    THEN IF item.tool = "graph" THEN {item}
         ELSE {[item EXCEPT !.numbers = [n \in Numbers |-> 0], !.filters = {}]}
    ELSE {item} \cup (IF item.tool = "graph"
                        THEN {[item EXCEPT !.numbers = Question.numbers,
                                           !.filters = Question.filters]}
                        ELSE {})

\* What the planner model, or the transform, asks of the source; _complete_outputs
\* adds aliases of the catalog to it.
StrictSelections(t) ==
  IF qty # 0 THEN {TransformOutputs[t]} ELSE SUBSET Aliases[t] \ {{}}

StrictPlanOneReturns(t) ==
  LET r == route[RoutePlace(t)] IN
  /\ spc = "plan"
  /\ ptask[t] \in {"first", "second"}
  /\ \E selected \in StrictSelections(t), item \in rewritten(r) :
       planned' = [planned EXCEPT ![t] =
         [id |-> r.id, tool |-> t, dependsOn |-> r.dependsOn, joinKeys |-> r.joinKeys,
          bindings |-> r.bindings, numbers |-> item.numbers, filters |-> item.filters,
          outputs |-> strict_with_required_outputs(route, r, selected)]]
  /\ ptask' = [ptask EXCEPT ![t] = "done"]
  /\ UNCHANGED <<spc, reading, entity, tries, route, qty, plan, task, agent,
                 outcomes, query_failure, composed>>

\* A refused answer, or a call that fails: the other task of a gather runs on.
StrictPlanOneFails(t) ==
  /\ spc = "plan"
  /\ ptask[t] \in {"first", "second"}
  /\ qty = 0
  /\ \/ ptask[t] = "first" /\ ptask' = [ptask EXCEPT ![t] = "second"] /\ UNCHANGED spc
     \/ /\ ptask' = [ptask EXCEPT ![t] = "failed"]
        /\ spc' = "raised"
  /\ UNCHANGED <<reading, entity, tries, route, qty, planned, plan, task, agent,
                 outcomes, query_failure, composed>>

\* What has to be output is of no more interest once it is validated.
StrictPlanEnds ==
  LET items == strict_validate_subqueries(
                 [i \in DOMAIN route |-> planned[route[i].tool]]) IN
  /\ spc = "plan"
  /\ \A i \in DOMAIN route : ptask[route[i].tool] = "done"
  /\ IF /\ items # Rejected
        /\ \A i \in DOMAIN items : items[i].outputs \subseteq Aliases[items[i].tool]
        /\ qty # 0 => strict_transform_valid(items)
       THEN /\ plan' = [i \in DOMAIN items |-> [items[i] EXCEPT !.outputs = {}]]
            /\ spc' = "execute"
       ELSE spc' = "raised" /\ UNCHANGED plan
  /\ route' = <<>>
  /\ planned' = [t \in ToolNames |-> NoItem]
  /\ ptask' = [t \in ToolNames |-> "idle"]
  /\ UNCHANGED <<reading, entity, tries, qty, task, agent, outcomes, query_failure,
                 composed>>

-----------------------------------------------------------------------------
(***************************************************************************)
(* execute_plan.                                                           *)
(***************************************************************************)
PlanPlace(t) == CHOOSE i \in DOMAIN plan : plan[i].tool = t

StrictDependsOn(t) == {plan[Producer(plan, d)].tool : d \in plan[PlanPlace(t)].dependsOn}

StrictPending == {t \in {plan[i].tool : i \in DOMAIN plan} : task[t] # "returned"}

\* The tools of the wave that is to be started or waited for.
StrictWave ==
  {t \in StrictPending : \A d \in StrictDependsOn(t) : task[d] = "returned"}

StrictStartWave ==
  /\ spc = "execute"
  /\ StrictWave # {}
  /\ task' = [t \in ToolNames |-> IF t \in StrictWave THEN "running" ELSE task[t]]
  /\ spc' = "gather"
  /\ UNCHANGED <<reading, entity, tries, route, qty, ptask, planned, plan, agent,
                 outcomes, query_failure, composed>>

StrictReturns(t, summary) ==
  /\ task' = [task EXCEPT ![t] = "finished"]
  /\ outcomes' = [outcomes EXCEPT ![t] = summary]
  /\ UNCHANGED <<spc, reading, entity, tries, route, qty, ptask, planned, plan,
                 query_failure, composed>>

strict_dependency_failure ==
  [NoSummary EXCEPT !.failed = TRUE,
     !.failure = make_query_failure("DEPENDENCY_FAILED", "dependency",
                                    "user_correctable", NoTool, TRUE)]

strict_dependency_empty(empty) ==
  [NoSummary EXCEPT
     !.result = "empty",
     !.empty_reason = IF \E d \in empty : outcomes[d].empty_reason = "INCONCLUSIVE"
                        THEN "INCONCLUSIVE" ELSE "NO_DATA"]

\* Unlike its successor it carries no failure, only an error.
strict_input_binding_failure == [NoSummary EXCEPT !.failed = TRUE]

Fresh(t) == agent[t].attempt_count = 0

\* execute_subquery when a dependency failed or is empty, or a row lacks the
\* bound field: the agent is not invoked.
StrictSkips(t) ==
  LET failed == {d \in StrictDependsOn(t) : outcomes[d].failed}
      empty == {d \in StrictDependsOn(t) : outcomes[d].result = "empty"}
  IN  /\ spc = "gather"
      /\ task[t] = "running"
      /\ Fresh(t)
      /\ StrictDependsOn(t) # {}
      /\ StrictReturns(t, CASE failed # {} -> strict_dependency_failure
                            [] empty # {} -> strict_dependency_empty(empty)
                            [] OTHER -> strict_input_binding_failure)
      /\ UNCHANGED agent

StrictInvokable(t) ==
  \A d \in StrictDependsOn(t) : ~outcomes[d].failed /\ outcomes[d].result # "empty"

StrictFilters(t) == plan[PlanPlace(t)].filters

\* The agent's model answers with a query.
StrictAgentStep(t) ==
  /\ spc = "gather"
  /\ task[t] = "running"
  /\ StrictInvokable(t)
  /\ agent[t].pc = "agent"
  /\ \E q \in StrictQueries(t) :
       agent' = [agent EXCEPT ![t] = strict_agent(agent[t], q)]
  /\ UNCHANGED <<spc, reading, entity, tries, route, qty, ptask, planned, plan, task,
                 outcomes, query_failure, composed>>

\* The query is checked and executed.
StrictToolsStep(t) ==
  /\ spc = "gather"
  /\ task[t] = "running"
  /\ agent[t].pc = "tools"
  /\ agent' = [agent EXCEPT ![t] = strict_tools(agent[t], StrictFilters(t))]
  /\ UNCHANGED <<spc, reading, entity, tries, route, qty, ptask, planned, plan, task,
                 outcomes, query_failure, composed>>

\* _result_summary of the agent's final state.
strict_result_summary(t) ==
  LET a == agent[t] IN
  [result |-> a.result, failed |-> a.error # "none", truncated |-> a.truncated,
   invoked |-> TRUE, enforced |-> a.query.enforced, empty_reason |-> a.empty_reason,
   failure |-> IF a.error = "none" THEN NoFailure
               ELSE AgentFailure(t, a.error)]

StrictAgentDone(t) ==
  /\ spc = "gather"
  /\ task[t] = "running"
  /\ agent[t].pc = "done"
  /\ StrictReturns(t, strict_result_summary(t))
  /\ agent' = [agent EXCEPT ![t] = strict_initial_state]

\* The model cannot be called: QueryInfrastructureError leaves the path.
StrictAgentRaises(t) ==
  /\ spc = "gather"
  /\ task[t] = "running"
  /\ StrictInvokable(t)
  /\ agent[t].pc = "agent"
  /\ task' = [task EXCEPT ![t] = "raised"]
  /\ spc' = "raised"
  /\ UNCHANGED <<reading, entity, tries, route, qty, ptask, planned, plan, agent,
                 outcomes, query_failure, composed>>

\* _prefer_failure over the wave: the most severe one, a dependent one last, of
\* equals the first; NoFailure ranks below all of them.
strict_prefer_failure(current, failures) ==
  LET severity == [infrastructure |-> 6, internal |-> 4, user_correctable |-> 2, none |-> 0]
      rank(f) == severity[f.kind]
                   + (IF f.kind # "none" /\ ~f.dependent_failure THEN 1 ELSE 0)
      best[i \in 0 .. Len(failures)] ==
        IF i = 0 THEN current
        ELSE IF rank(failures[i]) > rank(best[i - 1]) THEN failures[i] ELSE best[i - 1]
  IN  best[Len(failures)]

\* The wave is merged in the order of the plan.
StrictMergeWave ==
  LET wave == {t \in ToolNames : task[t] \in {"running", "finished"}}
      merged == SelectSeq(plan, LAMBDA p : p.tool \in wave)
  IN  /\ spc = "gather"
      /\ \A t \in wave : task[t] = "finished"
      /\ query_failure' = strict_prefer_failure(query_failure,
                            [i \in DOMAIN merged |-> outcomes[merged[i].tool].failure])
      /\ task' = [t \in ToolNames |-> IF t \in wave THEN "returned" ELSE task[t]]
      /\ spc' = "execute"
      /\ UNCHANGED <<reading, entity, tries, route, qty, ptask, planned, plan, agent,
                     outcomes, composed>>

\* run() stops at a failure before compose_results.
StrictExecuteEnds ==
  /\ spc = "execute"
  /\ StrictPending = {}
  /\ spc' = IF query_failure # NoFailure THEN "returned" ELSE "compose"
  /\ UNCHANGED <<reading, entity, tries, route, qty, ptask, planned, plan, task,
                 agent, outcomes, query_failure, composed>>

-----------------------------------------------------------------------------
StrictMode ==
  IF Len(plan) = 1 THEN "single"
  ELSE IF plan[1].joinKeys = <<>> THEN "separate" ELSE "joined"

\* What compose_results can make of the outcomes: an error, or rows.  A join may
\* meet null or foreign keys or have no partner, and be cut at the row limit.
StrictCompositions ==
  LET sources == {outcomes[plan[i].tool] : i \in DOMAIN plan}
      failed == \E s \in sources : s.failed \/ s.result = "none"
      cut == \E s \in sources : s.truncated
      empty == \E s \in sources : s.result = "empty"
      all_empty == \A s \in sources : s.result = "empty"
      failure(t) == [error |-> TRUE, truncated |-> t, rows |-> "empty"]
      success(t, r) == [error |-> FALSE, truncated |-> t, rows |-> r]
  IN  IF failed THEN {failure(FALSE)}
      ELSE IF StrictMode \in {"single", "separate"}
        THEN {success(cut, IF all_empty THEN "empty" ELSE "rows")}
      ELSE IF cut THEN {failure(TRUE)}
      ELSE IF empty /\ (qty = 0 \/ all_empty)
        THEN {success(FALSE, "empty"), failure(FALSE)}
      ELSE {failure(FALSE), success(FALSE, "empty"), success(FALSE, "rows"),
            success(TRUE, "rows")}

StrictCompose ==
  /\ spc = "compose"
  /\ composed' \in StrictCompositions
  /\ spc' = "returned"
  /\ UNCHANGED <<reading, entity, tries, route, qty, ptask, planned, plan, task,
                 agent, outcomes, query_failure>>

StrictRunning ==
  {t \in ToolNames : task[t] = "running" \/ ptask[t] \in {"first", "second"}}

\* A task left behind by a sibling's exception ends, some time.
StrictOrphanEnds(t) ==
  /\ spc \in {"off", "raised"}
  /\ t \in StrictRunning
  /\ task' = [task EXCEPT ![t] = IF @ = "running" THEN "raised" ELSE @]
  /\ ptask' = [ptask EXCEPT ![t] = IF @ = "idle" THEN @ ELSE "failed"]
  /\ UNCHANGED <<spc, reading, entity, tries, route, qty, planned, plan, agent,
                 outcomes, query_failure, composed>>

\* The caller lets go of the path's state; keeping is what runs on.
StrictForgotten(keeping) ==
  /\ spc' = "off" /\ reading' = NoReading /\ entity' = {} /\ tries' = 0
  /\ route' = <<>> /\ qty' = 0 /\ plan' = <<>>
  /\ ptask' = [t \in ToolNames |-> IF t \in keeping /\ ptask[t] \in {"first", "second"}
                                     THEN "second" ELSE "idle"]
  /\ planned' = [t \in ToolNames |-> NoItem]
  /\ task' = [t \in ToolNames |-> IF t \in keeping /\ task[t] = "running"
                                    THEN "running" ELSE "idle"]
  /\ agent' = [t \in ToolNames |-> strict_initial_state]
  /\ outcomes' = [t \in ToolNames |-> NoSummary]
  /\ query_failure' = NoFailure
  /\ composed' = NoComposed

StrictTask(t) ==
  \/ StrictPlanOneReturns(t) \/ StrictPlanOneFails(t)
  \/ StrictSkips(t) \/ StrictAgentStep(t) \/ StrictToolsStep(t)
  \/ StrictAgentDone(t) \/ StrictAgentRaises(t) \/ StrictOrphanEnds(t)

StrictNode ==
  \/ StrictResolveEntity \/ StrictRoute \/ StrictCallRaises \/ StrictPlanStarts
  \/ StrictPlanEnds \/ StrictStartWave \/ StrictMergeWave \/ StrictExecuteEnds
  \/ StrictCompose
=============================================================================
