----------------------------- MODULE ExecutePlan -----------------------------
(***************************************************************************)
(* The node execute_plan: the subqueries of a plan are executed in waves.  *)
(* A wave is every pending subquery whose dependencies have an outcome; it *)
(* is started as one asyncio.gather and merged, in plan order, when all of *)
(* it has returned.  If one of its coroutines raises, gather passes the    *)
(* exception on at once and the others run on, their results unread.       *)
(*                                                                         *)
(* An agent is used through its contract: it returns one of AgentOutcomes  *)
(* (QueryOutcomes; implemented by RetryAgent) or raises.                   *)
(***************************************************************************)
EXTENDS QueryOutcomes, ExecutionPlans, FiniteSets

VARIABLES
  pc,        \* wave, gather, done or raised
  plan,      \* state["subqueries"]
  pending,   \* tools whose subquery has not been merged
  ready,     \* the wave in execution
  task,      \* tool |-> idle, running, returned or raised
  returned,  \* tool |-> what execute_subquery returned
  outcomes,  \* tool |-> merged summary, NoOutcome before
  merged,    \* tools that have an entry in outcomes
  invoked,   \* tools whose agent was invoked
  output     \* the node's return value

vars == <<pc, plan, pending, ready, task, returned, outcomes, merged, invoked,
          output>>

dependsOn(t) == UNION {plan[i].dependsOn : i \in {j \in DOMAIN plan : plan[j].tool = t}}

PlanTools == {plan[i].tool : i \in DOMAIN plan}

NoOutput ==
  [query_failure |-> NoFailure, results |-> [t \in ToolNames |-> NoOutcome],
   queries |-> {}, resultInvariantRetryCount |-> 0]

Init ==
  /\ pc = "wave"
  /\ plan \in ExecutionPlanSet
  /\ pending = PlanTools
  /\ ready = {}
  /\ task = [t \in ToolNames |-> "idle"]
  /\ returned = [t \in ToolNames |-> NoOutcome]
  /\ outcomes = [t \in ToolNames |-> NoOutcome]
  /\ merged = {}
  /\ invoked = {}
  /\ output = NoOutput

-----------------------------------------------------------------------------
is_ready(t) == dependsOn(t) \subseteq merged

\* If nothing is ready the node raises a ValueError, which validated plans never
\* make it do (NeverStuck).
StartWave ==
  /\ pc = "wave"
  /\ pending # {}
  /\ ready' = {t \in pending : is_ready(t)}
  /\ task' = [t \in ToolNames |-> IF t \in ready' THEN "running" ELSE task[t]]
  /\ pc' = IF ready' = {} THEN "stuck" ELSE "gather"
  /\ UNCHANGED <<plan, pending, returned, outcomes, merged, invoked, output>>

Finish ==
  /\ pc = "wave"
  /\ pending = {}
  /\ pc' = "done"
  /\ UNCHANGED <<plan, pending, ready, task, returned, outcomes, merged, invoked,
                 output>>

-----------------------------------------------------------------------------
dependency_failure ==
  [NoOutcome EXCEPT
     !.failed = TRUE,
     !.failure = make_query_failure("DEPENDENCY_FAILED", "dependency",
                                    "user_correctable", NoTool, TRUE)]

input_binding_failure ==
  [NoOutcome EXCEPT
     !.failed = TRUE,
     !.failure = make_query_failure("INPUT_BINDING_INVALID", "dependency",
                                    "internal", NoTool, TRUE)]

dependency_empty(empty) ==
  [NoOutcome EXCEPT
     !.result = "empty",
     !.empty_reason = IF \E d \in empty : outcomes[d].empty_reason = "INCONCLUSIVE"
                        THEN "INCONCLUSIVE" ELSE "NO_DATA"]

\* Mutant: failed dependencies are not looked for.
failed_dependencies_None(t) == {}

failed_dependencies(t) ==
  {d \in dependsOn(t) : outcomes[d].failed \/ outcomes[d].result = "none"}

empty_dependencies(t) ==
  {d \in dependsOn(t) : outcomes[d].result = "empty"}

Returns(t, summary) ==
  /\ task[t] = "running"
  /\ task' = [task EXCEPT ![t] = "returned"]
  /\ returned' = [returned EXCEPT ![t] = summary]
  /\ UNCHANGED <<pc, plan, pending, ready, outcomes, merged, output>>

\* A failed dependency, or an empty one: the agent is not invoked.
SkipFailed(t) ==
  /\ task[t] = "running"
  /\ failed_dependencies(t) # {}
  /\ Returns(t, dependency_failure)
  /\ UNCHANGED invoked

SkipEmpty(t) ==
  /\ task[t] = "running"
  /\ failed_dependencies(t) = {}
  /\ empty_dependencies(t) # {}
  /\ Returns(t, dependency_empty(empty_dependencies(t)))
  /\ UNCHANGED invoked

Runs(t) == failed_dependencies(t) = {} /\ empty_dependencies(t) = {}

\* collect_input_bindings refuses a row that lacks the bound field.
BindingInvalid(t) ==
  /\ task[t] = "running"
  /\ Runs(t)
  /\ dependsOn(t) # {}
  /\ t \notin invoked
  /\ Returns(t, input_binding_failure)
  /\ UNCHANGED invoked

InvokeAgent(t) ==
  /\ task[t] = "running"
  /\ t \notin invoked
  /\ Runs(t)
  /\ invoked' = invoked \cup {t}
  /\ UNCHANGED <<pc, plan, pending, ready, task, returned, outcomes, merged,
                 output>>

AgentReturns(t) ==
  /\ t \in invoked
  /\ \E n \in 1 .. MaxAttempts : \E summary \in AgentOutcomes(t, n) :
       Returns(t, summary)
  /\ UNCHANGED invoked

\* Mutant: the exception is swallowed and gather waits for a result.
AgentRaises_Swallowed(t) ==
  /\ t \in invoked
  /\ task[t] = "running"
  /\ task' = [task EXCEPT ![t] = "raised"]
  /\ UNCHANGED <<pc, plan, pending, ready, returned, outcomes, merged, invoked,
                 output>>

\* The exception of an agent leaves the node unless it already left.
AgentRaises(t) ==
  /\ t \in invoked
  /\ task[t] = "running"
  /\ task' = [task EXCEPT ![t] = "raised"]
  /\ pc' = IF pc = "gather" THEN "raised" ELSE pc
  /\ UNCHANGED <<plan, pending, ready, returned, outcomes, merged, invoked, output>>

ExecuteSubquery(t) ==
  SkipFailed(t) \/ SkipEmpty(t) \/ BindingInvalid(t) \/ InvokeAgent(t)
    \/ AgentReturns(t) \/ AgentRaises(t)

-----------------------------------------------------------------------------
(***************************************************************************)
(* Merging.                                                                *)
(***************************************************************************)
FAILURE_PRIORITY ==
  [infrastructure |-> 3, internal |-> 2, user_correctable |-> 1, none |-> 0]

\* Mutant: the first failure is kept, however severe the next.
prefer_failure_First(current, candidate) ==
  IF current = NoFailure THEN candidate ELSE current

\* The tuple (priority, not dependent) compared as Python does.
Outranks(a, b) ==
  \/ FAILURE_PRIORITY[a.kind] > FAILURE_PRIORITY[b.kind]
  \/ /\ FAILURE_PRIORITY[a.kind] = FAILURE_PRIORITY[b.kind]
     /\ b.dependent_failure /\ ~a.dependent_failure

prefer_failure(current, candidate) ==
  IF current = NoFailure \/ Outranks(candidate, current) THEN candidate ELSE current

\* One iteration of the loop over zip(ready, results).
merge_one(out, t) ==
  LET s == returned[t] IN
  [query_failure |-> IF s.failure = NoFailure THEN out.query_failure
                     ELSE prefer_failure(out.query_failure, s.failure),
   results |-> [out.results EXCEPT ![t] = s],
   queries |-> IF t \in invoked THEN out.queries \cup {t} ELSE out.queries,
   resultInvariantRetryCount |->
     out.resultInvariantRetryCount + s.invariant_retries]

\* The loop over the wave, up to the i-th subquery of the plan: ready is a list
\* comprehension over pending, so it is in plan order.
merge_upto[i \in 0 .. Len(plan)] ==
  IF i = 0 THEN output
  ELSE IF plan[i].tool \in ready THEN merge_one(merge_upto[i - 1], plan[i].tool)
  ELSE merge_upto[i - 1]

still_pending == pending \ ready

MergeWave ==
  /\ pc = "gather"
  /\ \A t \in ready : task[t] = "returned"
  /\ outcomes' =
       [t \in ToolNames |-> IF t \in ready THEN returned[t] ELSE outcomes[t]]
  /\ merged' = merged \cup ready
  /\ output' = merge_upto[Len(plan)]
  /\ pending' = still_pending
  /\ ready' = {}
  /\ pc' = "wave"
  /\ UNCHANGED <<plan, task, returned, invoked>>

Next ==
  \/ StartWave \/ Finish \/ MergeWave
  \/ \E t \in ToolNames : ExecuteSubquery(t)

Spec == Init /\ [][Next]_vars

\* Agents end (ImplementsQueryAgent of RetryAgent), and the event loop runs every task.
FairSpec ==
  /\ Spec
  /\ WF_vars(StartWave \/ Finish \/ MergeWave)
  /\ \A t \in ToolNames : WF_vars(ExecuteSubquery(t))

-----------------------------------------------------------------------------
\* No plan that passed validation gets stuck without a ready subquery: the
\* ValueError is only a safety net (the comment "validate_subqueries ...").
NeverStuck == pc # "stuck"

\* An agent is invoked only on rows: never while a subquery it depends on is
\* still running, nor after that one failed or came back empty.
InvokedOnRows ==
  \A t \in invoked : \A d \in dependsOn(t) :
    d \in merged /\ outcomes[d].result = "rows" /\ ~outcomes[d].failed

\* The failure that is reported is the most severe one, the first in plan order
\* among equals, and not the consequence of another one, in whatever order the
\* agents returned (docstring of _prefer_failure).
ReportedFailure ==
  LET Failed == {t \in merged : outcomes[t].failed}
      Order(t) == CHOOSE i \in DOMAIN plan : plan[i].tool = t
  IN pc = "done" =>
       IF Failed = {}
         THEN output.query_failure = NoFailure
         ELSE \E t \in Failed :
                /\ output.query_failure = outcomes[t].failure
                /\ \A u \in Failed :
                     /\ FAILURE_PRIORITY[outcomes[u].failure.kind]
                          <= FAILURE_PRIORITY[outcomes[t].failure.kind]
                     /\ outcomes[t].failure.dependent_failure =>
                          outcomes[u].failure.dependent_failure
                     /\ outcomes[u].failure.kind = outcomes[t].failure.kind
                          /\ ~outcomes[u].failure.dependent_failure
                          => Order(t) <= Order(u)

\* An empty result is handed on, with its reason: a subquery that depends on an
\* empty one is empty itself, and inconclusive if that one was; and a failure is
\* handed on as a dependent one (_dependency_empty, _dependency_failure).
EmptyHandedOn ==
  \A t \in merged : \A d \in dependsOn(t) :
    /\ outcomes[d].result = "empty" =>
         /\ outcomes[t].result = "empty"
         /\ outcomes[t].empty_reason = outcomes[d].empty_reason
    /\ outcomes[d].failed => outcomes[t].failure.code = "DEPENDENCY_FAILED"

\* When the node returns, every subquery was merged exactly once: its result is
\* its outcome, the query text is there exactly if the agent ran, and the
\* invariant retries add up (also over the agents that ran at the same time).
MergedOnce ==
  pc = "done" =>
    /\ merged = PlanTools
    /\ \A t \in PlanTools : output.results[t] = outcomes[t]
    /\ output.queries = invoked
    /\ output.resultInvariantRetryCount =
         outcomes["sql"].invariant_retries + outcomes["graph"].invariant_retries

\* Whatever the order in which the agents return, the waves run every subquery
\* of the plan on what it depends on and hand on each outcome once.
WavesSound == NeverStuck /\ InvokedOnRows /\ EmptyHandedOn /\ MergedOnce

\* The node ends, and no agent is running for ever after it.
ExecutionEnds ==
  <>[](pc \in {"done", "raised"} /\ \A t \in ToolNames : task[t] # "running")
=============================================================================
