---------------------------- MODULE Orchestrator ----------------------------
(***************************************************************************)
(* One request through the orchestrator graph, orchestrator/graph.py: the  *)
(* request guard, the topic classifier, the strict attempt with its        *)
(* timeout (nodes/strict_query.py, run in full), the second path when the  *)
(* attempt is not accepted, and generate_answer.                           *)
(*                                                                         *)
(* The second path is the subject of ResolveEntity, PlanQuery and          *)
(* ExecutePlan and is taken here by how each node ends: the failure or the *)
(* composed result it leaves in the graph's state, or what it raises.      *)
(***************************************************************************)
EXTENDS StrictQuery

VARIABLES
  pc,        \* the node to run next; done or raised
  strategy,  \* query_strategy
  reason,    \* strict_attempt's reason; "none" when accepted, "" before
  failed,    \* kind of query_failure in the graph's state, "none" for None
  result,    \* composed_result: none, error, empty or rows
  answer

ovars == <<pc, strategy, reason, failed, result, answer>>
vars == <<svars, ovars>>

Init ==
  /\ StrictInit
  /\ pc = "guard_request"
  /\ strategy = "none" /\ reason = ""
  /\ failed = "none" /\ result = "none" /\ answer = "none"

-----------------------------------------------------------------------------
(***************************************************************************)
(* The guards.  Writing the audit log may fail; that is ignored.           *)
(***************************************************************************)
\* _route_by_query_failure
After(node) == IF failed' # "none" THEN "generate_answer" ELSE node

guard_request ==
  /\ pc = "guard_request"
  /\ failed' \in {"none", "user_correctable"}   \* has_write_intent
  /\ pc' = After("classify_topic")
  /\ UNCHANGED <<svars, strategy, reason, result, answer>>

\* Only the exact answer OFF_TOPIC blocks: no answer and a failed call pass.
TopicAnswers == {"ON_TOPIC", "OFF_TOPIC", "other", "call fails"}

classify_topic ==
  /\ pc = "classify_topic"
  /\ \E content \in TopicAnswers :
       failed' = IF content = "OFF_TOPIC" THEN "user_correctable" ELSE "none"
  /\ pc' = After("strict_query")
  /\ UNCHANGED <<svars, strategy, reason, result, answer>>

-----------------------------------------------------------------------------
(***************************************************************************)
(* The strict attempt.                                                     *)
(***************************************************************************)
\* run_strict is awaited under asyncio.timeout with a copy of the question.
StrictStarts ==
  /\ pc = "strict_query"
  /\ spc = "off"
  /\ reading' \in Readings
  /\ spc' = "resolve"
  /\ UNCHANGED <<entity, tries, route, qty, ptask, planned, plan, task, agent,
                 outcomes, query_failure, composed, ovars>>

\* Only the strategy and the diagnostic are returned.
Fallback(r) ==
  /\ pc' = "resolve_entity"
  /\ strategy' = "pr61"
  /\ reason' = r
  /\ UNCHANGED <<failed, result, answer>>

\* build_strict_query failed when the graph was built.
StrictUnavailable ==
  /\ pc = "strict_query"
  /\ spc = "off"
  /\ Fallback("initialization")
  /\ UNCHANGED svars

\* Mutant: a truncated result is good enough.
rejection_reason_Truncated ==
  CASE query_failure # NoFailure -> "query_failure"
    [] composed.error \/ composed.rows = "none" -> "composition_failure"
    [] composed.rows = "empty" -> "empty_result"
    [] OTHER -> "none"

rejection_reason ==
  CASE query_failure # NoFailure -> "query_failure"
    [] composed.error \/ composed.rows = "none" -> "composition_failure"
    [] composed.truncated -> "truncated"
    [] composed.rows = "empty" -> "empty_result"
    [] OTHER -> "none"

StrictRejected ==
  /\ pc = "strict_query"
  /\ spc = "returned"
  /\ rejection_reason # "none"
  /\ Fallback(rejection_reason)
  /\ StrictForgotten(StrictRunning)

\* The accepted keys of the path's state become the graph's.
StrictAccepted ==
  /\ pc = "strict_query"
  /\ spc = "returned"
  /\ rejection_reason = "none"
  /\ pc' = "generate_answer"
  /\ strategy' = "strict"
  /\ reason' = "none"
  /\ failed' = "none"
  /\ result' = composed.rows
  /\ UNCHANGED <<svars, answer>>

StrictRaised ==
  /\ pc = "strict_query"
  /\ spc = "raised"
  /\ Fallback("exception")
  /\ StrictForgotten(StrictRunning)

\* Mutant: the children of the gather are shielded from the cancellation.
StrictTimeout_Shielded ==
  /\ pc = "strict_query"
  /\ spc \notin {"off", "returned", "raised"}
  /\ Fallback("timeout")
  /\ StrictForgotten(StrictRunning)

\* Mutant: the attempt is awaited without a timeout.
StrictTimeout_Never == FALSE /\ UNCHANGED vars

\* The timeout cancels the awaiting node; a gather passes that on to its
\* children and ends when they have.
StrictTimeout ==
  /\ pc = "strict_query"
  /\ spc \notin {"off", "returned", "raised"}
  /\ Fallback("timeout")
  /\ StrictForgotten({})

-----------------------------------------------------------------------------
(***************************************************************************)
(* The second path and the answer.                                         *)
(***************************************************************************)
SecondPath == [resolve_entity  |-> "route_query",  route_query  |-> "plan_outputs",
               plan_outputs    |-> "execute_plan", execute_plan |-> "compose_results",
               compose_results |-> "generate_answer"]

\* A node of the second path returns.
SecondPathNode ==
  /\ pc \in DOMAIN SecondPath
  /\ failed' \in IF pc = "execute_plan" THEN FailureKinds \cup {"none"} ELSE {failed}
  /\ result' \in IF pc = "compose_results"
                   THEN IF failed # "none" THEN {"error"} ELSE {"error", "empty", "rows"}
                   ELSE {result}
  /\ pc' = SecondPath[pc]
  /\ UNCHANGED <<svars, strategy, reason, answer>>

\* Entity dialog, planning errors and unreachable services leave the graph.
SecondPathRaises ==
  /\ pc \in {"resolve_entity", "route_query", "plan_outputs", "execute_plan"}
  /\ pc' = "raised"
  /\ UNCHANGED <<svars, strategy, reason, failed, result, answer>>

\* generate_answer: a failure first, then the composed result.
generate_answer ==
  /\ pc = "generate_answer"
  /\ answer' = CASE failed = "infrastructure" -> "none"
                 [] failed \in {"user_correctable", "internal"} -> "failure"
                 [] result \in {"none", "error"} -> "composition error"
                 [] OTHER -> result
  /\ pc' = IF failed = "infrastructure" THEN "raised" ELSE "done"
  /\ UNCHANGED <<svars, strategy, reason, failed, result>>

\* The strict path runs while it is awaited, its tasks as long as they like.
StrictStep ==
  /\ pc = "strict_query" /\ StrictNode
  /\ UNCHANGED ovars

StrictTaskStep(t) == StrictTask(t) /\ UNCHANGED ovars

Next ==
  \/ guard_request \/ classify_topic
  \/ StrictStarts \/ StrictUnavailable \/ StrictRejected \/ StrictAccepted
  \/ StrictRaised \/ StrictTimeout \/ StrictStep
  \/ \E t \in ToolNames : StrictTaskStep(t)
  \/ SecondPathNode \/ SecondPathRaises \/ generate_answer

\* The graph runs its nodes, and the timeout fires.  Nothing is asked of the
\* strict path itself: none of its calls need ever return.
FairSpec ==
  /\ Init /\ [][Next]_vars
  /\ WF_vars(guard_request \/ classify_topic \/ StrictStarts)
  /\ WF_vars(StrictRejected \/ StrictAccepted \/ StrictRaised \/ StrictTimeout)
  /\ WF_vars(SecondPathNode \/ SecondPathRaises \/ generate_answer)

-----------------------------------------------------------------------------
(***************************************************************************)
(* Properties.                                                             *)
(***************************************************************************)
\* An accepted strict attempt is complete: every subquery of its plan was
\* executed and none failed or was cut off, and rows came out of it.
AcceptedComplete ==
  strategy = "strict" =>
    /\ \A i \in DOMAIN plan :
         LET s == outcomes[plan[i].tool] IN ~s.failed /\ ~s.truncated /\ s.result # "none"
    /\ \E i \in DOMAIN plan : outcomes[plan[i].tool].result = "rows"
    /\ ~composed.truncated /\ result = "rows"

\* No number of the question gets lost on the way to an accepted answer: unless
\* a transform computes with it or a resolved name explains it, it stands in the
\* question of an agent that ran, and every condition of an agent's question is
\* in the query its rows come from.
NumbersReachAgents ==
  strategy = "strict" =>
    /\ qty = 0 =>
         \A n \in Numbers : Question.numbers[n] > entity_numbers(n) =>
           \E i \in DOMAIN plan : plan[i].numbers[n] > 0 /\ outcomes[plan[i].tool].invoked
    /\ \A i \in DOMAIN plan :
         outcomes[plan[i].tool].result = "rows" =>
           plan[i].filters \subseteq outcomes[plan[i].tool].enforced

\* Tasks of the strict attempt run on behind the request's back only after a
\* sibling of theirs raised: a timeout takes all of them with it, and an attempt
\* that returned has awaited them.
NothingLeftRunning ==
  pc # "strict_query" /\ reason # "exception" => StrictRunning = {}

\* The entity the strict path works with was named in the question or confirmed
\* by the caller: a name that is only similar is never taken for it.
NoGuessedEntity == [][spc = "resolve" => entity' \subseteq Grounds(reading)]_vars

\* Every request ends with an answer or an exception, although no call of the
\* strict attempt need ever return (asyncio.timeout).
RequestEnds == <>(pc \in {"done", "raised"})
=============================================================================
