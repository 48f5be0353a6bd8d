----------------------------- MODULE StrictAgent -----------------------------
(***************************************************************************)
(* The query agent of the strict path,                                     *)
(* strict_query/snapshot/orchestrator/subgraphs/retry_agent.py, as         *)
(* operators on its state.  Unlike the agent of RetryAgent it first checks *)
(* that the query carries every numeric condition of its question, keeps   *)
(* no diagnostics, and has no result invariant.                            *)
(*                                                                         *)
(* A query is [enforced : the numbers it filters by, guard, contract,      *)
(* execution]; the check of a later field is not reached when an earlier   *)
(* one fails.                                                              *)
(***************************************************************************)
EXTENDS QueryOutcomes, StrictPlanning

Executions ==
  {"rows", "rows_truncated", "empty", "missing_alias", "timeout", "query_error",
   "connection_error", "unexpected_error"}

\* The queries a model can answer with, for a question with these filters; only
\* the Cypher agent has a query contract.  A query that fails a check is given
\* nothing more.
StrictQueries(tool) ==
  LET admitted(e) == [enforced |-> e, guard |-> "allow", contract |-> TRUE,
                      execution |-> "rows"]
      good == admitted(Numbers)
  IN  {admitted(e) : e \in SUBSET Numbers}
      \cup {[good EXCEPT !.guard = g] :
              g \in {"raises", "block", "unknown_name", "filters_raise"}}
      \cup (IF tool = "graph" THEN {[good EXCEPT !.contract = FALSE]} ELSE {})
      \cup {[good EXCEPT !.execution = x] : x \in Executions}

NoStrictQuery ==
  [enforced |-> {}, guard |-> "none", contract |-> TRUE, execution |-> "none"]

\* _initial_state; of the list attempts only whether one of them erred is kept,
\* and error as the code of the failure.
strict_initial_state ==
  [pc |-> "agent", query |-> NoStrictQuery, attempt_count |-> 0, erred |-> FALSE,
   error |-> "none", retryable |-> FALSE, result |-> "none", truncated |-> FALSE,
   empty_retried |-> FALSE, empty_reason |-> "none"]

\* Node agent.
strict_agent(a, q) ==
  [a EXCEPT !.query = q, !.attempt_count = @ + 1, !.pc = "tools"]

\* missing_numeric_filter_literals: the conditions of the question that the query
\* does not carry with the right operator.
missing_numeric_filters(filters, q) == filters \ q.enforced

\* Mutant: the numeric conditions are checked after execution, for rows only.
strict_first_error_LateFilters(q, filters) ==
  CASE q.guard \in {"filters_raise", "raises"} -> "QUERY_VALIDATION_INTERNAL_ERROR"
    [] q.guard \in {"block", "unknown_name"} -> "QUERY_POLICY_BLOCKED"
    [] ~q.contract -> "QUERY_CONTRACT_FAILED"
    [] q.execution = "timeout" -> "QUERY_TIMEOUT"
    [] q.execution = "query_error" -> "QUERY_EXECUTION_FAILED"
    [] q.execution = "connection_error" -> "INFRASTRUCTURE_UNAVAILABLE"
    [] q.execution = "unexpected_error" -> "INTERNAL_QUERY_FAILURE"
    [] q.execution = "missing_alias" -> "QUERY_CONTRACT_FAILED"
    [] OTHER -> "none"

\* The failure() call of node tools that q runs into, in the code's order.
strict_first_error(q, filters) ==
  CASE q.guard = "filters_raise" -> "QUERY_VALIDATION_INTERNAL_ERROR"
    [] missing_numeric_filters(filters, q) # {} -> "QUERY_FILTER_DROPPED"
    [] q.guard = "raises" -> "QUERY_VALIDATION_INTERNAL_ERROR"
    [] q.guard \in {"block", "unknown_name"} -> "QUERY_POLICY_BLOCKED"
    [] ~q.contract -> "QUERY_CONTRACT_FAILED"
    [] q.execution = "timeout" -> "QUERY_TIMEOUT"
    [] q.execution = "query_error" -> "QUERY_EXECUTION_FAILED"
    [] q.execution = "connection_error" -> "INFRASTRUCTURE_UNAVAILABLE"
    [] q.execution = "unexpected_error" -> "INTERNAL_QUERY_FAILURE"
    [] q.execution = "missing_alias" -> "QUERY_CONTRACT_FAILED"
    [] OTHER -> "none"

strict_retryable(q, error) ==
  \/ error \in {"QUERY_FILTER_DROPPED", "QUERY_CONTRACT_FAILED", "QUERY_TIMEOUT",
                "QUERY_EXECUTION_FAILED"}
  \/ error = "QUERY_POLICY_BLOCKED" /\ q.guard # "unknown_name"

\* failure() of node tools; what it does not return keeps its value.
strict_failure(a, error) ==
  [a EXCEPT !.error = error, !.result = "none", !.erred = TRUE,
            !.retryable = strict_retryable(a.query, error)]

\* Did an attempt of the list end in an error other than EMPTY_RESULT?
strict_classify_empty(erred) == IF erred THEN "INCONCLUSIVE" ELSE "NO_DATA"

\* The two returns for an empty batch.
strict_empty(a) ==
  LET seen == [a EXCEPT !.result = "empty", !.truncated = FALSE]
  IN  IF ~a.empty_retried /\ a.attempt_count < MaxAttempts
        THEN [seen EXCEPT !.error = "EMPTY_RESULT", !.retryable = TRUE,
                          !.empty_retried = TRUE]
        ELSE [seen EXCEPT !.error = "none", !.retryable = FALSE,
                          !.empty_reason = strict_classify_empty(a.erred)]

strict_success(a) ==
  [a EXCEPT !.error = "none", !.result = "rows", !.empty_reason = "none",
            !.retryable = FALSE,
            !.truncated = (a.query.execution = "rows_truncated")]

strict_should_retry(a) ==
  IF a.error # "none" /\ a.retryable /\ a.attempt_count < MaxAttempts
    THEN "agent" ELSE "done"

\* Node tools and the conditional edge after it.
strict_tools(a, filters) ==
  LET error == strict_first_error(a.query, filters)
      after == IF error # "none" THEN strict_failure(a, error)
               ELSE IF a.query.execution = "empty" THEN strict_empty(a)
               ELSE strict_success(a)
  IN  [after EXCEPT !.pc = strict_should_retry(after)]
=============================================================================
