---------------------------- MODULE QueryOutcomes ----------------------------
(***************************************************************************)
(* What one subquery of a plan ends with: the summary that execute_plan    *)
(* keeps of an agent's final state (_result_summary), and the summaries    *)
(* an agent can end with at all.  Rows are abstracted to whether there are *)
(* any, attempts to their number, retryDiagnostics to the number of        *)
(* scheduled retries after a violated result invariant, which is all that  *)
(* the rest of the pipeline reads of them.                                 *)
(***************************************************************************)
EXTENDS QueryFailures

CONSTANT MaxAttempts   \* MAX_ATTEMPTS = 3 in the code

ASSUME MaxAttemptsAssumption == MaxAttempts \in Nat \ {0}

\* The codes after which the agent tries again while it has budget left ...
RetriedCodes ==
  {"QUERY_POLICY_BLOCKED", "QUERY_CONTRACT_FAILED", "QUERY_TIMEOUT",
   "QUERY_EXECUTION_FAILED"}

\* ... and those after which it stops at once.  A blocked query is in both: it
\* depends on the guard's reason.
StoppingCodes ==
  {"QUERY_POLICY_BLOCKED", "QUERY_VALIDATION_INTERNAL_ERROR",
   "INFRASTRUCTURE_UNAVAILABLE", "INTERNAL_QUERY_FAILURE"}

AgentFailure(tool, code) ==
  make_query_failure(
    code,
    IF code \in {"QUERY_TIMEOUT", "QUERY_EXECUTION_FAILED",
                 "INFRASTRUCTURE_UNAVAILABLE", "INTERNAL_QUERY_FAILURE"}
      THEN "execution" ELSE "validation",
    CASE code = "INFRASTRUCTURE_UNAVAILABLE" -> "infrastructure"
      [] code \in {"INTERNAL_QUERY_FAILURE", "QUERY_VALIDATION_INTERNAL_ERROR"}
           -> "internal"
      [] OTHER -> "user_correctable",
    tool, FALSE)

NoOutcome ==
  [result |-> "none", failed |-> FALSE, attempts |-> 0, empty_reason |-> "none",
   truncated |-> FALSE, failure |-> NoFailure, invariant_retries |-> 0]

\* A retry after a violated invariant is one of the n - 1 repeated attempts,
\* and only the graph agent has a result invariant.
InvariantRetries(tool, n) == IF tool = "graph" THEN 0 .. (n - 1) ELSE {0}

Succeeded(tool, n) ==
  [result : {"rows"}, failed : {FALSE}, attempts : {n}, empty_reason : {"none"},
   truncated : BOOLEAN, failure : {NoFailure},
   invariant_retries : InvariantRetries(tool, n)]

\* An empty result is the answer only after it was retried once, or with the
\* budget spent; it is inconclusive only if some other attempt failed.
AcceptedEmpty(tool, n) ==
  IF n < 2 /\ n < MaxAttempts
    THEN {}
    ELSE [result : {"empty"}, failed : {FALSE}, attempts : {n},
          empty_reason : {"NO_DATA", "INCONCLUSIVE"}, truncated : {FALSE},
          failure : {NoFailure}, invariant_retries : InvariantRetries(tool, n)]

FailedAfter(tool, n) ==
  [result : {"none"}, failed : {TRUE}, attempts : {n}, empty_reason : {"none"},
   truncated : {FALSE},
   failure :
     {AgentFailure(tool, c) :
        c \in StoppingCodes \cup (IF n = MaxAttempts THEN RetriedCodes ELSE {})},
   invariant_retries : InvariantRetries(tool, n)]

\* Every summary an agent for tool can end with after n attempts.
AgentOutcomes(tool, n) ==
  Succeeded(tool, n) \cup AcceptedEmpty(tool, n) \cup FailedAfter(tool, n)
=============================================================================
