----------------------------- MODULE RetryAgent -----------------------------
(***************************************************************************)
(* The query agent of orchestrator/subgraphs/retry_agent.py: a LangGraph   *)
(* subgraph agent -> tools -> should_retry that lets a language model      *)
(* write a query, guards it, executes it, and feeds the failure back to    *)
(* the model until the query succeeds or the budget is spent.  sql_agent   *)
(* and cypher_agent are two configurations of it (constant Tool).          *)
(*                                                                         *)
(* What the model writes is unpredictable, so a generated query is a       *)
(* record saying how the guard, the query contract and the database will   *)
(* take it; generation chooses it freely.                                  *)
(***************************************************************************)
EXTENDS QueryFailures, Sequences, FiniteSets

CONSTANTS
  Tool,         \* which agent: "sql" or "graph"
  MaxAttempts   \* MAX_ATTEMPTS = 3 in the code

ASSUME ToolAssumption == Tool \in ToolNames
ASSUME MaxAttemptsAssumption == MaxAttempts \in Nat \ {0}

VARIABLES
  pc,            \* node to run next: agent, tools, should_retry, done; or raised
  query,         \* the last message: the query the model wrote last
  attempt_count,
  attempts,      \* one error class per query that went through tools
  error,         \* "none" is Python's None
  retryable,
  failure,
  result,        \* "none", "empty" or "rows"
  truncated,
  empty_retried,
  empty_reason,
  diagnostics,   \* retryDiagnostics
  feedback,      \* retry_feedback: what the next generation is told
  failed_query,  \* the attempt whose query is kept as failed_query, 0 for None
  executed       \* history: attempts whose query reached the database

vars == <<pc, query, attempt_count, attempts, error, retryable, failure, result,
          truncated, empty_retried, empty_reason, diagnostics, feedback,
          failed_query, executed>>

-----------------------------------------------------------------------------
(***************************************************************************)
(* Queries.                                                                *)
(***************************************************************************)
EMPTY_RESULT == "EMPTY_RESULT"
NO_DATA      == "NO_DATA"
INCONCLUSIVE == "INCONCLUSIVE"

\* allow; block with a reason another query can avoid; block because a name is
\* not in the schema (_NON_RETRYABLE_GUARD_REASONS); the guard itself raises
GuardVerdicts == {"allow", "block", "unknown_name", "raises"}

\* What the SQL side can make of an executed query ...
SqlExecutions ==
  {"rows", "rows_truncated", "empty", "missing_alias",
   "timeout", "query_error", "connection_error", "unexpected_error"}

\* ... and the graph side, which also checks the result against an invariant.
GraphExecutions ==
  SqlExecutions \cup {"invariant_violated", "invariant_raises"}

\* query_contract_error and result_contract_error are configured for the Cypher
\* agent only.
Queries ==
  IF Tool = "graph"
    THEN [guard : GuardVerdicts, contract : BOOLEAN, execution : GraphExecutions]
    ELSE [guard : GuardVerdicts, contract : {TRUE}, execution : SqlExecutions]

NoQuery == [guard |-> "none", contract |-> TRUE, execution |-> "none"]

-----------------------------------------------------------------------------
(***************************************************************************)
(* The ways one attempt fails: the arguments of the local function         *)
(* failure() at each of its call sites in tools.                           *)
(***************************************************************************)
Errors == {"validation", "policy", "contract", "execution", "connection",
           "internal", "missing_alias", "invariant"}

FailureArg ==
  [message : Errors, retryable : BOOLEAN, safe : QueryFailure,
   stage : {"validation", "execution", "result_contract", "result_invariant"},
   feedback : {"message", "exception"}]

\* No call site applies.
Passed ==
  [message |-> "none", retryable |-> FALSE, safe |-> NoFailure,
   stage |-> "none", feedback |-> "message"]

FailureCall(message, retry, code, codeStage, kind, stage, fb) ==
  [message |-> message, retryable |-> retry,
   safe |-> make_query_failure(code, codeStage, kind, Tool, FALSE),
   stage |-> stage, feedback |-> fb]

internal_validation_failure ==
  FailureCall("validation", FALSE, "QUERY_VALIDATION_INTERNAL_ERROR",
              "validation", "internal", "validation", "message")

check_guard(q) ==
  CASE q.guard = "raises" -> internal_validation_failure
    [] q.guard \in {"block", "unknown_name"} ->
         FailureCall("policy", q.guard # "unknown_name", "QUERY_POLICY_BLOCKED",
                     "validation", "user_correctable", "validation", "message")
    [] OTHER -> Passed

check_contract(q) ==
  IF q.contract
    THEN Passed
    ELSE FailureCall("contract", TRUE, "QUERY_CONTRACT_FAILED", "validation",
                     "user_correctable", "validation", "message")

\* The except clauses around execute(); retryable_exceptions come first, so a
\* cancelled statement is a timeout and not a connection error.
execution_failure(q) ==
  CASE q.execution = "timeout" ->
         FailureCall("execution", TRUE, "QUERY_TIMEOUT", "execution",
                     "user_correctable", "execution", "exception")
    [] q.execution = "query_error" ->
         FailureCall("execution", TRUE, "QUERY_EXECUTION_FAILED", "execution",
                     "user_correctable", "execution", "exception")
    [] q.execution = "connection_error" ->
         FailureCall("connection", FALSE, "INFRASTRUCTURE_UNAVAILABLE",
                     "execution", "infrastructure", "execution", "message")
    [] q.execution = "unexpected_error" ->
         FailureCall("internal", FALSE, "INTERNAL_QUERY_FAILURE", "execution",
                     "internal", "execution", "message")
    [] OTHER -> Passed

\* The checks on a non-empty result.
result_failure(q) ==
  CASE q.execution = "missing_alias" ->
         FailureCall("missing_alias", TRUE, "QUERY_CONTRACT_FAILED", "validation",
                     "user_correctable", "result_contract", "message")
    [] q.execution = "invariant_raises" -> internal_validation_failure
    [] q.execution = "invariant_violated" ->
         FailureCall("invariant", TRUE, "QUERY_CONTRACT_FAILED", "validation",
                     "user_correctable", "result_invariant", "message")
    [] OTHER -> Passed

Admitted(q) == check_guard(q) = Passed /\ check_contract(q) = Passed

\* The failure() call that tools makes for q, checks in the code's order.
FirstFailure(q) ==
  IF check_guard(q) # Passed THEN check_guard(q)
  ELSE IF check_contract(q) # Passed THEN check_contract(q)
  ELSE IF execution_failure(q) # Passed THEN execution_failure(q)
  ELSE result_failure(q)

\* The empty batch: execute() returned no rows, so no later check is made.
IsEmpty(q) == Admitted(q) /\ q.execution = "empty"

\* Mutant: only the attempt just before is looked at.
classify_empty_result_LastOnly(prior) ==
  IF prior # <<>> /\ prior[Len(prior)] \notin {"none", EMPTY_RESULT}
    THEN INCONCLUSIVE
    ELSE NO_DATA

classify_empty_result(prior) ==
  IF \E i \in DOMAIN prior : prior[i] \notin {"none", EMPTY_RESULT}
    THEN INCONCLUSIVE
    ELSE NO_DATA

-----------------------------------------------------------------------------
Init ==
  /\ pc = "agent"
  /\ query = NoQuery
  /\ attempt_count = 0
  /\ attempts = <<>>
  /\ error = "none"
  /\ retryable = FALSE
  /\ failure = NoFailure
  /\ result = "none"
  /\ truncated = FALSE
  /\ empty_retried = FALSE
  /\ empty_reason = "none"
  /\ diagnostics = <<>>
  /\ feedback = "none"
  /\ failed_query = 0
  /\ executed = {}

\* Node agent: the model answers with a query.
Agent ==
  /\ pc = "agent"
  /\ \E q \in Queries : query' = q
  /\ attempt_count' = attempt_count + 1
  /\ pc' = "tools"
  /\ UNCHANGED <<attempts, error, retryable, failure, result, truncated,
                 empty_retried, empty_reason, diagnostics, feedback,
                 failed_query, executed>>

\* Node agent: the model cannot be called; QueryInfrastructureError leaves the
\* subgraph and nothing is returned to the caller.
AgentRaises ==
  /\ pc = "agent"
  /\ pc' = "raised"
  /\ UNCHANGED <<query, attempt_count, attempts, error, retryable, failure,
                 result, truncated, empty_retried, empty_reason, diagnostics,
                 feedback, failed_query, executed>>

Diagnostic(stage, reason, scheduled) ==
  [stage |-> stage, reason |-> reason, attempt |-> attempt_count,
   scheduled |-> scheduled, recovered |-> FALSE]

\* A query reaches the database when both checks let it pass.
Execute(q) ==
  executed' = IF Admitted(q) THEN executed \cup {attempt_count} ELSE executed

\* Mutant: the budget is compared the wrong way round at its limit.
retry_scheduled_OffByOne(f) == f.retryable /\ attempt_count <= MaxAttempts

\* retryScheduled, and the decision of record_decision.
retry_scheduled(f) == f.retryable /\ attempt_count < MaxAttempts

\* Node tools, every path that ends in failure().
ToolsFail ==
  LET f == FirstFailure(query) IN
  /\ pc = "tools"
  /\ f # Passed
  /\ Execute(query)
  /\ error' = f.message
  /\ feedback' = f.feedback
  /\ result' = "none"
  /\ attempts' = Append(attempts, f.message)
  /\ diagnostics' =
       Append(diagnostics,
              Diagnostic(f.stage, f.message, retry_scheduled(f)))
  /\ retryable' = f.retryable
  /\ failure' = f.safe
  /\ failed_query' = attempt_count
  /\ pc' = "should_retry"
  /\ UNCHANGED <<query, attempt_count, truncated, empty_retried, empty_reason>>

\* Mutants: the flag is read the wrong way round; the flag or the budget is
\* forgotten.
can_retry_empty_Inverted == empty_retried /\ attempt_count < MaxAttempts

can_retry_empty_Always == attempt_count < MaxAttempts

can_retry_empty_NoBudget == ~empty_retried

can_retry_empty == ~empty_retried /\ attempt_count < MaxAttempts

mark_recovered ==
  [i \in DOMAIN diagnostics |-> [diagnostics[i] EXCEPT !.recovered = TRUE]]

empty_diagnostics(scheduled) ==
  Append(diagnostics, Diagnostic("result", EMPTY_RESULT, scheduled))

\* Node tools, no rows, and the one retry an empty result is given.
ToolsEmptyRetry ==
  /\ pc = "tools"
  /\ IsEmpty(query)
  /\ can_retry_empty
  /\ Execute(query)
  /\ error' = EMPTY_RESULT
  /\ feedback' = EMPTY_RESULT
  /\ result' = "empty"
  /\ attempts' = Append(attempts, EMPTY_RESULT)
  /\ diagnostics' = empty_diagnostics(TRUE)
  /\ retryable' = TRUE
  /\ empty_retried' = TRUE
  /\ truncated' = FALSE
  /\ failure' = NoFailure
  /\ pc' = "should_retry"
  /\ UNCHANGED <<query, attempt_count, empty_reason, failed_query>>

\* Node tools, no rows, accepted as the answer.
ToolsEmptyAccept ==
  /\ pc = "tools"
  /\ IsEmpty(query)
  /\ ~can_retry_empty
  /\ Execute(query)
  /\ error' = "none"
  /\ feedback' = "none"
  /\ result' = "empty"
  /\ empty_reason' = classify_empty_result(attempts)
  /\ attempts' = Append(attempts, EMPTY_RESULT)
  /\ diagnostics' = empty_diagnostics(FALSE)
  /\ retryable' = FALSE
  /\ truncated' = FALSE
  /\ failure' = NoFailure
  /\ pc' = "should_retry"
  /\ UNCHANGED <<query, attempt_count, empty_retried, failed_query>>

\* Node tools, rows that pass every check.
ToolsSucceed ==
  /\ pc = "tools"
  /\ FirstFailure(query) = Passed
  /\ ~IsEmpty(query)
  /\ Execute(query)
  /\ error' = "none"
  /\ feedback' = "none"
  /\ result' = "rows"
  /\ empty_reason' = "none"
  /\ attempts' = Append(attempts, "none")
  /\ diagnostics' = mark_recovered
  /\ retryable' = FALSE
  /\ truncated' = (query.execution = "rows_truncated")
  /\ failure' = NoFailure
  /\ pc' = "should_retry"
  /\ UNCHANGED <<query, attempt_count, empty_retried, failed_query>>

Tools == ToolsFail \/ ToolsEmptyRetry \/ ToolsEmptyAccept \/ ToolsSucceed

\* Mutant of the conditional edge: off by one.
edge_OneTooMany ==
  IF error = "none" \/ ~retryable THEN "done"
  ELSE IF attempt_count > MaxAttempts THEN "exhausted" ELSE "retry"

\* What should_retry decides: no error, or one another query would not cure;
\* the budget is spent; or another attempt.
edge ==
  IF error = "none" \/ ~retryable THEN "done"
  ELSE IF attempt_count >= MaxAttempts THEN "exhausted" ELSE "retry"

\* The conditional edge after tools.
should_retry ==
  /\ pc = "should_retry"
  /\ pc' = IF edge = "retry" THEN "agent" ELSE "done"
  /\ UNCHANGED <<query, attempt_count, attempts, error, retryable, failure,
                 result, truncated, empty_retried, empty_reason, diagnostics,
                 feedback, failed_query, executed>>

Next == Agent \/ AgentRaises \/ Tools \/ should_retry

Spec == Init /\ [][Next]_vars

\* An awaited call of the subgraph returns or raises (the OpenAI client, the
\* statement timeout and the Neo4j timeout bound every await in it), so its
\* next node is always run.
FairSpec == Spec /\ WF_vars(Next)

-----------------------------------------------------------------------------
(***************************************************************************)
(* Properties.                                                             *)
(***************************************************************************)
Diagnostics ==
  [stage : {"validation", "execution", "result_contract", "result_invariant",
            "result"},
   reason : Errors \cup {EMPTY_RESULT}, attempt : 1 .. MaxAttempts,
   scheduled : BOOLEAN, recovered : BOOLEAN]

\* The state of the subgraph (RetryAgentState) keeps its declared types.
TypeOK ==
  /\ pc \in {"agent", "tools", "should_retry", "done", "raised"}
  /\ query \in Queries \cup {NoQuery}
  /\ attempt_count \in Nat
  /\ attempts \in Seq(Errors \cup {EMPTY_RESULT, "none"})
  /\ error \in Errors \cup {EMPTY_RESULT, "none"}
  /\ retryable \in BOOLEAN
  /\ failure \in MaybeFailure
  /\ result \in {"none", "empty", "rows"}
  /\ truncated \in BOOLEAN
  /\ empty_retried \in BOOLEAN
  /\ empty_reason \in {"none", NO_DATA, INCONCLUSIVE}
  /\ diagnostics \in Seq(Diagnostics)
  /\ feedback \in {"none", "message", "exception", EMPTY_RESULT}
  /\ failed_query \in 0 .. MaxAttempts
  /\ executed \subseteq 1 .. MaxAttempts

\* The number of queries generated never passes MAX_ATTEMPTS, whatever mix of
\* failures and empty results is met, and every generated query is recorded in
\* attempts exactly once (MAX_ATTEMPTS, should_retry, attempts in tools).
BudgetKept ==
  /\ attempt_count <= MaxAttempts
  /\ Len(attempts) = IF pc = "tools" THEN attempt_count - 1 ELSE attempt_count

\* Over a whole run at most one retry is spent on an empty result, also when
\* other failures come between two empty results (can_retry_empty).
EmptyRetriedOnce ==
  \A i, j \in DOMAIN diagnostics :
    /\ diagnostics[i].reason = EMPTY_RESULT /\ diagnostics[i].scheduled
    /\ diagnostics[j].reason = EMPTY_RESULT /\ diagnostics[j].scheduled
    => i = j

\* What the caller of the finished subgraph reads agrees with itself: exactly
\* one of an error with its safe failure, rows, or an empty result with its
\* reason; and EMPTY_RESULT, which is not a failure, never gets out as an error
\* (the return values of tools, seen after several attempts).
OutcomeConsistent ==
  pc = "done" =>
    /\ (error = "none") <=> (failure = NoFailure)
    /\ (error = "none") <=> (result # "none")
    /\ (result = "empty") <=> (empty_reason # "none")
    /\ error # EMPTY_RESULT
    /\ error # "none" => failure.failed_tool = Tool /\ ~truncated

\* NO_DATA is claimed only if every attempt of the run executed cleanly, and
\* INCONCLUSIVE only if one did not (_classify_empty_result).
EmptyReasonSound ==
  pc = "done" /\ result = "empty" =>
    /\ (empty_reason = NO_DATA) <=>
         \A i \in DOMAIN attempts : attempts[i] = EMPTY_RESULT
    /\ (empty_reason = INCONCLUSIVE) <=>
         \E i \in DOMAIN attempts : attempts[i] \in Errors

\* The retryScheduled flag of a diagnostic, decided in tools, says what
\* should_retry then does: a scheduled retry is made (unless the model cannot
\* be called), and one that is not scheduled is never made.
RetryScheduledKept ==
  \A i \in DOMAIN diagnostics :
    IF diagnostics[i].scheduled
      THEN attempt_count > diagnostics[i].attempt \/ pc # "done"
      ELSE attempt_count = diagnostics[i].attempt

\* A failure is marked recovered exactly when the run ended with rows: an
\* accepted empty result is no evidence of a repair (the comment on
\* record_attempt(EMPTY_RESULT_ERROR, ...), and the success branch of tools).
RecoveredMeansRows ==
  \A i \in DOMAIN diagnostics : diagnostics[i].recovered <=> result = "rows"

\* A query the guard or the contract rejected never reached the database, in no
\* attempt of the run, and one that failed in the database or returned did
\* (order of check_guard, check_contract, execute_and_classify).
RejectedNeverExecuted ==
  \A i \in DOMAIN attempts :
    /\ attempts[i] \in {"policy", "contract"} => i \notin executed
    /\ attempts[i] \notin {"policy", "contract", "validation"} => i \in executed

\* The model is told about the attempt just before, and is given the empty
\* result hint exactly when that attempt returned no rows (retry_feedback).
FeedbackFresh ==
  pc = "agent" /\ attempt_count > 0 =>
    /\ feedback # "none"
    /\ (feedback = EMPTY_RESULT) <=> (attempts[Len(attempts)] = EMPTY_RESULT)

\* What a run tells of its attempts is true of all of them: the reason it gives
\* for an empty result, the failures it calls recovered, the queries it sent to
\* the database, and what the model is told before it writes the next one.
AttemptsTold ==
  EmptyReasonSound /\ RecoveredMeansRows /\ RejectedNeverExecuted /\ FeedbackFresh

\* The summary execute_plan keeps (_result_summary) and the refinement of
\* QueryAgent it gives rise to.
result_summary ==
  [result |-> result, failed |-> error # "none", attempts |-> Len(attempts),
   empty_reason |-> empty_reason, truncated |-> truncated, failure |-> failure,
   invariant_retries |->
     Cardinality({i \in DOMAIN diagnostics :
                    /\ diagnostics[i].stage = "result_invariant"
                    /\ diagnostics[i].scheduled})]

Contract ==
  INSTANCE QueryAgent WITH
    phase   <- IF pc \in {"done", "raised"} THEN pc ELSE "running",
    spent   <- attempt_count,
    outcome <- IF pc = "done"
                 THEN result_summary
                 ELSE [result |-> "none", failed |-> FALSE, attempts |-> 0,
                       empty_reason |-> "none", truncated |-> FALSE,
                       failure |-> NoFailure, invariant_retries |-> 0]

\* The agent implements the contract ExecutePlan relies on: a failure that
\* could be retried is returned only with the budget spent, an empty result
\* only after its retry, and nothing is returned before the run is over.
ImplementsQueryAgent == Contract!Spec
=============================================================================
