-------------------------- MODULE RetryAgentProofs --------------------------
(***************************************************************************)
(* Proofs about the query agent, for every budget MaxAttempts and for both *)
(* agents.                                                                 *)
(***************************************************************************)
EXTENDS RetryAgent, FiniteSetTheorems, TLAPS

USE ToolAssumption, MaxAttemptsAssumption DEF EMPTY_RESULT, NO_DATA, INCONCLUSIVE

-----------------------------------------------------------------------------
(***************************************************************************)
(* The failure() calls of tools are well-formed, and name the agent's own  *)
(* tool.                                                                   *)
(***************************************************************************)

\* Each check answers with a failure() call of the right shape, or Passed
\* (check_guard, check_contract, execute_and_classify).
LEMMA FirstFailureType ==
  ASSUME NEW q
  PROVE  /\ FirstFailure(q) \in FailureArg \cup {Passed}
         /\ FirstFailure(q) # Passed =>
              /\ FirstFailure(q).message \in Errors
              /\ FirstFailure(q).safe # NoFailure
              /\ FirstFailure(q).safe.failed_tool = Tool
<1>0. Passed.message = "none" /\ "none" \notin Errors
  BY DEF Passed, Errors
<1>1. /\ check_guard(q) \in FailureArg \cup {Passed}
      /\ check_guard(q) # Passed => check_guard(q).safe.failed_tool = Tool
  BY DEF check_guard, internal_validation_failure, FailureCall, FailureArg, Passed,
         Errors, make_query_failure, QueryFailure, FailureCodes, FailureStages,
         FailureKinds, ToolNames
<1>2. /\ check_contract(q) \in FailureArg \cup {Passed}
      /\ check_contract(q) # Passed => check_contract(q).safe.failed_tool = Tool
  BY DEF check_contract, FailureCall, FailureArg, Passed,
         Errors, make_query_failure, QueryFailure, FailureCodes, FailureStages,
         FailureKinds, ToolNames
<1>3. /\ execution_failure(q) \in FailureArg \cup {Passed}
      /\ execution_failure(q) # Passed => execution_failure(q).safe.failed_tool = Tool
  BY DEF execution_failure, FailureCall, FailureArg, Passed,
         Errors, make_query_failure, QueryFailure, FailureCodes, FailureStages,
         FailureKinds, ToolNames
<1>4. /\ result_failure(q) \in FailureArg \cup {Passed}
      /\ result_failure(q) # Passed => result_failure(q).safe.failed_tool = Tool
  BY DEF result_failure, internal_validation_failure, FailureCall, FailureArg,
         Passed, Errors, make_query_failure, QueryFailure, FailureCodes,
         FailureStages, FailureKinds, ToolNames
<1>5. /\ FirstFailure(q) \in FailureArg \cup {Passed}
      /\ FirstFailure(q) # Passed => FirstFailure(q).safe.failed_tool = Tool
  BY <1>1, <1>2, <1>3, <1>4 DEF FirstFailure
<1>6. ASSUME FirstFailure(q) \in FailureArg
      PROVE  FirstFailure(q).safe # NoFailure /\ FirstFailure(q).message \in Errors
  <2>1. FirstFailure(q).safe.code \in FailureCodes
    BY <1>6 DEF FailureArg, QueryFailure
  <2>2. NoFailure.code \notin FailureCodes
    BY DEF NoFailure, FailureCodes
  <2>. QED BY <1>6, <2>1, <2>2 DEF FailureArg
<1>. QED BY <1>5, <1>6

-----------------------------------------------------------------------------
(***************************************************************************)
(* Types and the budget.  TypeOK is not inductive by itself: that an       *)
(* attempt number stays within 1 .. MaxAttempts needs the budget, and that *)
(* the budget holds needs to know that should_retry goes back to agent     *)
(* only below it.                                                          *)
(***************************************************************************)

\* Where the run is in its budget, at each node of the subgraph.
Phase ==
  /\ BudgetKept
  /\ pc = "agent" => attempt_count < MaxAttempts
  /\ pc \in {"tools", "should_retry", "done"} => attempt_count > 0
  /\ pc = "tools" => query \in Queries

IInv == TypeOK /\ Phase

\* Marking diagnostics as recovered keeps their number and their type (the
\* comprehension in the success branch of tools).
LEMMA RecoveredType ==
  ASSUME diagnostics \in Seq(Diagnostics)
  PROVE  mark_recovered \in Seq(Diagnostics)
<1>0. DOMAIN diagnostics = 1 .. Len(diagnostics) /\ Len(diagnostics) \in Nat
  OBVIOUS
<1>1. ASSUME NEW i \in DOMAIN diagnostics
      PROVE  [diagnostics[i] EXCEPT !.recovered = TRUE] \in Diagnostics
  <2>1. diagnostics[i] \in Diagnostics
    BY <1>0
  <2>. QED BY <2>1 DEF Diagnostics
<1>2. mark_recovered \in [1 .. Len(diagnostics) -> Diagnostics]
  BY <1>0, <1>1 DEF mark_recovered
<1>. QED BY <1>0, <1>2

\* Appending to a sequence (attempts, retryDiagnostics).
LEMMA AppendProperties ==
  ASSUME NEW S, NEW s \in Seq(S), NEW x \in S
  PROVE  /\ Append(s, x) \in Seq(S)
         /\ Len(Append(s, x)) = Len(s) + 1
         /\ \A i \in 1 .. Len(s) : Append(s, x)[i] = s[i]
         /\ Append(s, x)[Len(s) + 1] = x
OBVIOUS

LEMMA InitIInv == Init => IInv
<1>. SUFFICES ASSUME Init PROVE IInv
  OBVIOUS
<1>1. /\ attempts \in Seq(Errors \cup {EMPTY_RESULT, "none"})
      /\ Len(attempts) = 0
  BY DEF Init
<1>2. diagnostics \in Seq(Diagnostics)
  BY DEF Init
<1>3. failure \in MaybeFailure /\ query \in Queries \cup {NoQuery}
  BY DEF Init, MaybeFailure
<1>4. executed \subseteq 1 .. MaxAttempts /\ failed_query \in 0 .. MaxAttempts
  BY DEF Init
<1>5. /\ retryable \in BOOLEAN /\ truncated \in BOOLEAN
      /\ empty_retried \in BOOLEAN
      /\ empty_reason \in {"none", NO_DATA, INCONCLUSIVE}
      /\ error \in Errors \cup {EMPTY_RESULT, "none"}
  BY DEF Init
<1>6. TypeOK
  BY <1>1, <1>2, <1>3, <1>4, <1>5 DEF Init, TypeOK
<1>. QED BY <1>1, <1>6 DEF Init, IInv, Phase, BudgetKept

\* Every path through tools records one attempt and leaves for should_retry.
LEMMA PhaseAfterTools ==
  ASSUME IInv, pc = "tools", pc' = "should_retry",
         attempt_count' = attempt_count, Len(attempts') = Len(attempts) + 1
  PROVE  Phase'
BY DEF IInv, TypeOK, Phase, BudgetKept

LEMMA NextIInv == IInv /\ [Next]_vars => IInv'
<1>. SUFFICES ASSUME IInv, [Next]_vars PROVE IInv'
  OBVIOUS
<1>1. CASE Agent
  BY <1>1 DEF Agent, IInv, TypeOK, Phase, BudgetKept
<1>2. CASE AgentRaises
  BY <1>2 DEF AgentRaises, IInv, TypeOK, Phase, BudgetKept
<1>3. CASE ToolsFail
  <2>. DEFINE f == FirstFailure(query)
              d == Diagnostic(f.stage, f.message, retry_scheduled(f))
  <2>1. f \in FailureArg
    BY <1>3, FirstFailureType DEF ToolsFail
  <2>2. diagnostics' \in Seq(Diagnostics)
    <3>1. d \in Diagnostics
      BY <1>3, <2>1 DEF ToolsFail, Diagnostic, Diagnostics, FailureArg,
                        retry_scheduled, IInv, TypeOK, Phase, BudgetKept
    <3>2. diagnostics' = Append(diagnostics, d)
      BY <1>3 DEF ToolsFail
    <3>. HIDE DEF d
    <3>. QED BY <3>1, <3>2, AppendProperties DEF IInv, TypeOK
  <2>3. executed' \subseteq 1 .. MaxAttempts
    BY <1>3 DEF ToolsFail, Execute, IInv, TypeOK, Phase, BudgetKept
  <2>4. /\ attempts' \in Seq(Errors \cup {EMPTY_RESULT, "none"})
        /\ Len(attempts') = Len(attempts) + 1
    <3>1. f.message \in Errors
      BY <2>1 DEF FailureArg
    <3>2. attempts' = Append(attempts, f.message)
      BY <1>3 DEF ToolsFail
    <3>. HIDE DEF f
    <3>. QED BY <3>1, <3>2, AppendProperties DEF IInv, TypeOK
  <2>5. /\ error' \in Errors \cup {EMPTY_RESULT, "none"}
        /\ failure' \in MaybeFailure
        /\ retryable' \in BOOLEAN
        /\ feedback' \in {"none", "message", "exception", EMPTY_RESULT}
    BY <1>3, <2>1 DEF ToolsFail, FailureArg, MaybeFailure
  <2>6. TypeOK'
    BY <1>3, <2>2, <2>3, <2>4, <2>5
    DEF ToolsFail, IInv, TypeOK, Phase, BudgetKept
  <2>7. Phase'
    BY <1>3, <2>4, PhaseAfterTools DEF ToolsFail
  <2>. QED BY <2>6, <2>7 DEF IInv
<1>4. CASE ToolsEmptyRetry
  <2>1. diagnostics' \in Seq(Diagnostics)
    <3>. DEFINE d == Diagnostic("result", EMPTY_RESULT, TRUE)
    <3>1. d \in Diagnostics
      BY <1>4 DEF ToolsEmptyRetry, Diagnostic, Diagnostics, IInv, TypeOK, Phase, BudgetKept
    <3>2. diagnostics' = Append(diagnostics, d)
      BY <1>4 DEF ToolsEmptyRetry, empty_diagnostics
    <3>. HIDE DEF d
    <3>. QED BY <3>1, <3>2, AppendProperties DEF IInv, TypeOK
  <2>2. executed' \subseteq 1 .. MaxAttempts
    BY <1>4 DEF ToolsEmptyRetry, Execute, IInv, TypeOK, Phase, BudgetKept
  <2>3. attempts' = Append(attempts, EMPTY_RESULT)
    BY <1>4 DEF ToolsEmptyRetry
  <2>4. /\ attempts' \in Seq(Errors \cup {EMPTY_RESULT, "none"})
        /\ Len(attempts') = Len(attempts) + 1
    BY <2>3, AppendProperties DEF IInv, TypeOK
  <2>5. TypeOK'
    BY <1>4, <2>1, <2>2, <2>4 DEF ToolsEmptyRetry, IInv, TypeOK, MaybeFailure
  <2>6. Phase'
    BY <1>4, <2>4, PhaseAfterTools DEF ToolsEmptyRetry
  <2>. QED BY <2>5, <2>6 DEF IInv
<1>5. CASE ToolsEmptyAccept
  <2>1. diagnostics' \in Seq(Diagnostics)
    <3>. DEFINE d == Diagnostic("result", EMPTY_RESULT, FALSE)
    <3>1. d \in Diagnostics
      BY <1>5 DEF ToolsEmptyAccept, Diagnostic, Diagnostics, IInv, TypeOK, Phase, BudgetKept
    <3>2. diagnostics' = Append(diagnostics, d)
      BY <1>5 DEF ToolsEmptyAccept, empty_diagnostics
    <3>. HIDE DEF d
    <3>. QED BY <3>1, <3>2, AppendProperties DEF IInv, TypeOK
  <2>2. executed' \subseteq 1 .. MaxAttempts
    BY <1>5 DEF ToolsEmptyAccept, Execute, IInv, TypeOK, Phase, BudgetKept
  <2>3. attempts' = Append(attempts, EMPTY_RESULT)
    BY <1>5 DEF ToolsEmptyAccept
  <2>4. /\ attempts' \in Seq(Errors \cup {EMPTY_RESULT, "none"})
        /\ Len(attempts') = Len(attempts) + 1
    BY <2>3, AppendProperties DEF IInv, TypeOK
  <2>5. empty_reason' \in {"none", NO_DATA, INCONCLUSIVE}
    BY <1>5 DEF ToolsEmptyAccept, classify_empty_result
  <2>6. TypeOK'
    BY <1>5, <2>1, <2>2, <2>4, <2>5 DEF ToolsEmptyAccept, IInv, TypeOK, MaybeFailure
  <2>7. Phase'
    BY <1>5, <2>4, PhaseAfterTools DEF ToolsEmptyAccept
  <2>. QED BY <2>6, <2>7 DEF IInv
<1>6. CASE ToolsSucceed
  <2>1. diagnostics' \in Seq(Diagnostics)
    BY <1>6, RecoveredType DEF ToolsSucceed, IInv, TypeOK
  <2>2. executed' \subseteq 1 .. MaxAttempts
    BY <1>6 DEF ToolsSucceed, Execute, IInv, TypeOK, Phase, BudgetKept
  <2>3. attempts' = Append(attempts, "none")
    BY <1>6 DEF ToolsSucceed
  <2>4. /\ attempts' \in Seq(Errors \cup {EMPTY_RESULT, "none"})
        /\ Len(attempts') = Len(attempts) + 1
    BY <2>3, AppendProperties DEF IInv, TypeOK
  <2>5. truncated' \in BOOLEAN
    BY <1>6 DEF ToolsSucceed
  <2>6. TypeOK'
    BY <1>6, <2>1, <2>2, <2>4, <2>5 DEF ToolsSucceed, IInv, TypeOK, MaybeFailure
  <2>7. Phase'
    BY <1>6, <2>4, PhaseAfterTools DEF ToolsSucceed
  <2>. QED BY <2>6, <2>7 DEF IInv
<1>7. CASE should_retry
  BY <1>7 DEF should_retry, edge, IInv, TypeOK, Phase, BudgetKept
<1>8. CASE UNCHANGED vars
  BY <1>8 DEF vars, IInv, TypeOK, Phase, BudgetKept
<1>. QED
  BY <1>1, <1>2, <1>3, <1>4, <1>5, <1>6, <1>7, <1>8 DEF Next, Tools

\* The inductive invariant holds throughout every run of the agent.
THEOREM RetryAgentInvariant == Spec => []IInv
BY InitIInv, NextIInv, PTL DEF Spec

\* The state of the subgraph keeps its types (RetryAgentState), for every
\* budget.
THEOREM TypeCorrect == Spec => []TypeOK
<1>1. IInv => TypeOK
  BY DEF IInv
<1>. QED BY <1>1, RetryAgentInvariant, PTL

\* No run generates more than MAX_ATTEMPTS queries, and each one is recorded.
THEOREM Budget == Spec => []BudgetKept
<1>1. IInv => BudgetKept
  BY DEF IInv, Phase
<1>. QED BY <1>1, RetryAgentInvariant, PTL

-----------------------------------------------------------------------------
(***************************************************************************)
(* What a finished run reports.                                            *)
(***************************************************************************)

\* Between attempts nothing of an answer is left over; after tools the run
\* holds exactly one of an answer, a failure, or an empty result that will be
\* retried.
Settled ==
  /\ pc \in {"agent", "tools"} =>
       result # "rows" /\ ~truncated /\ empty_reason = "none"
  /\ pc \in {"should_retry", "done"} =>
       \/ /\ error = "none" /\ failure = NoFailure /\ result # "none"
          /\ (result = "empty") <=> (empty_reason # "none")
       \/ /\ error \in Errors /\ failure # NoFailure /\ failure.failed_tool = Tool
          /\ result = "none" /\ ~truncated /\ empty_reason = "none"
       \/ /\ pc = "should_retry" /\ error = EMPTY_RESULT
          /\ retryable /\ attempt_count < MaxAttempts
          /\ result = "empty" /\ ~truncated /\ empty_reason = "none"

LEMMA NextSettled == IInv /\ Settled /\ [Next]_vars => Settled'
<1>. SUFFICES ASSUME IInv, Settled, [Next]_vars PROVE Settled'
  OBVIOUS
<1>0. "none" \notin Errors /\ EMPTY_RESULT \notin Errors
  BY DEF Errors
<1>1. CASE Agent
  BY <1>1 DEF Agent, Settled
<1>2. CASE AgentRaises
  BY <1>2 DEF AgentRaises, Settled
<1>3. CASE ToolsFail
  <2>1. /\ error' \in Errors /\ failure' # NoFailure /\ failure'.failed_tool = Tool
        /\ result' = "none"
    BY <1>3, FirstFailureType DEF ToolsFail
  <2>2. ~truncated' /\ empty_reason' = "none" /\ pc' = "should_retry"
    BY <1>3 DEF ToolsFail, Settled
  <2>. QED BY <2>1, <2>2 DEF Settled
<1>4. CASE ToolsEmptyRetry
  BY <1>4 DEF ToolsEmptyRetry, can_retry_empty, Settled
<1>5. CASE ToolsEmptyAccept
  <2>1. empty_reason' # "none"
    BY <1>5 DEF ToolsEmptyAccept, classify_empty_result
  <2>. QED BY <1>5, <2>1 DEF ToolsEmptyAccept, Settled
<1>6. CASE ToolsSucceed
  BY <1>6 DEF ToolsSucceed, Settled
<1>7. CASE should_retry
  BY <1>0, <1>7 DEF should_retry, edge, Settled, IInv, TypeOK
<1>8. CASE UNCHANGED vars
  BY <1>8 DEF vars, Settled
<1>. QED
  BY <1>1, <1>2, <1>3, <1>4, <1>5, <1>6, <1>7, <1>8 DEF Next, Tools

\* A finished agent reports an answer or a failure, never both, and never
\* EMPTY_RESULT as an error (the return values of tools).
THEOREM OutcomeCorrect == Spec => []OutcomeConsistent
<1>1. Init => Settled
  BY DEF Init, Settled
<1>2. Settled => OutcomeConsistent
  BY DEF Settled, OutcomeConsistent, Errors
<1>. QED BY <1>1, <1>2, RetryAgentInvariant, NextSettled, PTL DEF Spec

-----------------------------------------------------------------------------
(***************************************************************************)
(* Retries.                                                                *)
(***************************************************************************)

\* The elements of a sequence after Append.
LEMMA AppendElements ==
  ASSUME NEW S, NEW s \in Seq(S), NEW x \in S, NEW i \in DOMAIN Append(s, x)
  PROVE  \/ i \in DOMAIN s /\ Append(s, x)[i] = s[i]
         \/ i = Len(s) + 1 /\ Append(s, x)[i] = x
BY AppendProperties

\* Until its single retry is spent, no retry was scheduled for an empty result.
EmptyOnce ==
  /\ EmptyRetriedOnce
  /\ ~empty_retried =>
       \A i \in DOMAIN diagnostics :
         ~(diagnostics[i].reason = EMPTY_RESULT /\ diagnostics[i].scheduled)

\* One diagnostic is added at the end.
DiagnosticAdded(d) ==
  /\ d \in Diagnostics
  /\ diagnostics' = Append(diagnostics, d)

\* A failure adds a diagnostic that says whether should_retry goes back.
LEMMA DiagnosticsAfterFailure ==
  ASSUME IInv, ToolsFail
  PROVE  \E d : /\ DiagnosticAdded(d)
                /\ d.reason # EMPTY_RESULT
                /\ d.attempt = attempt_count
                /\ d.scheduled <=> edge' = "retry"
<1>. DEFINE f == FirstFailure(query)
            d == Diagnostic(f.stage, f.message, retry_scheduled(f))
<1>1. f \in FailureArg
  BY FirstFailureType DEF ToolsFail
<1>2. d \in Diagnostics
  BY <1>1 DEF ToolsFail, Diagnostic, Diagnostics, FailureArg,
                    retry_scheduled, IInv, TypeOK, Phase, BudgetKept
<1>3. DiagnosticAdded(d)
  BY <1>2 DEF ToolsFail, DiagnosticAdded
<1>4. d.reason # EMPTY_RESULT /\ d.attempt = attempt_count
  BY <1>1 DEF Diagnostic, FailureArg, Errors
<1>5. d.scheduled <=> edge' = "retry"
  <2>1. error' = f.message /\ retryable' = f.retryable
        /\ attempt_count' = attempt_count
    BY DEF ToolsFail
  <2>2. f.message # "none" /\ f.retryable \in BOOLEAN
    BY <1>1 DEF FailureArg, Errors
  <2>3. d.scheduled <=> (f.retryable /\ attempt_count < MaxAttempts)
    BY DEF Diagnostic, retry_scheduled
  <2>4. attempt_count \in Nat
    BY DEF IInv, TypeOK
  <2>. HIDE DEF d, f
  <2>. QED BY <2>1, <2>2, <2>3, <2>4 DEF edge
<1>. QED BY <1>3, <1>4, <1>5

\* An empty result adds one that says whether it is retried.
LEMMA DiagnosticsAfterEmpty ==
  ASSUME IInv
  PROVE  /\ ToolsEmptyRetry =>
              \E d : /\ DiagnosticAdded(d) /\ d.attempt = attempt_count
                     /\ d.scheduled
         /\ ToolsEmptyAccept =>
              \E d : /\ DiagnosticAdded(d) /\ d.attempt = attempt_count
                     /\ ~d.scheduled
<1>1. ASSUME ToolsEmptyRetry
      PROVE  \E d : /\ DiagnosticAdded(d) /\ d.attempt = attempt_count
                    /\ d.scheduled
  <2>. DEFINE d == Diagnostic("result", EMPTY_RESULT, TRUE)
  <2>1. d \in Diagnostics /\ d.attempt = attempt_count /\ d.scheduled
    BY <1>1 DEF ToolsEmptyRetry, Diagnostic, Diagnostics, IInv, TypeOK, Phase,
                BudgetKept
  <2>2. DiagnosticAdded(d)
    BY <1>1, <2>1 DEF ToolsEmptyRetry, empty_diagnostics, DiagnosticAdded
  <2>. QED BY <2>1, <2>2
<1>2. ASSUME ToolsEmptyAccept
      PROVE  \E d : /\ DiagnosticAdded(d) /\ d.attempt = attempt_count
                    /\ ~d.scheduled
  <2>. DEFINE d == Diagnostic("result", EMPTY_RESULT, FALSE)
  <2>1. d \in Diagnostics /\ d.attempt = attempt_count /\ ~d.scheduled
    BY <1>2 DEF ToolsEmptyAccept, Diagnostic, Diagnostics, IInv, TypeOK, Phase,
                BudgetKept
  <2>2. DiagnosticAdded(d)
    BY <1>2, <2>1 DEF ToolsEmptyAccept, empty_diagnostics, DiagnosticAdded
  <2>. QED BY <2>1, <2>2
<1>. QED BY <1>1, <1>2

\* The success path keeps every diagnostic but for the recovered flag.
LEMMA DiagnosticsAfterSuccess ==
  ASSUME IInv, ToolsSucceed
  PROVE  /\ DOMAIN diagnostics' = DOMAIN diagnostics
         /\ \A i \in DOMAIN diagnostics :
              /\ diagnostics'[i].reason = diagnostics[i].reason
              /\ diagnostics'[i].attempt = diagnostics[i].attempt
              /\ diagnostics'[i].scheduled = diagnostics[i].scheduled
<1>1. \A i \in DOMAIN diagnostics : diagnostics[i] \in Diagnostics
  BY DEF IInv, TypeOK
<1>2. diagnostics' = mark_recovered
  BY DEF ToolsSucceed
<1>. QED BY <1>1, <1>2 DEF mark_recovered, Diagnostics

LEMMA NextEmptyOnce == IInv /\ EmptyOnce /\ [Next]_vars => EmptyOnce'
<1>. SUFFICES ASSUME IInv, EmptyOnce, [Next]_vars PROVE EmptyOnce'
  OBVIOUS
<1>0. diagnostics \in Seq(Diagnostics) /\ empty_retried \in BOOLEAN
  BY DEF IInv, TypeOK
<1>1. CASE UNCHANGED <<diagnostics, empty_retried>>
  BY <1>1 DEF EmptyOnce, EmptyRetriedOnce
<1>2. CASE ToolsFail
  <2>1. PICK d : DiagnosticAdded(d) /\ d.reason # EMPTY_RESULT
    BY <1>2, DiagnosticsAfterFailure
  <2>2. empty_retried' = empty_retried
    BY <1>2 DEF ToolsFail
  <2>3. /\ DOMAIN diagnostics' = DOMAIN diagnostics \cup {Len(diagnostics) + 1}
        /\ \A i \in DOMAIN diagnostics : diagnostics'[i] = diagnostics[i]
        /\ diagnostics'[Len(diagnostics) + 1] = d
    BY <1>0, <2>1, AppendElements DEF DiagnosticAdded
  <2>4. \A i \in DOMAIN diagnostics' :
          diagnostics'[i].reason = EMPTY_RESULT =>
            i \in DOMAIN diagnostics /\ diagnostics'[i] = diagnostics[i]
    BY <2>1, <2>3
  <2>. QED BY <2>2, <2>4 DEF EmptyOnce, EmptyRetriedOnce
<1>3. CASE ToolsEmptyRetry
  <2>1. PICK d : DiagnosticAdded(d)
    BY <1>3, DiagnosticsAfterEmpty
  <2>2. ~empty_retried /\ empty_retried'
    BY <1>3 DEF ToolsEmptyRetry, can_retry_empty
  <2>. QED
    BY <1>0, <2>1, <2>2, AppendElements
    DEF EmptyOnce, EmptyRetriedOnce, DiagnosticAdded
<1>4. CASE ToolsEmptyAccept
  <2>1. PICK d : DiagnosticAdded(d) /\ ~d.scheduled
    BY <1>4, DiagnosticsAfterEmpty
  <2>2. empty_retried' = empty_retried
    BY <1>4 DEF ToolsEmptyAccept
  <2>. QED
    BY <1>0, <2>1, <2>2, AppendElements
    DEF EmptyOnce, EmptyRetriedOnce, DiagnosticAdded
<1>5. CASE ToolsSucceed
  <2>1. empty_retried' = empty_retried
    BY <1>5 DEF ToolsSucceed
  <2>. QED BY <1>5, <2>1, DiagnosticsAfterSuccess DEF EmptyOnce, EmptyRetriedOnce
<1>. QED
  BY <1>1, <1>2, <1>3, <1>4, <1>5
  DEF Next, Tools, vars, Agent, AgentRaises, should_retry

\* Over a whole run at most one retry is spent on an empty result
\* (can_retry_empty), whatever the budget.
THEOREM EmptyResultRetriedOnce == Spec => []EmptyRetriedOnce
<1>1. Init => EmptyOnce
  BY DEF Init, EmptyOnce, EmptyRetriedOnce
<1>2. EmptyOnce => EmptyRetriedOnce
  BY DEF EmptyOnce
<1>. QED BY <1>1, <1>2, RetryAgentInvariant, NextEmptyOnce, PTL DEF Spec

\* Which attempts a retry was scheduled after, at each node: after all earlier
\* ones, and after the last one if should_retry is about to go back to agent or
\* has done so.
Scheduled ==
  \A i \in DOMAIN diagnostics :
    /\ diagnostics[i].attempt <= attempt_count
    /\ diagnostics[i].attempt < attempt_count => diagnostics[i].scheduled
    /\ pc = "tools" => diagnostics[i].attempt < attempt_count
    /\ pc \in {"agent", "raised"} => diagnostics[i].scheduled
    /\ pc = "should_retry" /\ diagnostics[i].attempt = attempt_count =>
         (diagnostics[i].scheduled <=> edge = "retry")
    /\ pc = "done" /\ diagnostics[i].attempt = attempt_count =>
         ~diagnostics[i].scheduled

LEMMA DiagnosticTypes ==
  ASSUME IInv
  PROVE  /\ diagnostics \in Seq(Diagnostics)
         /\ attempt_count \in Nat
         /\ \A i \in DOMAIN diagnostics :
              /\ diagnostics[i].attempt \in Nat
              /\ diagnostics[i].scheduled \in BOOLEAN
<1>1. diagnostics \in Seq(Diagnostics) /\ attempt_count \in Nat
  BY DEF IInv, TypeOK
<1>2. \A i \in DOMAIN diagnostics : diagnostics[i] \in Diagnostics
  BY <1>1
<1>3. \A d \in Diagnostics : d.attempt \in 1 .. MaxAttempts /\ d.scheduled \in BOOLEAN
  BY DEF Diagnostics
<1>4. \A n \in 1 .. MaxAttempts : n \in Nat
  OBVIOUS
<1>. QED BY <1>1, <1>2, <1>3, <1>4

LEMMA NextScheduled == IInv /\ Scheduled /\ [Next]_vars => Scheduled'
<1>. SUFFICES ASSUME IInv, Scheduled, [Next]_vars PROVE Scheduled'
  OBVIOUS
<1>0. /\ diagnostics \in Seq(Diagnostics) /\ attempt_count \in Nat
      /\ \A i \in DOMAIN diagnostics : diagnostics[i].attempt \in Nat
  BY DiagnosticTypes
<1>1. CASE Agent
  BY <1>0, <1>1 DEF Agent, Scheduled
<1>2. CASE AgentRaises
  BY <1>2 DEF AgentRaises, Scheduled
<1>3. CASE ToolsFail
  <2>1. PICK d : /\ DiagnosticAdded(d) /\ d.attempt = attempt_count
                 /\ d.scheduled <=> edge' = "retry"
    BY <1>3, DiagnosticsAfterFailure
  <2>2. pc = "tools" /\ pc' = "should_retry" /\ attempt_count' = attempt_count
    BY <1>3 DEF ToolsFail
  <2>. QED BY <1>0, <2>1, <2>2, AppendElements DEF Scheduled, DiagnosticAdded
<1>4. CASE ToolsEmptyRetry
  <2>1. PICK d : DiagnosticAdded(d) /\ d.attempt = attempt_count /\ d.scheduled
    BY <1>4, DiagnosticsAfterEmpty
  <2>2. pc = "tools" /\ pc' = "should_retry" /\ attempt_count' = attempt_count
    BY <1>4 DEF ToolsEmptyRetry
  <2>3. edge' = "retry"
    BY <1>0, <1>4 DEF ToolsEmptyRetry, can_retry_empty, edge
  <2>. QED BY <1>0, <2>1, <2>2, <2>3, AppendElements DEF Scheduled, DiagnosticAdded
<1>5. CASE ToolsEmptyAccept
  <2>1. PICK d : DiagnosticAdded(d) /\ d.attempt = attempt_count /\ ~d.scheduled
    BY <1>5, DiagnosticsAfterEmpty
  <2>2. pc = "tools" /\ pc' = "should_retry" /\ attempt_count' = attempt_count
    BY <1>5 DEF ToolsEmptyAccept
  <2>3. edge' # "retry"
    BY <1>5 DEF ToolsEmptyAccept, edge
  <2>. QED BY <1>0, <2>1, <2>2, <2>3, AppendElements DEF Scheduled, DiagnosticAdded
<1>6. CASE ToolsSucceed
  <2>1. pc = "tools" /\ pc' = "should_retry" /\ attempt_count' = attempt_count
    BY <1>6 DEF ToolsSucceed
  <2>. QED BY <1>0, <1>6, <2>1, DiagnosticsAfterSuccess DEF Scheduled
<1>7. CASE should_retry
  <2>1. /\ pc = "should_retry" /\ attempt_count' = attempt_count
        /\ diagnostics' = diagnostics
        /\ pc' = IF edge = "retry" THEN "agent" ELSE "done"
    BY <1>7 DEF should_retry
  <2>. QED BY <1>0, <2>1 DEF Scheduled
<1>8. CASE UNCHANGED vars
  BY <1>8 DEF vars, Scheduled, edge
<1>. QED
  BY <1>1, <1>2, <1>3, <1>4, <1>5, <1>6, <1>7, <1>8 DEF Next, Tools

\* The retryScheduled flag written by tools always agrees with what
\* should_retry and agent go on to do.
THEOREM RetryScheduledCorrect == Spec => []RetryScheduledKept
<1>1. Init => Scheduled
  BY DEF Init, Scheduled
<1>2. IInv /\ Scheduled => RetryScheduledKept
  <2>. SUFFICES ASSUME IInv, Scheduled, NEW i \in DOMAIN diagnostics
               PROVE  IF diagnostics[i].scheduled
                        THEN attempt_count > diagnostics[i].attempt \/ pc # "done"
                        ELSE attempt_count = diagnostics[i].attempt
    BY DEF RetryScheduledKept
  <2>1. /\ attempt_count \in Nat
        /\ diagnostics[i].attempt \in Nat
        /\ diagnostics[i].scheduled \in BOOLEAN
    BY DiagnosticTypes
  <2>2. pc \in {"agent", "tools", "should_retry", "done", "raised"}
    BY DEF IInv, TypeOK
  <2>3. /\ diagnostics[i].attempt <= attempt_count
        /\ diagnostics[i].attempt < attempt_count => diagnostics[i].scheduled
        /\ pc = "tools" => diagnostics[i].attempt < attempt_count
        /\ pc \in {"agent", "raised"} => diagnostics[i].scheduled
        /\ pc = "done" /\ diagnostics[i].attempt = attempt_count =>
             ~diagnostics[i].scheduled
    BY DEF Scheduled
  <2>. QED BY <2>1, <2>2, <2>3
<1>. QED BY <1>1, <1>2, RetryAgentInvariant, NextScheduled, PTL DEF Spec

-----------------------------------------------------------------------------
(***************************************************************************)
(* What a run tells of its attempts.                                       *)
(***************************************************************************)

\* The error a failed attempt is recorded with says whether its query was let
\* through to the database (the order of check_guard, check_contract and
\* execute_and_classify).
LEMMA FailureAdmission ==
  ASSUME NEW q
  PROVE  /\ FirstFailure(q).message \in {"policy", "contract"} => ~Admitted(q)
         /\ FirstFailure(q).message \notin {"policy", "contract", "validation"} =>
              Admitted(q)
<1>1. check_guard(q) # Passed =>
        check_guard(q).message \in {"policy", "validation"}
  BY DEF check_guard, internal_validation_failure, FailureCall
<1>2. check_contract(q) # Passed => check_contract(q).message = "contract"
  BY DEF check_contract, FailureCall
<1>3. execution_failure(q).message \notin {"policy", "contract"}
  BY DEF execution_failure, FailureCall, Passed
<1>4. result_failure(q).message \notin {"policy", "contract"}
  BY DEF result_failure, internal_validation_failure, FailureCall, Passed
<1>. QED BY <1>1, <1>2, <1>3, <1>4 DEF FirstFailure, Admitted

\* The reason for an empty result that the attempts so far justify.
EmptyReasonHolds ==
  /\ (empty_reason = NO_DATA) <=>
       \A i \in DOMAIN attempts : attempts[i] = EMPTY_RESULT
  /\ (empty_reason = INCONCLUSIVE) <=>
       \E i \in DOMAIN attempts : attempts[i] \in Errors

\* What the model is told agrees with the last attempt.
FeedbackHolds ==
  /\ feedback # "none"
  /\ (feedback = EMPTY_RESULT) <=> (attempts[Len(attempts)] = EMPTY_RESULT)

\* While the run goes on, no attempt has returned rows, so every recorded one
\* failed or was empty.
Unanswered == \A i \in DOMAIN attempts : attempts[i] # "none"

\* AttemptsTold looks at the end of a run and at the start of an attempt; this
\* says what makes it true on the way there.
Told ==
  /\ RecoveredMeansRows
  /\ RejectedNeverExecuted
  /\ executed \subseteq 1 .. Len(attempts)
  /\ (pc \in {"agent", "tools"} \/ (pc = "should_retry" /\ error # "none")) =>
       Unanswered
  /\ (pc \in {"should_retry", "done"} /\ result = "empty" /\ error = "none") =>
       EmptyReasonHolds
  /\ ((pc = "agent" /\ attempt_count > 0) \/ (pc = "should_retry" /\ error # "none")) =>
       FeedbackHolds

\* An attempt is recorded with x, and its query reached the database or not.
LEMMA AttemptRecorded ==
  ASSUME IInv, Told, pc = "tools", NEW x \in Errors \cup {EMPTY_RESULT, "none"},
         attempts' = Append(attempts, x), Execute(query),
         x \in {"policy", "contract"} => ~Admitted(query),
         x \notin {"policy", "contract", "validation"} => Admitted(query)
  PROVE  /\ RejectedNeverExecuted'
         /\ executed' \subseteq 1 .. Len(attempts')
         /\ Len(attempts') \in DOMAIN attempts' /\ attempts'[Len(attempts')] = x
         /\ DOMAIN attempts' = DOMAIN attempts \cup {Len(attempts')}
         /\ \A i \in DOMAIN attempts : attempts'[i] = attempts[i]
<1>. DEFINE n == Len(attempts)
<1>1. /\ attempts \in Seq(Errors \cup {EMPTY_RESULT, "none"})
      /\ attempt_count = n + 1 /\ n \in Nat
  BY DEF IInv, TypeOK, Phase, BudgetKept
<1>2. /\ Len(attempts') = n + 1
      /\ DOMAIN attempts = 1 .. n /\ DOMAIN attempts' = 1 .. n + 1
      /\ \A i \in 1 .. n : attempts'[i] = attempts[i]
      /\ attempts'[n + 1] = x
  <2>1. /\ attempts' \in Seq(Errors \cup {EMPTY_RESULT, "none"})
        /\ Len(attempts') = n + 1
        /\ \A i \in 1 .. n : attempts'[i] = attempts[i]
        /\ attempts'[n + 1] = x
    BY <1>1, AppendProperties
  <2>. QED BY <1>1, <2>1
<1>3. executed' = IF Admitted(query) THEN executed \cup {n + 1} ELSE executed
  BY <1>1 DEF Execute
<1>4. executed \subseteq 1 .. n /\ RejectedNeverExecuted
  BY DEF Told
<1>. HIDE DEF n
<1>5. n + 1 \in 1 .. n + 1 /\ 1 .. n + 1 = (1 .. n) \cup {n + 1}
  BY <1>1
<1>6. RejectedNeverExecuted'
  <2>. SUFFICES ASSUME NEW i \in 1 .. n + 1
               PROVE  /\ attempts'[i] \in {"policy", "contract"} => i \notin executed'
                      /\ attempts'[i] \notin {"policy", "contract", "validation"} =>
                           i \in executed'
    BY <1>2 DEF RejectedNeverExecuted
  <2>1. CASE i \in 1 .. n
    <3>1. i \in executed' <=> i \in executed
      BY <1>1, <1>3, <2>1
    <3>. QED BY <1>2, <1>4, <2>1, <3>1 DEF RejectedNeverExecuted
  <2>2. CASE i = n + 1
    <3>1. i \in executed' <=> Admitted(query)
      BY <1>1, <1>3, <1>4, <2>2
    <3>. QED BY <1>2, <2>2, <3>1
  <2>3. i \in 1 .. n \/ i = n + 1
    BY <1>5
  <2>. QED BY <2>1, <2>2, <2>3
<1>7. executed' \subseteq 1 .. n + 1
  BY <1>1, <1>3, <1>4
<1>. QED BY <1>2, <1>5, <1>6, <1>7

\* A diagnostic added to ones that are not recovered is not recovered either.
LEMMA NotYetRecovered ==
  ASSUME IInv, Told, Settled, pc = "tools", result' # "rows",
         NEW d, DiagnosticAdded(d), ~d.recovered
  PROVE  RecoveredMeansRows'
<1>1. diagnostics \in Seq(Diagnostics)
  BY DEF IInv, TypeOK
<1>2. \A i \in DOMAIN diagnostics : ~diagnostics[i].recovered
  BY DEF Told, RecoveredMeansRows, Settled
<1>. QED BY <1>1, <1>2, AppendElements DEF DiagnosticAdded, RecoveredMeansRows

LEMMA NextTold == IInv /\ Settled /\ Told /\ [Next]_vars => Told'
<1>. SUFFICES ASSUME IInv, Settled, Told, [Next]_vars PROVE Told'
  OBVIOUS
<1>0. "none" \notin Errors /\ EMPTY_RESULT \notin Errors
  BY DEF Errors
<1>1. CASE Agent
  BY <1>1 DEF Agent, Told, RecoveredMeansRows, RejectedNeverExecuted, Unanswered
<1>2. CASE AgentRaises
  BY <1>2 DEF AgentRaises, Told, RecoveredMeansRows, RejectedNeverExecuted
<1>3. CASE ToolsFail
  <2>. DEFINE f == FirstFailure(query)
              d == Diagnostic(f.stage, f.message, retry_scheduled(f))
  <2>1. f \in FailureArg /\ f.message \in Errors
    BY <1>3, FirstFailureType DEF ToolsFail
  <2>2. /\ pc = "tools" /\ pc' = "should_retry" /\ attempts' = Append(attempts, f.message)
        /\ Execute(query) /\ error' = f.message /\ result' = "none"
        /\ feedback' = f.feedback
    BY <1>3 DEF ToolsFail
  <2>3. RecoveredMeansRows'
    <3>1. d \in Diagnostics /\ ~d.recovered
      BY <1>3, <2>1 DEF ToolsFail, Diagnostic, Diagnostics, FailureArg,
                        retry_scheduled, IInv, TypeOK, Phase, BudgetKept
    <3>2. DiagnosticAdded(d)
      BY <1>3, <3>1 DEF ToolsFail, DiagnosticAdded
    <3>. HIDE DEF d
    <3>. QED BY <2>2, <3>1, <3>2, NotYetRecovered
  <2>4. f.feedback \in {"message", "exception"}
    BY <2>1 DEF FailureArg
  <2>5. /\ f.message \in {"policy", "contract"} => ~Admitted(query)
        /\ f.message \notin {"policy", "contract", "validation"} => Admitted(query)
    BY FailureAdmission
  <2>. HIDE DEF f
  <2>6. /\ RejectedNeverExecuted'
        /\ executed' \subseteq 1 .. Len(attempts')
        /\ attempts'[Len(attempts')] = f.message
        /\ DOMAIN attempts' = DOMAIN attempts \cup {Len(attempts')}
        /\ \A i \in DOMAIN attempts : attempts'[i] = attempts[i]
    BY <2>1, <2>2, <2>5, AttemptRecorded
  <2>7. Unanswered /\ Unanswered'
    BY <1>0, <2>1, <2>2, <2>6 DEF Told, Unanswered
  <2>8. FeedbackHolds'
    BY <1>0, <2>1, <2>2, <2>4, <2>6 DEF FeedbackHolds
  <2>. QED BY <2>2, <2>3, <2>6, <2>7, <2>8 DEF Told
<1>4. CASE ToolsEmptyRetry
  <2>. DEFINE d == Diagnostic("result", EMPTY_RESULT, TRUE)
  <2>1. /\ pc = "tools" /\ pc' = "should_retry" /\ Admitted(query) /\ Execute(query)
        /\ attempts' = Append(attempts, EMPTY_RESULT)
        /\ error' = EMPTY_RESULT /\ result' = "empty" /\ feedback' = EMPTY_RESULT
    BY <1>4 DEF ToolsEmptyRetry, IsEmpty
  <2>2. RecoveredMeansRows'
    <3>1. d \in Diagnostics /\ ~d.recovered
      BY <2>1 DEF Diagnostic, Diagnostics, IInv, TypeOK, Phase, BudgetKept
    <3>2. DiagnosticAdded(d)
      BY <1>4, <3>1 DEF ToolsEmptyRetry, empty_diagnostics, DiagnosticAdded
    <3>. HIDE DEF d
    <3>. QED BY <2>1, <3>1, <3>2, NotYetRecovered
  <2>3. /\ RejectedNeverExecuted'
        /\ executed' \subseteq 1 .. Len(attempts')
        /\ attempts'[Len(attempts')] = EMPTY_RESULT
        /\ DOMAIN attempts' = DOMAIN attempts \cup {Len(attempts')}
        /\ \A i \in DOMAIN attempts : attempts'[i] = attempts[i]
    BY <2>1, AttemptRecorded
  <2>4. Unanswered'
    BY <2>1, <2>3 DEF Told, Unanswered
  <2>5. FeedbackHolds'
    BY <2>1, <2>3 DEF FeedbackHolds
  <2>. QED BY <2>1, <2>2, <2>3, <2>4, <2>5 DEF Told
<1>5. CASE ToolsEmptyAccept
  <2>. DEFINE d == Diagnostic("result", EMPTY_RESULT, FALSE)
  <2>1. /\ pc = "tools" /\ pc' = "should_retry" /\ Admitted(query) /\ Execute(query)
        /\ attempts' = Append(attempts, EMPTY_RESULT)
        /\ error' = "none" /\ result' = "empty"
        /\ empty_reason' = classify_empty_result(attempts)
    BY <1>5 DEF ToolsEmptyAccept, IsEmpty
  <2>2. RecoveredMeansRows'
    <3>1. d \in Diagnostics /\ ~d.recovered
      BY <2>1 DEF Diagnostic, Diagnostics, IInv, TypeOK, Phase, BudgetKept
    <3>2. DiagnosticAdded(d)
      BY <1>5, <3>1 DEF ToolsEmptyAccept, empty_diagnostics, DiagnosticAdded
    <3>. HIDE DEF d
    <3>. QED BY <2>1, <3>1, <3>2, NotYetRecovered
  <2>3. /\ RejectedNeverExecuted'
        /\ executed' \subseteq 1 .. Len(attempts')
        /\ attempts'[Len(attempts')] = EMPTY_RESULT
        /\ DOMAIN attempts' = DOMAIN attempts \cup {Len(attempts')}
        /\ \A i \in DOMAIN attempts : attempts'[i] = attempts[i]
    BY <2>1, AttemptRecorded
  <2>4. \A i \in DOMAIN attempts :
          (attempts[i] \notin {"none", EMPTY_RESULT}) <=> (attempts[i] \in Errors)
    <3>1. \A i \in DOMAIN attempts : attempts[i] \in Errors \cup {EMPTY_RESULT, "none"}
      BY DEF IInv, TypeOK
    <3>. QED BY <1>0, <3>1
  <2>5. \A i \in DOMAIN attempts : attempts[i] # "none"
    BY <2>1 DEF Told, Unanswered
  <2>6. EmptyReasonHolds'
    BY <1>0, <2>1, <2>3, <2>4, <2>5 DEF EmptyReasonHolds, classify_empty_result
  <2>. QED BY <2>1, <2>2, <2>3, <2>6 DEF Told
<1>6. CASE ToolsSucceed
  <2>1. /\ pc = "tools" /\ pc' = "should_retry" /\ Execute(query)
        /\ attempts' = Append(attempts, "none")
        /\ error' = "none" /\ result' = "rows" /\ diagnostics' = mark_recovered
    BY <1>6 DEF ToolsSucceed
  <2>2. Admitted(query)
    <3>1. FirstFailure(query).message = "none"
      BY <1>6 DEF ToolsSucceed, Passed
    <3>. QED BY <3>1, FailureAdmission
  <2>3. RecoveredMeansRows'
    <3>1. \A i \in DOMAIN diagnostics : diagnostics[i] \in Diagnostics
      BY DEF IInv, TypeOK
    <3>2. \A i \in DOMAIN diagnostics :
            [diagnostics[i] EXCEPT !.recovered = TRUE].recovered
      BY <3>1 DEF Diagnostics
    <3>. QED BY <2>1, <3>2 DEF RecoveredMeansRows, mark_recovered
  <2>4. RejectedNeverExecuted' /\ executed' \subseteq 1 .. Len(attempts')
    BY <2>1, <2>2, AttemptRecorded
  <2>. QED BY <2>1, <2>3, <2>4 DEF Told
<1>7. CASE should_retry
  <2>1. /\ UNCHANGED <<attempts, error, result, empty_reason, diagnostics, feedback,
                       executed, attempt_count>>
        /\ pc = "should_retry" /\ pc' \in {"agent", "done"}
        /\ pc' = "agent" => error # "none"
    BY <1>7 DEF should_retry, edge
  <2>2. RecoveredMeansRows' /\ RejectedNeverExecuted'
    BY <2>1 DEF Told, RecoveredMeansRows, RejectedNeverExecuted
  <2>. QED
    BY <2>1, <2>2 DEF Told, Unanswered, EmptyReasonHolds, FeedbackHolds
<1>8. CASE UNCHANGED vars
  BY <1>8 DEF vars, Told, RecoveredMeansRows, RejectedNeverExecuted, Unanswered,
              EmptyReasonHolds, FeedbackHolds
<1>. QED
  BY <1>1, <1>2, <1>3, <1>4, <1>5, <1>6, <1>7, <1>8 DEF Next, Tools

\* Whatever the budget: NO_DATA is claimed only of a run whose attempts were all
\* clean, failures are called recovered exactly when rows came, a rejected query
\* never reached the database, and the model is told of the attempt just before.
THEOREM AttemptsToldCorrect == Spec => []AttemptsTold
<1>1. Init => Told /\ Settled
  BY DEF Init, Told, Settled, RecoveredMeansRows, RejectedNeverExecuted, Unanswered
<1>2. Settled /\ Told => AttemptsTold
  <2>. SUFFICES ASSUME Settled, Told PROVE AttemptsTold
    OBVIOUS
  <2>1. EmptyReasonSound
    BY DEF Told, Settled, EmptyReasonHolds, EmptyReasonSound, Errors
  <2>2. FeedbackFresh
    BY DEF Told, FeedbackHolds, FeedbackFresh
  <2>. QED BY <2>1, <2>2 DEF Told, AttemptsTold
<1>. QED
  BY <1>1, <1>2, RetryAgentInvariant, NextSettled, NextTold, PTL DEF Spec

-----------------------------------------------------------------------------
(***************************************************************************)
(* The agent implements QueryAgent, but for its fairness: AgentOutcomes    *)
(* lists every summary the plan may be given, so the proof accounts for    *)
(* every field of the summary of a finished run.                           *)
(***************************************************************************)

\* The failure() calls a query can end in, as QueryAgent describes them: those
\* that are retried, and those that are not, have their own codes, and only the
\* graph agent checks a result invariant.
LEMMA FailureDescribed ==
  ASSUME NEW q \in Queries, FirstFailure(q) # Passed
  PROVE  LET f == FirstFailure(q) IN
         /\ f.safe = Contract!AgentFailure(Tool, f.safe.code)
         /\ f.retryable  => f.safe.code \in Contract!RetriedCodes
         /\ ~f.retryable => f.safe.code \in Contract!StoppingCodes
         /\ Tool # "graph" => f.stage # "result_invariant"
<1>. USE DEF Contract!AgentFailure, Contract!RetriedCodes, Contract!StoppingCodes,
             Contract!make_query_failure, make_query_failure, FailureCall
<1>1. ASSUME check_guard(q) # Passed
      PROVE  LET f == check_guard(q) IN
             /\ f.safe = Contract!AgentFailure(Tool, f.safe.code)
             /\ f.retryable  => f.safe.code \in Contract!RetriedCodes
             /\ ~f.retryable => f.safe.code \in Contract!StoppingCodes
             /\ f.stage # "result_invariant"
  BY <1>1 DEF check_guard, internal_validation_failure
<1>2. ASSUME check_contract(q) # Passed
      PROVE  LET f == check_contract(q) IN
             /\ f.safe = Contract!AgentFailure(Tool, f.safe.code)
             /\ f.retryable  => f.safe.code \in Contract!RetriedCodes
             /\ ~f.retryable => f.safe.code \in Contract!StoppingCodes
             /\ f.stage # "result_invariant"
  BY <1>2 DEF check_contract
<1>3. ASSUME execution_failure(q) # Passed
      PROVE  LET f == execution_failure(q) IN
             /\ f.safe = Contract!AgentFailure(Tool, f.safe.code)
             /\ f.retryable  => f.safe.code \in Contract!RetriedCodes
             /\ ~f.retryable => f.safe.code \in Contract!StoppingCodes
             /\ f.stage # "result_invariant"
  BY <1>3 DEF execution_failure
<1>4. ASSUME result_failure(q) # Passed
      PROVE  LET f == result_failure(q) IN
             /\ f.safe = Contract!AgentFailure(Tool, f.safe.code)
             /\ f.retryable  => f.safe.code \in Contract!RetriedCodes
             /\ ~f.retryable => f.safe.code \in Contract!StoppingCodes
             /\ Tool # "graph" => f.stage # "result_invariant"
  BY <1>4 DEF result_failure, internal_validation_failure, Queries, SqlExecutions
<1>. HIDE DEF Contract!AgentFailure, Contract!RetriedCodes, Contract!StoppingCodes,
              Contract!make_query_failure, make_query_failure, FailureCall
<1>. QED BY <1>1, <1>2, <1>3, <1>4 DEF FirstFailure

\* What the summary of a finished run is made of.  The diagnostics are numbered
\* by attempts, not all of which have one; an empty result is accepted only
\* after its retry or with the budget spent.
Summarised ==
  /\ Len(diagnostics) <= Len(attempts)
  /\ \A i \in DOMAIN diagnostics :
       /\ i <= diagnostics[i].attempt
       /\ Tool # "graph" => diagnostics[i].stage # "result_invariant"
  /\ empty_retried => attempt_count >= (IF pc = "tools" THEN 2 ELSE 1)
  /\ pc \in {"should_retry", "done"} /\ error \in Errors =>
       /\ failure = Contract!AgentFailure(Tool, failure.code)
       /\ retryable  => failure.code \in Contract!RetriedCodes
       /\ ~retryable => failure.code \in Contract!StoppingCodes
  /\ pc = "done" /\ error \in Errors /\ retryable => attempt_count = MaxAttempts
  /\ pc \in {"should_retry", "done"} /\ error = "none" /\ result = "empty" =>
       ~truncated /\ (attempt_count >= 2 \/ attempt_count = MaxAttempts)

\* A diagnostic is added for the attempt that is being recorded.
LEMMA DiagnosticNumbered ==
  ASSUME IInv, Summarised, pc = "tools", Len(attempts') = Len(attempts) + 1,
         NEW d, DiagnosticAdded(d), d.attempt = attempt_count,
         Tool # "graph" => d.stage # "result_invariant"
  PROVE  /\ Len(diagnostics') <= Len(attempts')
         /\ \A i \in DOMAIN diagnostics' :
              /\ i <= diagnostics'[i].attempt
              /\ Tool # "graph" => diagnostics'[i].stage # "result_invariant"
<1>1. /\ diagnostics \in Seq(Diagnostics) /\ Len(diagnostics) \in Nat
      /\ Len(attempts) \in Nat /\ attempt_count = Len(attempts) + 1
  BY DEF IInv, TypeOK, Phase, BudgetKept
<1>2. d \in Diagnostics /\ diagnostics' = Append(diagnostics, d)
  BY DEF DiagnosticAdded
<1>3. Len(diagnostics') = Len(diagnostics) + 1
  BY <1>1, <1>2, AppendProperties
<1>4. Len(diagnostics) + 1 <= attempt_count
  BY <1>1 DEF Summarised
<1>5. Len(diagnostics') <= Len(attempts')
  BY <1>1, <1>3, <1>4
<1>6. ASSUME NEW i \in DOMAIN diagnostics'
      PROVE  /\ i <= diagnostics'[i].attempt
             /\ Tool # "graph" => diagnostics'[i].stage # "result_invariant"
  <2>1. \/ i \in DOMAIN diagnostics /\ diagnostics'[i] = diagnostics[i]
        \/ i = Len(diagnostics) + 1 /\ diagnostics'[i] = d
    BY <1>1, <1>2, <1>6, AppendElements
  <2>. QED BY <1>4, <2>1 DEF Summarised
<1>. QED BY <1>5, <1>6

LEMMA NextSummarised == IInv /\ Settled /\ Summarised /\ [Next]_vars => Summarised'
<1>. SUFFICES ASSUME IInv, Settled, Summarised, [Next]_vars PROVE Summarised'
  OBVIOUS
<1>0. /\ "none" \notin Errors /\ EMPTY_RESULT \notin Errors
      /\ attempt_count \in Nat /\ attempt_count <= MaxAttempts
      /\ Len(diagnostics) \in Nat /\ Len(attempts) \in Nat
      /\ attempts \in Seq(Errors \cup {EMPTY_RESULT, "none"})
  BY DEF Errors, IInv, TypeOK, Phase, BudgetKept
<1>1. CASE Agent
  BY <1>0, <1>1 DEF Agent, Summarised
<1>2. CASE AgentRaises
  BY <1>0, <1>2 DEF AgentRaises, Summarised
<1>3. CASE ToolsFail
  <2>. DEFINE f == FirstFailure(query)
              d == Diagnostic(f.stage, f.message, retry_scheduled(f))
  <2>1. /\ f \in FailureArg /\ f.message \in Errors /\ query \in Queries
        /\ f # Passed
    BY <1>3, FirstFailureType DEF ToolsFail, IInv, Phase
  <2>2. /\ f.safe = Contract!AgentFailure(Tool, f.safe.code)
        /\ f.retryable  => f.safe.code \in Contract!RetriedCodes
        /\ ~f.retryable => f.safe.code \in Contract!StoppingCodes
        /\ Tool # "graph" => f.stage # "result_invariant"
    BY <2>1, FailureDescribed
  <2>3. /\ pc = "tools" /\ pc' = "should_retry" /\ attempts' = Append(attempts, f.message)
        /\ error' = f.message /\ result' = "none" /\ failure' = f.safe
        /\ retryable' = f.retryable /\ attempt_count' = attempt_count
        /\ empty_retried' = empty_retried
    BY <1>3 DEF ToolsFail
  <2>4. d.attempt = attempt_count /\ (Tool # "graph" => d.stage # "result_invariant")
    BY <2>2 DEF Diagnostic
  <2>5. d \in Diagnostics
    BY <1>3, <2>1 DEF ToolsFail, Diagnostic, Diagnostics, FailureArg,
                      retry_scheduled, IInv, TypeOK, Phase, BudgetKept
  <2>6. DiagnosticAdded(d)
    BY <1>3, <2>5 DEF ToolsFail, DiagnosticAdded
  <2>. HIDE DEF d, f
  <2>7. Len(attempts') = Len(attempts) + 1
    BY <1>0, <2>1, <2>3, AppendProperties
  <2>8. /\ Len(diagnostics') <= Len(attempts')
        /\ \A i \in DOMAIN diagnostics' :
             /\ i <= diagnostics'[i].attempt
             /\ Tool # "graph" => diagnostics'[i].stage # "result_invariant"
    BY <2>3, <2>4, <2>6, <2>7, DiagnosticNumbered
  <2>9. empty_retried' => attempt_count' >= 1
    BY <1>0, <2>3 DEF Summarised
  <2>. QED BY <1>0, <2>1, <2>2, <2>3, <2>8, <2>9 DEF Summarised
<1>4. CASE ToolsEmptyRetry
  <2>. DEFINE d == Diagnostic("result", EMPTY_RESULT, TRUE)
  <2>1. /\ pc = "tools" /\ pc' = "should_retry" /\ error' = EMPTY_RESULT
        /\ attempts' = Append(attempts, EMPTY_RESULT) /\ attempt_count' = attempt_count
        /\ attempt_count >= 1
    BY <1>0, <1>4 DEF ToolsEmptyRetry, IInv, Phase
  <2>2. /\ d \in Diagnostics /\ d.attempt = attempt_count
        /\ Tool # "graph" => d.stage # "result_invariant"
    BY <2>1 DEF Diagnostic, Diagnostics, IInv, TypeOK, Phase, BudgetKept
  <2>3. DiagnosticAdded(d)
    BY <1>4, <2>2 DEF ToolsEmptyRetry, empty_diagnostics, DiagnosticAdded
  <2>. HIDE DEF d
  <2>4. Len(attempts') = Len(attempts) + 1
    BY <1>0, <2>1, AppendProperties
  <2>5. /\ Len(diagnostics') <= Len(attempts')
        /\ \A i \in DOMAIN diagnostics' :
             /\ i <= diagnostics'[i].attempt
             /\ Tool # "graph" => diagnostics'[i].stage # "result_invariant"
    BY <2>1, <2>2, <2>3, <2>4, DiagnosticNumbered
  <2>. QED BY <1>0, <2>1, <2>5 DEF Summarised
<1>5. CASE ToolsEmptyAccept
  <2>. DEFINE d == Diagnostic("result", EMPTY_RESULT, FALSE)
  <2>1. /\ pc = "tools" /\ pc' = "should_retry" /\ error' = "none" /\ ~truncated'
        /\ attempts' = Append(attempts, EMPTY_RESULT) /\ attempt_count' = attempt_count
        /\ empty_retried' = empty_retried /\ attempt_count >= 1
    BY <1>0, <1>5 DEF ToolsEmptyAccept, IInv, Phase
  <2>2. attempt_count >= 2 \/ attempt_count = MaxAttempts
    BY <1>0, <1>5, <2>1 DEF ToolsEmptyAccept, can_retry_empty, Summarised
  <2>3. /\ d \in Diagnostics /\ d.attempt = attempt_count
        /\ Tool # "graph" => d.stage # "result_invariant"
    BY <2>1 DEF Diagnostic, Diagnostics, IInv, TypeOK, Phase, BudgetKept
  <2>4. DiagnosticAdded(d)
    BY <1>5, <2>3 DEF ToolsEmptyAccept, empty_diagnostics, DiagnosticAdded
  <2>. HIDE DEF d
  <2>5. Len(attempts') = Len(attempts) + 1
    BY <1>0, <2>1, AppendProperties
  <2>6. /\ Len(diagnostics') <= Len(attempts')
        /\ \A i \in DOMAIN diagnostics' :
             /\ i <= diagnostics'[i].attempt
             /\ Tool # "graph" => diagnostics'[i].stage # "result_invariant"
    BY <2>1, <2>3, <2>4, <2>5, DiagnosticNumbered
  <2>. QED BY <1>0, <2>1, <2>2, <2>6 DEF Summarised
<1>6. CASE ToolsSucceed
  <2>1. /\ pc = "tools" /\ pc' = "should_retry" /\ error' = "none" /\ result' = "rows"
        /\ attempts' = Append(attempts, "none") /\ attempt_count' = attempt_count
        /\ empty_retried' = empty_retried /\ attempt_count >= 1
    BY <1>0, <1>6 DEF ToolsSucceed, IInv, Phase
  <2>2. Len(attempts') = Len(attempts) + 1
    BY <1>0, <2>1, AppendProperties
  <2>3. /\ DOMAIN diagnostics' = DOMAIN diagnostics
        /\ \A i \in DOMAIN diagnostics :
             /\ diagnostics'[i].attempt = diagnostics[i].attempt
             /\ diagnostics'[i].stage = diagnostics[i].stage
    <3>1. \A i \in DOMAIN diagnostics : diagnostics[i] \in Diagnostics
      BY DEF IInv, TypeOK
    <3>2. diagnostics' = mark_recovered
      BY <1>6 DEF ToolsSucceed
    <3>. QED BY <3>1, <3>2 DEF mark_recovered, Diagnostics
  <2>4. Len(diagnostics') = Len(diagnostics)
    <3>1. diagnostics \in Seq(Diagnostics) /\ diagnostics' \in Seq(Diagnostics)
      BY <1>6, RecoveredType DEF ToolsSucceed, IInv, TypeOK
    <3>. QED BY <2>3, <3>1
  <2>. QED BY <1>0, <2>1, <2>2, <2>3, <2>4 DEF Summarised
<1>7. CASE should_retry
  <2>1. /\ UNCHANGED <<attempts, error, retryable, failure, result, truncated,
                       diagnostics, empty_retried, attempt_count>>
        /\ pc = "should_retry" /\ pc' \in {"agent", "done"}
    BY <1>7 DEF should_retry
  <2>2. pc' = "done" /\ error \in Errors /\ retryable => attempt_count = MaxAttempts
    BY <1>0, <1>7 DEF should_retry, edge
  <2>. QED BY <1>0, <2>1, <2>2 DEF Summarised
<1>8. CASE UNCHANGED vars
  BY <1>8 DEF vars, Summarised
<1>. QED
  BY <1>1, <1>2, <1>3, <1>4, <1>5, <1>6, <1>7, <1>8 DEF Next, Tools

\* The retries of a finished run that followed a violated result invariant are
\* among its repeated attempts.
LEMMA InvariantRetriesBounded ==
  ASSUME IInv, Scheduled, Summarised, pc = "done"
  PROVE  result_summary.invariant_retries \in
           Contract!InvariantRetries(Tool, attempt_count)
<1>. DEFINE R == {i \in DOMAIN diagnostics :
                    /\ diagnostics[i].stage = "result_invariant"
                    /\ diagnostics[i].scheduled}
<1>1. /\ attempt_count \in Nat /\ attempt_count >= 1
      /\ \A i \in DOMAIN diagnostics :
           /\ diagnostics[i].attempt \in Nat
           /\ i \in Nat /\ i >= 1
  <2>1. attempt_count \in Nat /\ attempt_count >= 1
    BY DEF IInv, TypeOK, Phase
  <2>2. DOMAIN diagnostics = 1 .. Len(diagnostics) /\ Len(diagnostics) \in Nat
    BY DEF IInv, TypeOK
  <2>. QED BY <2>1, <2>2, DiagnosticTypes
<1>2. R \subseteq 1 .. (attempt_count - 1)
  <2>. SUFFICES ASSUME NEW i \in R PROVE i \in 1 .. (attempt_count - 1)
    OBVIOUS
  <2>1. diagnostics[i].attempt < attempt_count
    BY <1>1 DEF Scheduled
  <2>2. i <= diagnostics[i].attempt
    BY DEF Summarised
  <2>. QED BY <1>1, <2>1, <2>2
<1>3. /\ IsFiniteSet(1 .. (attempt_count - 1))
      /\ Cardinality(1 .. (attempt_count - 1)) = attempt_count - 1
  BY <1>1, FS_Interval
<1>4. Cardinality(R) \in 0 .. (attempt_count - 1)
  <2>1. IsFiniteSet(R) /\ Cardinality(R) <= attempt_count - 1
    BY <1>2, <1>3, FS_Subset
  <2>2. Cardinality(R) \in Nat
    BY <2>1, FS_CardinalityType
  <2>. QED BY <1>1, <2>1, <2>2
<1>5. Tool # "graph" => Cardinality(R) = 0
  <2>1. Tool # "graph" => R = {}
    BY DEF Summarised
  <2>. QED BY <2>1, FS_EmptySet
<1>6. result_summary.invariant_retries = Cardinality(R)
  BY DEF result_summary
<1>. QED BY <1>4, <1>5, <1>6 DEF Contract!InvariantRetries

\* The summary of a finished run is one QueryAgent allows.
LEMMA SummaryAllowed ==
  IInv /\ Settled /\ Scheduled /\ Summarised /\ pc = "done" =>
    result_summary \in Contract!AgentOutcomes(Tool, attempt_count)
<1>. SUFFICES ASSUME IInv, Settled, Scheduled, Summarised, pc = "done"
             PROVE  result_summary \in Contract!AgentOutcomes(Tool, attempt_count)
  OBVIOUS
<1>. DEFINE k == result_summary.invariant_retries
<1>1. k \in Contract!InvariantRetries(Tool, attempt_count)
  BY InvariantRetriesBounded
<1>2. /\ Len(attempts) = attempt_count /\ attempt_count \in Nat
      /\ "none" \notin Errors /\ truncated \in BOOLEAN
      /\ result \in {"none", "empty", "rows"}
      /\ empty_reason \in {"none", NO_DATA, INCONCLUSIVE}
      /\ Contract!NoFailure = NoFailure
  BY DEF IInv, Phase, BudgetKept, TypeOK, Errors, Contract!NoFailure, NoFailure,
         NoTool, Contract!NoTool
<1>3. result_summary =
        [result |-> result, failed |-> error # "none", attempts |-> attempt_count,
         empty_reason |-> empty_reason, truncated |-> truncated,
         failure |-> failure, invariant_retries |-> k]
  BY <1>2 DEF result_summary
<1>. HIDE DEF k
<1>4. CASE error = "none" /\ result = "rows"
  <2>1. failure = NoFailure /\ empty_reason = "none" /\ (error # "none") = FALSE
    BY <1>4, <1>2 DEF Settled
  <2>2. result_summary \in Contract!Succeeded(Tool, attempt_count)
    BY <1>1, <1>2, <1>3, <1>4, <2>1 DEF Contract!Succeeded
  <2>. QED BY <2>2 DEF Contract!AgentOutcomes
<1>5. CASE error = "none" /\ result = "empty"
  <2>1. /\ failure = NoFailure /\ empty_reason \in {"NO_DATA", "INCONCLUSIVE"}
        /\ truncated = FALSE /\ (error # "none") = FALSE
        /\ ~(attempt_count < 2 /\ attempt_count < MaxAttempts)
    BY <1>5, <1>2 DEF Settled, Summarised
  <2>2. result_summary \in Contract!AcceptedEmpty(Tool, attempt_count)
    BY <1>1, <1>2, <1>3, <1>5, <2>1 DEF Contract!AcceptedEmpty
  <2>. QED BY <2>2 DEF Contract!AgentOutcomes
<1>6. CASE error \in Errors
  <2>1. /\ result = "none" /\ truncated = FALSE /\ empty_reason = "none"
        /\ (error # "none") = TRUE
    BY <1>2, <1>6 DEF Settled
  <2>2. failure = Contract!AgentFailure(Tool, failure.code)
    BY <1>6 DEF Summarised
  <2>3. failure.code \in Contract!StoppingCodes \cup
          (IF attempt_count = MaxAttempts THEN Contract!RetriedCodes ELSE {})
    BY <1>6 DEF Summarised, IInv, TypeOK
  <2>4. failure \in {Contract!AgentFailure(Tool, c) :
          c \in Contract!StoppingCodes \cup
            (IF attempt_count = MaxAttempts THEN Contract!RetriedCodes ELSE {})}
    BY <2>2, <2>3
  <2>5. result_summary \in Contract!FailedAfter(Tool, attempt_count)
    BY <1>1, <1>3, <2>1, <2>4 DEF Contract!FailedAfter
  <2>. QED BY <2>5 DEF Contract!AgentOutcomes
<1>. QED BY <1>2, <1>4, <1>5, <1>6 DEF Settled

LEMMA SummaryAllowedNext ==
  (IInv /\ Settled /\ Scheduled /\ Summarised /\ pc = "done" =>
    result_summary \in Contract!AgentOutcomes(Tool, attempt_count))'
BY SummaryAllowed, PTL

\* Every step of the agent is a step of its contract or is invisible to it.
LEMMA StepAllowed ==
  ASSUME IInv, Settled, Scheduled, Summarised, [Next]_vars,
         IInv', Settled', Scheduled', Summarised'
  PROVE  [Contract!Next]_(Contract!vars)
<1>. DEFINE ph == IF pc \in {"done", "raised"} THEN pc ELSE "running"
            out == IF pc = "done"
                     THEN result_summary
                     ELSE [result |-> "none", failed |-> FALSE, attempts |-> 0,
                           empty_reason |-> "none", truncated |-> FALSE,
                           failure |-> NoFailure, invariant_retries |-> 0]
<1>1. CASE Agent
  <2>1. /\ ph = "running" /\ ph' = "running" /\ out' = out
        /\ attempt_count < MaxAttempts /\ attempt_count' = attempt_count + 1
    BY <1>1 DEF Agent, IInv, Phase
  <2>2. Contract!Attempt
    BY <2>1 DEF Contract!Attempt
  <2>. QED BY <2>2 DEF Contract!Next
<1>2. CASE AgentRaises
  <2>1. /\ ph = "running" /\ ph' = "raised" /\ out' = out
        /\ attempt_count' = attempt_count
    BY <1>2 DEF AgentRaises
  <2>2. Contract!Raise
    BY <2>1 DEF Contract!Raise
  <2>. QED BY <2>2 DEF Contract!Next
<1>3. CASE Tools
  <2>1. ph' = ph /\ out' = out /\ attempt_count' = attempt_count
    BY <1>3 DEF Tools, ToolsFail, ToolsEmptyRetry, ToolsEmptyAccept, ToolsSucceed
  <2>. QED BY <2>1 DEF Contract!vars
<1>4. CASE should_retry
  <2>1. pc = "should_retry" /\ pc' \in {"agent", "done"} /\ attempt_count' = attempt_count
    BY <1>4 DEF should_retry
  <2>2. CASE pc' = "agent"
    <3>1. ph' = ph /\ out' = out
      BY <2>1, <2>2
    <3>. QED BY <2>1, <3>1 DEF Contract!vars
  <2>3. CASE pc' = "done"
    <3>1. /\ ph = "running" /\ ph' = "done" /\ out' = result_summary'
          /\ attempt_count > 0
      BY <2>1, <2>3 DEF IInv, Phase
    <3>2. result_summary' \in Contract!AgentOutcomes(Tool, attempt_count)
      <4>1. result_summary' \in Contract!AgentOutcomes(Tool, attempt_count')
        BY <2>3, SummaryAllowedNext
      <4>. QED BY <2>1, <4>1
    <3>3. Contract!Return
      BY <2>1, <3>1, <3>2 DEF Contract!Return
    <3>. QED BY <3>3 DEF Contract!Next
  <2>. QED BY <2>1, <2>2, <2>3
<1>5. CASE UNCHANGED vars
  <2>1. ph' = ph /\ out' = out /\ attempt_count' = attempt_count
    BY <1>5 DEF vars, result_summary
  <2>. QED BY <2>1 DEF Contract!vars
<1>. QED
  BY <1>1, <1>2, <1>3, <1>4, <1>5 DEF Next

\* Whatever the budget, the agent does what the plan that calls it relies on:
\* at most MAX_ATTEMPTS attempts, a summary from AgentOutcomes and only once the
\* run is over, a retryable failure only with the budget spent, an empty result
\* only after its retry.
THEOREM ImplementsContract == Spec => Contract!SafeSpec
<1>. DEFINE Inv == IInv /\ Settled /\ Scheduled /\ Summarised
<1>1. Init => Inv
  <2>. SUFFICES ASSUME Init PROVE Inv
    OBVIOUS
  <2>1. Summarised
    BY DEF Init, Summarised, Errors
  <2>2. Settled /\ Scheduled
    BY DEF Init, Settled, Scheduled
  <2>. QED BY <2>1, <2>2, InitIInv
<1>2. Inv /\ [Next]_vars => Inv'
  BY NextIInv, NextSettled, NextScheduled, NextSummarised
<1>3. Init => Contract!Init
  BY DEF Init, Contract!Init, Contract!NoOutcome, NoFailure, Contract!NoFailure,
         NoTool, Contract!NoTool
<1>4. Inv /\ Inv' /\ [Next]_vars => [Contract!Next]_(Contract!vars)
  BY StepAllowed
<1>. HIDE DEF Inv
<1>. QED BY <1>1, <1>2, <1>3, <1>4, PTL DEF Spec, Contract!SafeSpec
=============================================================================
