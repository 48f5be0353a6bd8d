-------------------------- MODULE ExecutePlanProofs --------------------------
(***************************************************************************)
(* Proofs about the execution of a plan, for every budget of the agents:   *)
(* in whatever order the agents of a wave return or raise, every subquery  *)
(* is run on what it depends on, each outcome is merged once, and the      *)
(* failure that is reported is the right one.                              *)
(***************************************************************************)
EXTENDS ExecutePlan, TLAPS

USE MaxAttemptsAssumption

-----------------------------------------------------------------------------
(***************************************************************************)
(* Plans.                                                                  *)
(***************************************************************************)

\* A validated plan has one subquery, or two for different tools of which only
\* the second may depend on the first (validate_subqueries).
PlanShape ==
  /\ DOMAIN plan = 1 .. Len(plan) /\ Len(plan) \in {1, 2}
  /\ \A i \in DOMAIN plan : plan[i].tool \in ToolNames
  /\ plan[1].dependsOn = {}
  /\ Len(plan) = 2 => /\ plan[1].tool # plan[2].tool
                      /\ plan[2].dependsOn \subseteq {plan[1].tool}

LEMMA PlansShaped == plan \in ExecutionPlanSet => PlanShape
<1>. SUFFICES ASSUME plan \in ExecutionPlanSet PROVE PlanShape
  OBVIOUS
<1>1. PICK n \in 1 .. 2 : plan \in [1 .. n -> PlanItem]
  BY DEF ExecutionPlanSet
<1>2. n \in {1, 2} /\ DOMAIN plan = 1 .. n /\ Len(plan) = n
  BY <1>1
<1>3. \A i \in DOMAIN plan :
        /\ plan[i].tool \in ToolNames
        /\ \A j \in DOMAIN plan : plan[j].tool = plan[i].tool => j = i
        /\ plan[i].dependsOn \subseteq {plan[j].tool : j \in 1 .. (i - 1)}
  BY <1>1 DEF ExecutionPlanSet, PlanItem
<1>4. 1 \in DOMAIN plan /\ (n = 2 => 2 \in DOMAIN plan)
  BY <1>2
<1>5. {plan[j].tool : j \in 1 .. (1 - 1)} = {}
  OBVIOUS
<1>6. {plan[j].tool : j \in 1 .. (2 - 1)} = {plan[1].tool}
  OBVIOUS
<1>7. plan[1].dependsOn = {}
  BY <1>3, <1>4, <1>5
<1>8. n = 2 => plan[1].tool # plan[2].tool /\ plan[2].dependsOn \subseteq {plan[1].tool}
  BY <1>3, <1>4, <1>6
<1>. QED BY <1>2, <1>3, <1>7, <1>8 DEF PlanShape

\* What the rest of the proofs use of a plan: a subquery that depends on
\* something is the second, and depends on the first alone, which depends on
\* nothing.
LEMMA Dependencies ==
  ASSUME PlanShape
  PROVE  /\ PlanTools \subseteq ToolNames
         /\ plan[1].tool \in PlanTools
         /\ PlanTools = IF Len(plan) = 1 THEN {plan[1].tool}
                        ELSE {plan[1].tool, plan[2].tool}
         /\ dependsOn(plan[1].tool) = {}
         /\ \A t \in PlanTools : dependsOn(t) \subseteq {plan[1].tool} \ {t}
<1>1. CASE Len(plan) = 1
  <2>1. DOMAIN plan = {1}
    BY <1>1 DEF PlanShape
  <2>2. PlanTools = {plan[1].tool}
    BY <2>1 DEF PlanTools
  <2>3. dependsOn(plan[1].tool) = {}
    BY <2>1 DEF dependsOn, PlanShape
  <2>. QED BY <1>1, <2>1, <2>2, <2>3 DEF PlanShape
<1>2. CASE Len(plan) = 2
  <2>1. DOMAIN plan = {1, 2}
    BY <1>2 DEF PlanShape
  <2>2. PlanTools = {plan[1].tool, plan[2].tool}
    BY <2>1 DEF PlanTools
  <2>3. dependsOn(plan[1].tool) = {}
    <3>1. {j \in DOMAIN plan : plan[j].tool = plan[1].tool} = {1}
      BY <1>2, <2>1 DEF PlanShape
    <3>. QED BY <3>1 DEF dependsOn, PlanShape
  <2>4. dependsOn(plan[2].tool) \subseteq {plan[1].tool}
    <3>1. {j \in DOMAIN plan : plan[j].tool = plan[2].tool} = {2}
      BY <1>2, <2>1 DEF PlanShape
    <3>. QED BY <1>2, <3>1 DEF dependsOn, PlanShape
  <2>. QED BY <1>2, <2>1, <2>2, <2>3, <2>4 DEF PlanShape
<1>. QED BY <1>1, <1>2 DEF PlanShape

-----------------------------------------------------------------------------
(***************************************************************************)
(* Summaries.                                                              *)
(***************************************************************************)

\* What any subquery ends with: a failure exactly when there is no result, and
\* a reason for an empty one.
Summaries ==
  {s \in [result : {"none", "empty", "rows"}, failed : BOOLEAN, attempts : Nat,
          empty_reason : {"none", "NO_DATA", "INCONCLUSIVE"}, truncated : BOOLEAN,
          failure : MaybeFailure, invariant_retries : Nat] :
     /\ s.failed <=> s.failure # NoFailure
     /\ s.failed <=> s.result = "none"
     /\ s.result = "empty" => s.empty_reason # "none"}

\* An agent's summary is one of these, and its failure is its own.
LEMMA AgentSummaries ==
  ASSUME NEW t \in ToolNames, NEW n \in 1 .. MaxAttempts,
         NEW s \in AgentOutcomes(t, n)
  PROVE  s \in Summaries /\ ~s.failure.dependent_failure
<1>0. n \in Nat /\ \A k \in InvariantRetries(t, n) : k \in Nat
  BY DEF InvariantRetries
<1>1. NoFailure \in MaybeFailure /\ ~NoFailure.dependent_failure
  BY DEF MaybeFailure, NoFailure
<1>2. CASE s \in Succeeded(t, n)
  BY <1>0, <1>1, <1>2 DEF Succeeded, Summaries
<1>3. CASE s \in AcceptedEmpty(t, n)
  BY <1>0, <1>1, <1>3 DEF AcceptedEmpty, Summaries
<1>4. CASE s \in FailedAfter(t, n)
  <2>1. PICK c \in StoppingCodes \cup (IF n = MaxAttempts THEN RetriedCodes ELSE {}) :
          s.failure = AgentFailure(t, c)
    BY <1>4 DEF FailedAfter
  <2>2. c \in FailureCodes
    BY <2>1 DEF StoppingCodes, RetriedCodes, FailureCodes
  <2>3. s.failure \in QueryFailure /\ ~s.failure.dependent_failure
    BY <2>1, <2>2 DEF AgentFailure, make_query_failure, QueryFailure, FailureStages,
                      FailureKinds
  <2>4. s.failure # NoFailure
    BY <2>3 DEF QueryFailure, NoFailure, FailureCodes
  <2>. QED BY <1>0, <1>4, <2>3, <2>4 DEF FailedAfter, Summaries, MaybeFailure
<1>. QED BY <1>2, <1>3, <1>4 DEF AgentOutcomes

\* The summaries of a subquery whose agent is not invoked.
LEMMA SkippedSummaries ==
  /\ dependency_failure \in Summaries
  /\ dependency_failure.failed
  /\ dependency_failure.failure.code = "DEPENDENCY_FAILED"
  /\ dependency_failure.failure.kind = "user_correctable"
  /\ dependency_failure.failure.dependent_failure
  /\ input_binding_failure \in Summaries
  /\ \A E : /\ dependency_empty(E) \in Summaries
            /\ dependency_empty(E).result = "empty"
            /\ ~dependency_empty(E).failed
            /\ dependency_empty(E).empty_reason =
                 IF \E d \in E : outcomes[d].empty_reason = "INCONCLUSIVE"
                   THEN "INCONCLUSIVE" ELSE "NO_DATA"
<1>. DEFINE F(code, kind) == make_query_failure(code, "dependency", kind, NoTool, TRUE)
<1>0. \A code \in FailureCodes, kind \in FailureKinds :
        F(code, kind) \in QueryFailure /\ F(code, kind) # NoFailure
  <2>1. \A code \in FailureCodes, kind \in FailureKinds : F(code, kind) \in QueryFailure
    BY DEF make_query_failure, QueryFailure, FailureStages
  <2>2. NoFailure \notin QueryFailure
    BY DEF QueryFailure, NoFailure, FailureCodes
  <2>. QED BY <2>1, <2>2
<1>1. /\ F("DEPENDENCY_FAILED", "user_correctable") \in QueryFailure \ {NoFailure}
      /\ F("INPUT_BINDING_INVALID", "internal") \in QueryFailure \ {NoFailure}
  BY <1>0 DEF FailureCodes, FailureKinds
<1>2. /\ F("DEPENDENCY_FAILED", "user_correctable").code = "DEPENDENCY_FAILED"
      /\ F("DEPENDENCY_FAILED", "user_correctable").kind = "user_correctable"
      /\ F("DEPENDENCY_FAILED", "user_correctable").dependent_failure
  BY DEF make_query_failure
<1>3. /\ dependency_failure =
           [NoOutcome EXCEPT !.failed = TRUE,
              !.failure = F("DEPENDENCY_FAILED", "user_correctable")]
      /\ input_binding_failure =
           [NoOutcome EXCEPT !.failed = TRUE,
              !.failure = F("INPUT_BINDING_INVALID", "internal")]
  BY DEF dependency_failure, input_binding_failure
<1>. HIDE DEF F
<1>4. dependency_failure =
        [result |-> "none", failed |-> TRUE, attempts |-> 0, empty_reason |-> "none",
         truncated |-> FALSE, failure |-> F("DEPENDENCY_FAILED", "user_correctable"),
         invariant_retries |-> 0]
  BY <1>3 DEF NoOutcome
<1>5. input_binding_failure =
        [result |-> "none", failed |-> TRUE, attempts |-> 0, empty_reason |-> "none",
         truncated |-> FALSE, failure |-> F("INPUT_BINDING_INVALID", "internal"),
         invariant_retries |-> 0]
  BY <1>3 DEF NoOutcome
<1>6. dependency_failure \in Summaries /\ input_binding_failure \in Summaries
  BY <1>1, <1>4, <1>5 DEF Summaries, MaybeFailure
<1>7. ASSUME NEW E
      PROVE  /\ dependency_empty(E) \in Summaries
             /\ dependency_empty(E).result = "empty"
             /\ ~dependency_empty(E).failed
             /\ dependency_empty(E).empty_reason =
                  IF \E d \in E : outcomes[d].empty_reason = "INCONCLUSIVE"
                    THEN "INCONCLUSIVE" ELSE "NO_DATA"
  <2>. DEFINE r == IF \E d \in E : outcomes[d].empty_reason = "INCONCLUSIVE"
                     THEN "INCONCLUSIVE" ELSE "NO_DATA"
  <2>1. r \in {"INCONCLUSIVE", "NO_DATA"}
    OBVIOUS
  <2>2. dependency_empty(E) = [NoOutcome EXCEPT !.result = "empty", !.empty_reason = r]
    BY DEF dependency_empty
  <2>. HIDE DEF r
  <2>3. dependency_empty(E) =
          [result |-> "empty", failed |-> FALSE, attempts |-> 0, empty_reason |-> r,
           truncated |-> FALSE, failure |-> NoFailure, invariant_retries |-> 0]
    BY <2>2 DEF NoOutcome
  <2>4. dependency_empty(E).empty_reason = r
    BY <2>3
  <2>5. dependency_empty(E) \in Summaries
    BY <2>1, <2>3 DEF Summaries, MaybeFailure
  <2>. QED BY <2>3, <2>4, <2>5 DEF r
<1>. QED BY <1>2, <1>4, <1>6, <1>7

-----------------------------------------------------------------------------
(***************************************************************************)
(* The merge of a wave.                                                    *)
(***************************************************************************)

\* The loop over the wave, unrolled: a plan has at most two subqueries.
AfterFirst ==
  IF plan[1].tool \in ready THEN merge_one(output, plan[1].tool) ELSE output

AfterSecond ==
  IF plan[2].tool \in ready THEN merge_one(AfterFirst, plan[2].tool) ELSE AfterFirst

LEMMA LoopUnrolled ==
  ASSUME PlanShape
  PROVE  merge_upto[Len(plan)] = IF Len(plan) = 1 THEN AfterFirst ELSE AfterSecond
<1>. DEFINE Step(g) ==
              [i \in 0 .. Len(plan) |->
                 IF i = 0 THEN output
                 ELSE IF plan[i].tool \in ready
                        THEN merge_one(g[i - 1], plan[i].tool)
                 ELSE g[i - 1]]
            g0 == [i \in 0 .. Len(plan) |->
                     IF i = 0 THEN output ELSE IF i = 1 THEN AfterFirst ELSE AfterSecond]
<1>1. Len(plan) \in {1, 2}
  BY DEF PlanShape
<1>2. 0 \in 0 .. Len(plan) /\ 1 \in 0 .. Len(plan) /\ (Len(plan) = 2 => 2 \in 0 .. Len(plan))
  BY <1>1
<1>3. \A i \in 0 .. Len(plan) : i = 0 \/ i = 1 \/ (i = 2 /\ Len(plan) = 2)
  <2>1. CASE Len(plan) = 1
    BY <2>1
  <2>2. CASE Len(plan) = 2
    BY <2>2
  <2>. QED BY <1>1, <2>1, <2>2
<1>4. g0[0] = output /\ g0[1] = AfterFirst /\ (Len(plan) = 2 => g0[2] = AfterSecond)
  BY <1>2
<1>5. \A i \in 0 .. Len(plan) : g0[i] = Step(g0)[i]
  <2>. SUFFICES ASSUME NEW i \in 0 .. Len(plan) PROVE g0[i] = Step(g0)[i]
    OBVIOUS
  <2>1. CASE i = 0
    BY <2>1, <1>4
  <2>2. CASE i = 1
    <3>1. i - 1 = 0
      BY <2>2
    <3>. QED BY <2>2, <3>1, <1>4 DEF AfterFirst
  <2>3. CASE i = 2 /\ Len(plan) = 2
    <3>1. i - 1 = 1
      BY <2>3
    <3>. QED BY <2>3, <3>1, <1>4 DEF AfterSecond
  <2>. QED BY <1>3, <2>1, <2>2, <2>3
<1>6. g0 = Step(g0)
  BY <1>5
<1>7. merge_upto = CHOOSE g : g = Step(g)
  BY DEF merge_upto
<1>. HIDE DEF g0, Step
<1>8. merge_upto = Step(merge_upto)
  BY <1>6, <1>7
<1>. USE DEF Step
<1>9. merge_upto[0] = output
  BY <1>2, <1>8
<1>10. merge_upto[1] = AfterFirst
  <2>1. merge_upto[1] = IF plan[1].tool \in ready
                          THEN merge_one(merge_upto[1 - 1], plan[1].tool)
                          ELSE merge_upto[1 - 1]
    BY <1>2, <1>8
  <2>2. 1 - 1 = 0
    OBVIOUS
  <2>. QED BY <2>1, <2>2, <1>9 DEF AfterFirst
<1>11. Len(plan) = 2 => merge_upto[2] = AfterSecond
  <2>. SUFFICES ASSUME Len(plan) = 2 PROVE merge_upto[2] = AfterSecond
    OBVIOUS
  <2>1. merge_upto[2] = IF plan[2].tool \in ready
                          THEN merge_one(merge_upto[2 - 1], plan[2].tool)
                          ELSE merge_upto[2 - 1]
    BY <1>2, <1>8
  <2>2. 2 - 1 = 1
    OBVIOUS
  <2>. QED BY <2>1, <2>2, <1>10 DEF AfterSecond
<1>. QED BY <1>1, <1>10, <1>11

-----------------------------------------------------------------------------
(***************************************************************************)
(* The inductive invariant.                                                *)
(***************************************************************************)

\* What may be merged for t: a failed or empty subquery that t depends on is
\* handed on, and only a consequence of such a one is a dependent failure.
GoodSummary(t, s) ==
  /\ s \in Summaries
  /\ dependsOn(t) = {} => ~s.failure.dependent_failure
  /\ \A d \in dependsOn(t) :
       /\ outcomes[d].result = "empty" =>
            s.result = "empty" /\ s.empty_reason = outcomes[d].empty_reason
       /\ outcomes[d].failed => s.failed /\ s.failure = dependency_failure.failure

\* The waves: what is merged, what is in execution, and what waits.
Waves ==
  /\ pc \in {"wave", "gather", "done", "raised"}
  /\ plan \in ExecutionPlanSet
  /\ merged \subseteq PlanTools /\ pending = PlanTools \ merged
  /\ ready \subseteq pending
  /\ \A t \in ready \cup merged : dependsOn(t) \subseteq merged
  /\ pc = "wave" => ready = {}
  /\ pc = "gather" => ready = {t \in pending : is_ready(t)}
  /\ pc = "done" => pending = {}
  /\ task \in [ToolNames -> {"idle", "running", "returned", "raised"}]
  /\ \A t \in ToolNames : task[t] = "running" => t \in ready

\* The outcomes: each was fit to be merged, and so is what the wave returned.
Fed ==
  /\ returned \in [ToolNames -> Summaries \cup {NoOutcome}]
  /\ outcomes \in [ToolNames -> Summaries \cup {NoOutcome}]
  /\ invoked \subseteq merged \cup ready
  /\ InvokedOnRows
  /\ \A t \in merged : GoodSummary(t, outcomes[t])
  /\ \A t \in ready : task[t] = "returned" => GoodSummary(t, returned[t])
  /\ \A t \in ToolNames \ merged : outcomes[t] = NoOutcome

\* The failure kept after merging current and then candidate.
Combined(current, candidate) ==
  IF candidate = NoFailure THEN current ELSE prefer_failure(current, candidate)

Outputs ==
  [query_failure : MaybeFailure, results : [ToolNames -> Summaries \cup {NoOutcome}],
   queries : SUBSET ToolNames, resultInvariantRetryCount : Nat]

\* The output holds what was merged so far, in plan order.
Merging ==
  /\ output \in Outputs
  /\ merged # {} => plan[1].tool \in merged
  /\ \A t \in merged : output.results[t] = outcomes[t]
  /\ output.queries = invoked \cap merged
  /\ output.query_failure =
       Combined(outcomes[plan[1].tool].failure,
                IF Len(plan) = 2 THEN outcomes[plan[2].tool].failure ELSE NoFailure)
  /\ output.resultInvariantRetryCount =
       outcomes[plan[1].tool].invariant_retries +
       (IF Len(plan) = 2 THEN outcomes[plan[2].tool].invariant_retries ELSE 0)

EInv == Waves /\ Fed /\ Merging

LEMMA NoOutcomeFields ==
  /\ NoOutcome.failure = NoFailure /\ NoOutcome.invariant_retries = 0
  /\ NoOutcome.result = "none" /\ ~NoOutcome.failed
BY DEF NoOutcome

LEMMA InitEInv == Init => EInv
<1>. SUFFICES ASSUME Init PROVE EInv
  OBVIOUS
<1>1. PlanShape
  BY PlansShaped DEF Init
<1>2. plan[1].tool \in ToolNames /\ (Len(plan) = 2 => plan[2].tool \in ToolNames)
  BY <1>1 DEF PlanShape
<1>3. Waves
  BY DEF Init, Waves
<1>4. Fed
  BY DEF Init, Fed, InvokedOnRows
<1>5. output \in Outputs
  BY DEF Init, NoOutput, MaybeFailure, Outputs
<1>6. output.query_failure = NoFailure /\ output.resultInvariantRetryCount = 0
      /\ output.queries = {}
  BY DEF Init, NoOutput
<1>7. Merging
  BY <1>2, <1>5, <1>6, NoOutcomeFields DEF Init, Merging, Combined
<1>. QED BY <1>3, <1>4, <1>7 DEF EInv

\* What an action that merges nothing has to keep.
LEMMA MergingUnchanged ==
  ASSUME Merging, UNCHANGED <<plan, outcomes, merged, output>>,
         invoked' \cap merged = invoked \cap merged
  PROVE  Merging'
BY DEF Merging

LEMMA StartWaveEInv == EInv /\ StartWave => EInv'
<1>. SUFFICES ASSUME EInv, StartWave PROVE EInv'
  OBVIOUS
<1>1. PlanShape
  BY PlansShaped DEF EInv, Waves
<1>2. /\ UNCHANGED <<plan, pending, returned, outcomes, merged, invoked, output>>
      /\ pending # {} /\ ready' = {t \in pending : is_ready(t)} /\ pc = "wave"
      /\ task' = [t \in ToolNames |-> IF t \in ready' THEN "running" ELSE task[t]]
      /\ pc' = IF ready' = {} THEN "stuck" ELSE "gather"
  BY DEF StartWave
<1>3. ready' # {}
  <2>1. CASE plan[1].tool \in pending
    <3>1. is_ready(plan[1].tool)
      BY <1>1, Dependencies DEF is_ready
    <3>. QED BY <1>2, <2>1, <3>1
  <2>2. CASE plan[1].tool \notin pending
    <3>1. PICK t \in pending : TRUE
      BY <1>2
    <3>2. plan[1].tool \in merged /\ t \in PlanTools
      BY <1>1, <2>2, Dependencies DEF EInv, Waves
    <3>3. dependsOn(t) \subseteq {plan[1].tool}
      BY <1>1, <3>2, Dependencies
    <3>4. is_ready(t)
      BY <3>2, <3>3 DEF is_ready
    <3>. QED BY <1>2, <3>4
  <2>. QED BY <2>1, <2>2
<1>4. pc' = "gather" /\ ready = {}
  BY <1>2, <1>3 DEF EInv, Waves
<1>5. \A t \in ToolNames : task'[t] = "running" => t \in ready'
  <2>1. \A t \in ToolNames : task[t] # "running"
    BY <1>4 DEF EInv, Waves
  <2>. QED BY <1>2, <2>1
<1>6. task' \in [ToolNames -> {"idle", "running", "returned", "raised"}]
  BY <1>2 DEF EInv, Waves
<1>7. \A t \in ready' \cup merged : dependsOn(t) \subseteq merged
  BY <1>2 DEF EInv, Waves, is_ready
<1>8. Waves'
  BY <1>2, <1>4, <1>5, <1>6, <1>7 DEF EInv, Waves, PlanTools, dependsOn, is_ready
<1>9. Fed'
  <2>1. \A t \in ready' : task'[t] # "returned"
    BY <1>1, <1>2, Dependencies DEF EInv, Waves
  <2>. QED
    BY <1>2, <1>4, <2>1 DEF EInv, Fed, InvokedOnRows, GoodSummary, dependsOn
<1>10. Merging'
  BY <1>2, MergingUnchanged DEF EInv
<1>. QED BY <1>8, <1>9, <1>10 DEF EInv

LEMMA FinishEInv == EInv /\ Finish => EInv'
<1>. SUFFICES ASSUME EInv, Finish PROVE EInv'
  OBVIOUS
<1>1. /\ UNCHANGED <<plan, pending, ready, task, returned, outcomes, merged, invoked,
                     output>>
      /\ pc' = "done" /\ pending = {}
  BY DEF Finish
<1>2. Waves'
  BY <1>1 DEF EInv, Waves, PlanTools, dependsOn, is_ready
<1>3. Fed'
  BY <1>1 DEF EInv, Fed, InvokedOnRows, GoodSummary, dependsOn
<1>4. Merging'
  BY <1>1, MergingUnchanged DEF EInv
<1>. QED BY <1>2, <1>3, <1>4 DEF EInv

\* A subquery of the wave returns a summary that is fit to be merged.
LEMMA ReturnsEInv ==
  ASSUME EInv, NEW t \in ToolNames, NEW s, Returns(t, s), UNCHANGED invoked,
         GoodSummary(t, s)
  PROVE  EInv'
<1>1. /\ UNCHANGED <<pc, plan, pending, ready, outcomes, merged, output, invoked>>
      /\ task[t] = "running" /\ task' = [task EXCEPT ![t] = "returned"]
      /\ returned' = [returned EXCEPT ![t] = s]
  BY DEF Returns
<1>2. /\ task' \in [ToolNames -> {"idle", "running", "returned", "raised"}]
      /\ \A u \in ToolNames : task'[u] = "running" => u \in ready
  BY <1>1 DEF EInv, Waves
<1>3. Waves'
  BY <1>1, <1>2 DEF EInv, Waves, PlanTools, dependsOn, is_ready
<1>4. s \in Summaries
  BY DEF GoodSummary
<1>5. returned' \in [ToolNames -> Summaries \cup {NoOutcome}]
  BY <1>1, <1>4 DEF EInv, Fed
<1>6. \A u \in ready : task'[u] = "returned" => GoodSummary(u, returned'[u])
  <2>. SUFFICES ASSUME NEW u \in ready, task'[u] = "returned"
               PROVE  GoodSummary(u, returned'[u])
    OBVIOUS
  <2>0. u \in ToolNames /\ returned \in [ToolNames -> Summaries \cup {NoOutcome}]
        /\ task \in [ToolNames -> {"idle", "running", "returned", "raised"}]
    BY PlansShaped, Dependencies DEF EInv, Waves, Fed
  <2>1. CASE u = t
    <3>1. returned'[u] = s
      BY <1>1, <2>0, <2>1
    <3>. QED BY <2>1, <3>1
  <2>2. CASE u # t
    <3>1. returned'[u] = returned[u] /\ task'[u] = task[u]
      BY <1>1, <2>0, <2>2
    <3>. QED BY <3>1 DEF EInv, Fed
  <2>. QED BY <2>1, <2>2
<1>7. Fed'
  BY <1>1, <1>5, <1>6 DEF EInv, Fed, InvokedOnRows, GoodSummary, dependsOn
<1>8. Merging'
  BY <1>1, MergingUnchanged DEF EInv
<1>. QED BY <1>3, <1>7, <1>8 DEF EInv

\* A failed dependency is handed on as a dependent failure.
LEMMA SkipFailedEInv ==
  ASSUME EInv, NEW t \in ToolNames, SkipFailed(t)
  PROVE  EInv'
<1>1. /\ Returns(t, dependency_failure) /\ UNCHANGED invoked
      /\ failed_dependencies(t) # {} /\ task[t] = "running"
  BY DEF SkipFailed
<1>2. PlanShape /\ t \in PlanTools /\ dependsOn(t) \subseteq merged
  BY <1>1, PlansShaped DEF EInv, Waves
<1>3. dependsOn(t) = {plan[1].tool}
  BY <1>1, <1>2, Dependencies DEF failed_dependencies
<1>4. /\ outcomes[plan[1].tool] \in Summaries
      /\ outcomes[plan[1].tool].failed \/ outcomes[plan[1].tool].result = "none"
  <2>1. plan[1].tool \in merged
    BY <1>2, <1>3
  <2>. QED BY <1>1, <1>3, <2>1 DEF failed_dependencies, EInv, Fed, GoodSummary
<1>5. outcomes[plan[1].tool].result = "none"
  BY <1>4 DEF Summaries
<1>6. GoodSummary(t, dependency_failure)
  BY <1>3, <1>5, SkippedSummaries DEF GoodSummary
<1>. QED BY <1>1, <1>6, ReturnsEInv

\* An empty one is handed on with its reason.
LEMMA SkipEmptyEInv ==
  ASSUME EInv, NEW t \in ToolNames, SkipEmpty(t)
  PROVE  EInv'
<1>. DEFINE e == dependency_empty(empty_dependencies(t))
<1>1. /\ Returns(t, e) /\ UNCHANGED invoked /\ task[t] = "running"
      /\ failed_dependencies(t) = {} /\ empty_dependencies(t) # {}
  BY DEF SkipEmpty
<1>2. PlanShape /\ t \in PlanTools /\ dependsOn(t) \subseteq merged
  BY <1>1, PlansShaped DEF EInv, Waves
<1>3. dependsOn(t) = {plan[1].tool} /\ empty_dependencies(t) = {plan[1].tool}
  BY <1>1, <1>2, Dependencies DEF empty_dependencies
<1>4. /\ outcomes[plan[1].tool] \in Summaries
      /\ outcomes[plan[1].tool].result = "empty" /\ ~outcomes[plan[1].tool].failed
  <2>1. plan[1].tool \in merged
    BY <1>2, <1>3
  <2>. QED BY <1>1, <1>3, <2>1 DEF failed_dependencies, empty_dependencies, EInv, Fed,
                                  GoodSummary
<1>5. outcomes[plan[1].tool].empty_reason \in {"NO_DATA", "INCONCLUSIVE"}
  BY <1>4 DEF Summaries
<1>6. /\ e \in Summaries /\ e.result = "empty"
      /\ e.empty_reason = outcomes[plan[1].tool].empty_reason
  BY <1>3, <1>5, SkippedSummaries
<1>. HIDE DEF e
<1>7. GoodSummary(t, e)
  BY <1>3, <1>4, <1>6 DEF GoodSummary
<1>. QED BY <1>1, <1>7, ReturnsEInv

LEMMA BindingInvalidEInv ==
  ASSUME EInv, NEW t \in ToolNames, BindingInvalid(t)
  PROVE  EInv'
<1>1. /\ Returns(t, input_binding_failure) /\ UNCHANGED invoked
      /\ Runs(t) /\ dependsOn(t) # {}
  BY DEF BindingInvalid
<1>2. GoodSummary(t, input_binding_failure)
  BY <1>1, SkippedSummaries
  DEF GoodSummary, Runs, failed_dependencies, empty_dependencies
<1>. QED BY <1>1, <1>2, ReturnsEInv

\* The agent is invoked on the rows of everything it depends on.
LEMMA InvokeAgentEInv ==
  ASSUME EInv, NEW t \in ToolNames, InvokeAgent(t)
  PROVE  EInv'
<1>1. /\ UNCHANGED <<pc, plan, pending, ready, task, returned, outcomes, merged,
                     output>>
      /\ invoked' = invoked \cup {t} /\ Runs(t) /\ task[t] = "running"
  BY DEF InvokeAgent
<1>2. t \in ready /\ t \notin merged /\ dependsOn(t) \subseteq merged
  BY <1>1 DEF EInv, Waves
<1>3. \A d \in dependsOn(t) : outcomes[d] \in Summaries
  BY <1>2 DEF EInv, Fed, GoodSummary
<1>4. \A d \in dependsOn(t) : outcomes[d].result = "rows" /\ ~outcomes[d].failed
  BY <1>1, <1>3 DEF Runs, failed_dependencies, empty_dependencies, Summaries
<1>5. Waves'
  BY <1>1 DEF EInv, Waves, PlanTools, dependsOn, is_ready
<1>6. InvokedOnRows'
  BY <1>1, <1>2, <1>4 DEF EInv, Fed, InvokedOnRows, dependsOn
<1>7. Fed'
  BY <1>1, <1>2, <1>6 DEF EInv, Fed, GoodSummary, dependsOn
<1>8. Merging'
  BY <1>1, <1>2, MergingUnchanged DEF EInv
<1>. QED BY <1>5, <1>7, <1>8 DEF EInv

LEMMA AgentReturnsEInv ==
  ASSUME EInv, NEW t \in ToolNames, AgentReturns(t)
  PROVE  EInv'
<1>1. PICK n \in 1 .. MaxAttempts : \E s \in AgentOutcomes(t, n) : Returns(t, s)
  BY DEF AgentReturns
<1>2. PICK s \in AgentOutcomes(t, n) : Returns(t, s)
  BY <1>1
<1>3. t \in invoked /\ UNCHANGED invoked
  BY DEF AgentReturns
<1>4. \A d \in dependsOn(t) :
        /\ outcomes[d].result = "rows" /\ ~outcomes[d].failed
  BY <1>3 DEF EInv, Fed, InvokedOnRows
<1>5. GoodSummary(t, s)
  BY <1>4, AgentSummaries DEF GoodSummary
<1>. QED BY <1>2, <1>3, <1>5, ReturnsEInv

LEMMA AgentRaisesEInv ==
  ASSUME EInv, NEW t \in ToolNames, AgentRaises(t)
  PROVE  EInv'
<1>1. /\ UNCHANGED <<plan, pending, ready, returned, outcomes, merged, invoked, output>>
      /\ task' = [task EXCEPT ![t] = "raised"]
      /\ pc' = IF pc = "gather" THEN "raised" ELSE pc
  BY DEF AgentRaises
<1>2. /\ task' \in [ToolNames -> {"idle", "running", "returned", "raised"}]
      /\ \A u \in ToolNames : task'[u] = "running" => u \in ready
  BY <1>1 DEF EInv, Waves
<1>3. Waves'
  BY <1>1, <1>2 DEF EInv, Waves, PlanTools, dependsOn, is_ready
<1>4. \A u \in ready : task'[u] = "returned" => task[u] = "returned"
  BY <1>1, PlansShaped, Dependencies DEF EInv, Waves
<1>5. Fed'
  BY <1>1, <1>4 DEF EInv, Fed, InvokedOnRows, GoodSummary, dependsOn
<1>6. Merging'
  BY <1>1, MergingUnchanged DEF EInv
<1>. QED BY <1>3, <1>5, <1>6 DEF EInv

\* One iteration of the merge loop.
LEMMA MergeOne ==
  ASSUME NEW out \in Outputs, NEW t \in ToolNames, returned[t] \in Summaries
  PROVE  /\ merge_one(out, t) \in Outputs
         /\ merge_one(out, t).query_failure =
              Combined(out.query_failure, returned[t].failure)
         /\ merge_one(out, t).results[t] = returned[t]
         /\ \A u \in ToolNames \ {t} : merge_one(out, t).results[u] = out.results[u]
         /\ merge_one(out, t).queries =
              IF t \in invoked THEN out.queries \cup {t} ELSE out.queries
         /\ merge_one(out, t).resultInvariantRetryCount =
              out.resultInvariantRetryCount + returned[t].invariant_retries
<1>1. /\ out.query_failure \in MaybeFailure /\ out.queries \subseteq ToolNames
      /\ out.results \in [ToolNames -> Summaries \cup {NoOutcome}]
      /\ out.resultInvariantRetryCount \in Nat
  BY DEF Outputs
<1>2. returned[t].failure \in MaybeFailure /\ returned[t].invariant_retries \in Nat
  BY DEF Summaries
<1>3. Combined(out.query_failure, returned[t].failure) \in MaybeFailure
  BY <1>1, <1>2 DEF Combined, prefer_failure
<1>4. merge_one(out, t) =
        [query_failure |-> Combined(out.query_failure, returned[t].failure),
         results |-> [out.results EXCEPT ![t] = returned[t]],
         queries |-> IF t \in invoked THEN out.queries \cup {t} ELSE out.queries,
         resultInvariantRetryCount |->
           out.resultInvariantRetryCount + returned[t].invariant_retries]
  BY DEF merge_one, Combined
<1>5. [out.results EXCEPT ![t] = returned[t]] \in
        [ToolNames -> Summaries \cup {NoOutcome}]
  BY <1>1
<1>6. merge_one(out, t) \in Outputs
  BY <1>1, <1>2, <1>3, <1>4, <1>5 DEF Outputs
<1>. QED BY <1>1, <1>4, <1>6

\* The failure that merging nothing leaves.
LEMMA NothingCombined == \A f : Combined(f, NoFailure) = f /\ Combined(NoFailure, f) = f
BY DEF Combined, prefer_failure

LEMMA MergeWaveEInv == EInv /\ MergeWave => EInv'
<1>. SUFFICES ASSUME EInv, MergeWave PROVE EInv'
  OBVIOUS
<1>. DEFINE a == plan[1].tool
            b == plan[2].tool
            two == Len(plan) = 2
<1>1. /\ pc = "gather" /\ pc' = "wave" /\ UNCHANGED <<plan, task, returned, invoked>>
      /\ \A t \in ready : task[t] = "returned"
      /\ outcomes' =
           [t \in ToolNames |-> IF t \in ready THEN returned[t] ELSE outcomes[t]]
      /\ merged' = merged \cup ready /\ pending' = pending \ ready /\ ready' = {}
      /\ output' = merge_upto[Len(plan)]
  BY DEF MergeWave, still_pending
<1>2. PlanShape
  BY PlansShaped DEF EInv, Waves
<1>3. /\ a \in ToolNames /\ a \in PlanTools /\ PlanTools \subseteq ToolNames
      /\ PlanTools = IF two THEN {a, b} ELSE {a}
      /\ two => b \in ToolNames /\ a # b
      /\ dependsOn(a) = {}
      /\ Len(plan) \in {1, 2}
  BY <1>2, Dependencies DEF PlanShape
<1>4. /\ ready \subseteq PlanTools /\ ready \cap merged = {}
      /\ merged \subseteq PlanTools
      /\ a \in ready \/ a \in merged
  <2>1. is_ready(a)
    BY <1>3 DEF is_ready
  <2>. QED BY <1>1, <1>3, <2>1 DEF EInv, Waves
<1>5. \A t \in ready : GoodSummary(t, returned[t]) /\ returned[t] \in Summaries
  BY <1>1 DEF EInv, Fed, GoodSummary
<1>6. /\ outcomes \in [ToolNames -> Summaries \cup {NoOutcome}]
      /\ \A t \in ToolNames \ merged : outcomes[t] = NoOutcome
      /\ output \in Outputs
  BY DEF EInv, Fed, Merging
<1>7. /\ \A t \in ready : outcomes'[t] = returned[t]
      /\ \A t \in ToolNames \ ready : outcomes'[t] = outcomes[t]
  BY <1>1, <1>3, <1>4
<1>8. Waves'
  BY <1>1, <1>3, <1>4 DEF EInv, Waves, PlanTools, dependsOn
<1>9. Fed'
  <2>1. outcomes' \in [ToolNames -> Summaries \cup {NoOutcome}]
    BY <1>1, <1>5, <1>6
  <2>2. \A t \in merged : outcomes'[t] = outcomes[t]
    BY <1>3, <1>4, <1>7
  <2>3. \A t \in merged \cup ready : \A d \in dependsOn(t) :
          d \in merged /\ outcomes'[d] = outcomes[d]
    BY <2>2 DEF EInv, Waves
  <2>4. \A t \in merged \cup ready : GoodSummary(t, outcomes'[t])
    BY <1>5, <1>7, <2>2 DEF EInv, Fed
  <2>5. \A t \in merged' : GoodSummary(t, outcomes[t])'
    <3>. SUFFICES ASSUME NEW t \in merged' PROVE GoodSummary(t, outcomes[t])'
      OBVIOUS
    <3>1. dependsOn(t)' = dependsOn(t)
      BY <1>1 DEF dependsOn
    <3>2. t \in merged \cup ready
      BY <1>1
    <3>. QED BY <2>3, <2>4, <3>1, <3>2 DEF GoodSummary
  <2>6. InvokedOnRows'
    <3>. SUFFICES ASSUME NEW t \in invoked', NEW d \in dependsOn(t)'
                 PROVE  d \in merged' /\ outcomes'[d].result = "rows"
                        /\ ~outcomes'[d].failed
      BY DEF InvokedOnRows
    <3>1. dependsOn(t)' = dependsOn(t)
      BY <1>1 DEF dependsOn
    <3>2. t \in invoked /\ t \in merged \cup ready
      BY <1>1 DEF EInv, Fed
    <3>. QED BY <1>1, <2>3, <3>1, <3>2 DEF EInv, Fed, InvokedOnRows
  <2>7. \A t \in ToolNames \ merged' : outcomes'[t] = NoOutcome
    BY <1>1, <1>6, <1>7
  <2>. QED BY <1>1, <2>1, <2>5, <2>6, <2>7 DEF EInv, Fed
<1>10. Merging'
  <2>. DEFINE o1 == AfterFirst
              o2 == AfterSecond
  <2>0. /\ outcomes[a] \in Summaries \cup {NoOutcome}
        /\ outcomes[a].invariant_retries \in Nat
        /\ two => outcomes[b].invariant_retries \in Nat
    BY <1>3, <1>6, NoOutcomeFields DEF Summaries
  <2>1. ~two \/ b \notin merged =>
          /\ output.query_failure = outcomes[a].failure
          /\ output.resultInvariantRetryCount = outcomes[a].invariant_retries
    BY <1>3, <1>6, <2>0, NothingCombined, NoOutcomeFields DEF EInv, Merging
  <2>2. a \in ready =>
          /\ merged = {} /\ outcomes[a] = NoOutcome
          /\ output.query_failure = NoFailure
          /\ output.resultInvariantRetryCount = 0
    <3>. SUFFICES ASSUME a \in ready
                 PROVE  /\ merged = {} /\ outcomes[a] = NoOutcome
                        /\ output.query_failure = NoFailure
                        /\ output.resultInvariantRetryCount = 0
      OBVIOUS
    <3>1. merged = {}
      BY <1>4 DEF EInv, Merging
    <3>. QED BY <1>3, <1>6, <2>1, <3>1, NoOutcomeFields
  <2>3. /\ o1 \in Outputs
        /\ a \in ready =>
             /\ o1.query_failure = returned[a].failure
             /\ o1.results[a] = returned[a]
             /\ o1.queries = invoked \cap {a}
             /\ o1.resultInvariantRetryCount = returned[a].invariant_retries
        /\ a \notin ready => o1 = output
    <3>1. CASE a \in ready
      <4>1. o1 = merge_one(output, a)
        BY <3>1 DEF AfterFirst
      <4>2. returned[a] \in Summaries /\ returned[a].invariant_retries \in Nat
        BY <1>5, <3>1 DEF Summaries
      <4>3. output.queries = {}
        BY <2>2, <3>1 DEF EInv, Merging
      <4>. HIDE DEF o1, a
      <4>4. /\ o1 \in Outputs
            /\ o1.query_failure = Combined(output.query_failure, returned[a].failure)
            /\ o1.results[a] = returned[a]
            /\ o1.queries = IF a \in invoked THEN output.queries \cup {a}
                            ELSE output.queries
            /\ o1.resultInvariantRetryCount =
                 output.resultInvariantRetryCount + returned[a].invariant_retries
        BY <1>3, <1>6, <4>1, <4>2, MergeOne, ZenonT(30)
      <4>. QED BY <2>2, <3>1, <4>2, <4>3, <4>4, NothingCombined
    <3>2. CASE a \notin ready
      BY <1>6, <3>2 DEF AfterFirst
    <3>. QED BY <3>1, <3>2
  <2>. HIDE DEF o1
  <2>4. ~two \/ b \notin merged =>
          /\ o1.query_failure = outcomes'[a].failure
          /\ o1.resultInvariantRetryCount = outcomes'[a].invariant_retries
          /\ o1.results[a] = outcomes'[a]
          /\ o1.queries = invoked \cap {a}
    <3>1. CASE a \in ready
      BY <1>7, <2>3, <3>1
    <3>2. CASE a \notin ready
      <4>1. a \in merged /\ outcomes'[a] = outcomes[a] /\ o1 = output
        BY <1>3, <1>4, <1>7, <2>3, <3>2
      <4>2. ~two \/ b \notin merged => merged = {a}
        BY <1>3, <1>4, <4>1
      <4>. QED BY <2>1, <4>1, <4>2 DEF EInv, Merging
    <3>. QED BY <3>1, <3>2
  <2>5. output' = IF two THEN o2 ELSE o1
    BY <1>1, <1>2, <1>3, LoopUnrolled DEF o1
  <2>6. a \in merged'
    BY <1>1, <1>4
  <2>7. CASE ~two
    <3>1. merged' = {a} /\ output' = o1
      BY <1>1, <1>3, <1>4, <2>5, <2>6, <2>7
    <3>2. outcomes'[a].invariant_retries \in Nat
      BY <2>3, <2>4, <2>7 DEF Outputs
    <3>. QED
      BY <1>1, <2>3, <2>4, <2>7, <3>1, <3>2, NothingCombined DEF Merging
  <2>8. CASE two /\ b \in ready
    <3>1. o2 = merge_one(o1, b)
      BY <2>8 DEF AfterSecond, o1
    <3>2. returned[b] \in Summaries /\ outcomes'[b] = returned[b] /\ b \notin merged
      BY <1>4, <1>5, <1>7, <2>8
    <3>. HIDE DEF o2
    <3>3. /\ o2 \in Outputs
          /\ o2.query_failure = Combined(o1.query_failure, returned[b].failure)
          /\ o2.results[b] = returned[b] /\ o2.results[a] = o1.results[a]
          /\ o2.queries = IF b \in invoked THEN o1.queries \cup {b} ELSE o1.queries
          /\ o2.resultInvariantRetryCount =
               o1.resultInvariantRetryCount + returned[b].invariant_retries
      BY <1>3, <2>3, <2>8, <3>1, <3>2, MergeOne, SMTT(30)
    <3>4. merged' = {a, b} /\ output' = o2
      BY <1>1, <1>3, <1>4, <2>5, <2>6, <2>8
    <3>. QED
      BY <1>1, <2>4, <2>8, <3>2, <3>3, <3>4 DEF Merging
  <2>9. CASE two /\ b \notin ready /\ b \notin merged
    <3>1. merged' = {a} /\ output' = o1
      BY <1>1, <1>3, <1>4, <2>5, <2>6, <2>9 DEF AfterSecond, o1
    <3>2. outcomes'[b] = NoOutcome
      BY <1>3, <1>6, <1>7, <2>9
    <3>3. outcomes'[a].invariant_retries \in Nat
      BY <2>0, <2>3, <2>4, <2>9 DEF Outputs
    <3>. QED
      BY <1>1, <2>3, <2>4, <2>9, <3>1, <3>2, <3>3, NothingCombined, NoOutcomeFields
      DEF Merging
  <2>10. CASE two /\ b \in merged
    <3>1. a \in merged /\ ready = {}
      BY <1>3, <1>4, <2>10 DEF EInv, Merging
    <3>2. output' = output
      BY <2>3, <2>5, <2>10, <3>1 DEF AfterSecond, o1
    <3>3. outcomes' = outcomes /\ merged' = merged
      BY <1>1, <1>6, <3>1
    <3>. QED BY <1>1, <3>2, <3>3, MergingUnchanged DEF EInv
  <2>. QED BY <2>7, <2>8, <2>9, <2>10
<1>. QED BY <1>8, <1>9, <1>10 DEF EInv

LEMMA NextEInv == EInv /\ [Next]_vars => EInv'
<1>. SUFFICES ASSUME EInv, [Next]_vars PROVE EInv'
  OBVIOUS
<1>1. CASE UNCHANGED vars
  <2>1. Waves'
    BY <1>1 DEF vars, EInv, Waves, PlanTools, dependsOn, is_ready
  <2>2. Fed'
    BY <1>1 DEF vars, EInv, Fed, InvokedOnRows, GoodSummary, dependsOn
  <2>3. Merging'
    BY <1>1, MergingUnchanged DEF vars, EInv
  <2>. QED BY <2>1, <2>2, <2>3 DEF EInv
<1>2. ASSUME NEW t \in ToolNames, ExecuteSubquery(t)
      PROVE  EInv'
  BY <1>2, SkipFailedEInv, SkipEmptyEInv, BindingInvalidEInv, InvokeAgentEInv,
     AgentReturnsEInv, AgentRaisesEInv DEF ExecuteSubquery
<1>. QED
  BY <1>1, <1>2, StartWaveEInv, FinishEInv, MergeWaveEInv DEF Next

\* The invariant of the waves holds throughout every execution of every plan.
THEOREM ExecutePlanInvariant == Spec => []EInv
BY InitEInv, NextEInv, PTL DEF Spec

\* In whatever order the agents of a wave return or raise, no validated plan
\* gets stuck, an agent is invoked only on rows, empty and failed results are
\* handed on, and each subquery is merged exactly once.
THEOREM WavesCorrect == Spec => []WavesSound
<1>1. EInv => WavesSound
  <2>. SUFFICES ASSUME EInv PROVE WavesSound
    OBVIOUS
  <2>0. PlanShape
    BY PlansShaped DEF EInv, Waves
  <2>1. NeverStuck /\ InvokedOnRows
    BY DEF EInv, Waves, Fed, NeverStuck
  <2>2. EmptyHandedOn
    BY SkippedSummaries DEF EInv, Fed, GoodSummary, EmptyHandedOn
  <2>3. ASSUME pc = "done"
        PROVE  /\ merged = PlanTools
               /\ \A t \in PlanTools : output.results[t] = outcomes[t]
               /\ output.queries = invoked
    BY <2>3 DEF EInv, Waves, Fed, Merging
  <2>4. output.resultInvariantRetryCount =
          outcomes["sql"].invariant_retries + outcomes["graph"].invariant_retries
    <3>1. /\ \A t \in ToolNames : outcomes[t].invariant_retries \in Nat
          /\ \A t \in ToolNames \ merged : outcomes[t].invariant_retries = 0
      BY NoOutcomeFields DEF EInv, Fed, Summaries
    <3>2. CASE Len(plan) = 1
      <4>1. merged \subseteq {plan[1].tool} /\ plan[1].tool \in ToolNames
        BY <2>0, <3>2, Dependencies DEF EInv, Waves
      <4>2. output.resultInvariantRetryCount =
              outcomes[plan[1].tool].invariant_retries
        BY <3>1, <3>2, <4>1 DEF EInv, Merging
      <4>. QED BY <3>1, <4>1, <4>2, SMTT(30) DEF ToolNames
    <3>3. CASE Len(plan) = 2
      <4>1. /\ plan[1].tool \in ToolNames /\ plan[2].tool \in ToolNames
            /\ plan[1].tool # plan[2].tool
        BY <2>0, <3>3 DEF PlanShape
      <4>2. output.resultInvariantRetryCount =
              outcomes[plan[1].tool].invariant_retries +
              outcomes[plan[2].tool].invariant_retries
        BY <3>3 DEF EInv, Merging
      <4>. QED BY <3>1, <4>1, <4>2 DEF ToolNames
    <3>. QED BY <2>0, <3>2, <3>3 DEF PlanShape
  <2>. QED BY <2>1, <2>2, <2>3, <2>4 DEF WavesSound, MergedOnce
<1>. QED BY <1>1, ExecutePlanInvariant, PTL

-----------------------------------------------------------------------------
(***************************************************************************)
(* The failure that is reported.                                           *)
(***************************************************************************)

\* The place of a subquery in its plan.
LEMMA PlanOrder ==
  ASSUME PlanShape
  PROVE  /\ (CHOOSE i \in DOMAIN plan : plan[i].tool = plan[1].tool) = 1
         /\ Len(plan) = 2 =>
              (CHOOSE i \in DOMAIN plan : plan[i].tool = plan[2].tool) = 2
<1>1. CASE Len(plan) = 1
  <2>1. DOMAIN plan = {1}
    BY <1>1 DEF PlanShape
  <2>. QED BY <1>1, <2>1
<1>2. CASE Len(plan) = 2
  <2>1. DOMAIN plan = {1, 2} /\ plan[1].tool # plan[2].tool
    BY <1>2 DEF PlanShape
  <2>. QED BY <1>2, <2>1
<1>. QED BY <1>1, <1>2 DEF PlanShape

\* Severities of failures are numbers, and equal kinds are equally severe.
LEMMA Priorities ==
  \A f \in QueryFailure : f.kind \in FailureKinds /\ FAILURE_PRIORITY[f.kind] \in Nat
                          /\ FAILURE_PRIORITY[f.kind] >= FAILURE_PRIORITY["user_correctable"]
<1>1. \A k \in FailureKinds : FAILURE_PRIORITY[k] \in Nat
                              /\ FAILURE_PRIORITY[k] >= FAILURE_PRIORITY["user_correctable"]
  BY DEF FAILURE_PRIORITY, FailureKinds
<1>2. \A f \in QueryFailure : f.kind \in FailureKinds
  BY DEF QueryFailure
<1>. QED BY <1>1, <1>2

\* The failure that is reported is the most severe one, the first in plan order
\* among equals, and never the mere consequence of another, in whatever order
\* the agents returned (_prefer_failure).
THEOREM ReportedFailureCorrect == Spec => []ReportedFailure
<1>1. EInv => ReportedFailure
  <2>. SUFFICES ASSUME EInv, pc = "done"
               PROVE  LET Failed == {t \in merged : outcomes[t].failed}
                          Order(t) == CHOOSE i \in DOMAIN plan : plan[i].tool = t
                      IN  IF Failed = {}
                            THEN output.query_failure = NoFailure
                            ELSE \E t \in Failed :
                              /\ output.query_failure = outcomes[t].failure
                              /\ \A u \in Failed :
                                   /\ FAILURE_PRIORITY[outcomes[u].failure.kind]
                                        <= FAILURE_PRIORITY[outcomes[t].failure.kind]
                                   /\ outcomes[t].failure.dependent_failure =>
                                        outcomes[u].failure.dependent_failure
                                   /\ outcomes[u].failure.kind = outcomes[t].failure.kind
                                        /\ ~outcomes[u].failure.dependent_failure
                                        => Order(t) <= Order(u)
    BY DEF ReportedFailure
  <2>. DEFINE a == plan[1].tool
              b == plan[2].tool
              fa == outcomes[a].failure
              fb == outcomes[b].failure
              Failed == {t \in merged : outcomes[t].failed}
              Order(t) == CHOOSE i \in DOMAIN plan : plan[i].tool = t
              Beats(t, u) ==
                /\ FAILURE_PRIORITY[outcomes[u].failure.kind]
                     <= FAILURE_PRIORITY[outcomes[t].failure.kind]
                /\ outcomes[t].failure.dependent_failure =>
                     outcomes[u].failure.dependent_failure
                /\ outcomes[u].failure.kind = outcomes[t].failure.kind
                     /\ ~outcomes[u].failure.dependent_failure
                     => Order(t) <= Order(u)
  <2>. SUFFICES IF Failed = {}
                  THEN output.query_failure = NoFailure
                  ELSE \E t \in Failed : /\ output.query_failure = outcomes[t].failure
                                         /\ \A u \in Failed : Beats(t, u)
    OBVIOUS
  <2>1. PlanShape /\ merged = PlanTools
    BY PlansShaped DEF EInv, Waves
  <2>2. \A t \in merged : /\ GoodSummary(t, outcomes[t])
                          /\ outcomes[t].failed <=> outcomes[t].failure # NoFailure
                          /\ outcomes[t].failed => outcomes[t].failure \in QueryFailure
    <3>1. \A t \in merged : GoodSummary(t, outcomes[t])
      BY DEF EInv, Fed
    <3>2. \A s \in Summaries : /\ s.failed <=> s.failure # NoFailure
                               /\ s.failed => s.failure \in QueryFailure
      BY DEF Summaries, MaybeFailure
    <3>. QED BY <3>1, <3>2 DEF GoodSummary
  <2>3. a \in merged /\ dependsOn(a) = {} /\ Order(a) = 1
    BY <2>1, Dependencies, PlanOrder
  <2>4. ~fa.dependent_failure
    BY <2>2, <2>3 DEF GoodSummary
  <2>5. CASE Len(plan) = 1
    <3>1. merged = {a} /\ output.query_failure = fa
      BY <2>1, <2>5, Dependencies, NothingCombined DEF EInv, Merging
    <3>. HIDE DEF Order
    <3>2. a \in Failed => Beats(a, a)
      BY <2>2, <2>3, Priorities
    <3>3. Failed = IF fa = NoFailure THEN {} ELSE {a}
      BY <2>2, <3>1
    <3>. HIDE DEF Beats
    <3>. QED BY <3>1, <3>2, <3>3
  <2>6. CASE Len(plan) = 2
    <3>1. /\ merged = {a, b} /\ a # b /\ dependsOn(b) \subseteq {a} /\ Order(b) = 2
          /\ output.query_failure = Combined(fa, fb)
      BY <2>1, <2>6, Dependencies, PlanOrder DEF EInv, Merging, PlanShape
    <3>. HIDE DEF Order
    <3>2. (a \in Failed => Beats(a, a)) /\ (b \in Failed => Beats(b, b))
      BY <2>2, <2>3, <3>1, Priorities
    <3>3. CASE fa = NoFailure
      <4>1. output.query_failure = fb /\ Failed \subseteq {b}
        BY <2>2, <3>1, <3>3, NothingCombined
      <4>2. b \in Failed <=> fb # NoFailure
        BY <2>2, <3>1
      <4>. HIDE DEF Beats, Failed
      <4>. QED BY <3>2, <4>1, <4>2
    <3>4. CASE fa # NoFailure /\ fb = NoFailure
      <4>1. output.query_failure = fa /\ Failed = {a}
        BY <2>2, <3>1, <3>4, NothingCombined
      <4>. HIDE DEF Beats, Failed
      <4>. QED BY <3>2, <4>1
    <3>5. CASE fa # NoFailure /\ fb # NoFailure
      <4>1. /\ Failed = {a, b} /\ fa \in QueryFailure /\ fb \in QueryFailure
            /\ output.query_failure = IF Outranks(fb, fa) THEN fb ELSE fa
        BY <2>2, <3>1, <3>5 DEF Combined, prefer_failure
      <4>2. fb.dependent_failure \in BOOLEAN
        BY <4>1 DEF QueryFailure
      <4>3. /\ FAILURE_PRIORITY[fa.kind] \in Nat /\ FAILURE_PRIORITY[fb.kind] \in Nat
        BY <4>1, Priorities
      <4>4. CASE Outranks(fb, fa)
        <5>1. FAILURE_PRIORITY[fb.kind] > FAILURE_PRIORITY[fa.kind]
          BY <2>4, <4>4 DEF Outranks
        <5>2. ~fb.dependent_failure
          <6>1. dependsOn(b) = {} \/ dependsOn(b) = {a}
            BY <3>1
          <6>2. dependsOn(b) = {a} =>
                  FAILURE_PRIORITY[fb.kind] = FAILURE_PRIORITY["user_correctable"]
            BY <2>2, <2>3, <3>1, <3>5, SkippedSummaries DEF GoodSummary
          <6>3. FAILURE_PRIORITY[fa.kind] >= FAILURE_PRIORITY["user_correctable"]
            BY <4>1, Priorities
          <6>4. dependsOn(b) = {}
            BY <4>3, <5>1, <6>1, <6>2, <6>3
          <6>. QED BY <2>2, <3>1, <6>4 DEF GoodSummary
        <5>3. Beats(b, a)
          BY <4>3, <5>1, <5>2
        <5>4. b \in Failed /\ output.query_failure = fb
          BY <4>1, <4>4
        <5>. HIDE DEF Beats, Failed
        <5>. QED BY <3>2, <4>1, <5>3, <5>4
      <4>5. CASE ~Outranks(fb, fa)
        <5>1. FAILURE_PRIORITY[fb.kind] <= FAILURE_PRIORITY[fa.kind]
          BY <4>3, <4>5 DEF Outranks
        <5>2. Order(a) <= Order(b)
          BY <2>3, <3>1
        <5>3. Beats(a, b)
          BY <2>4, <5>1, <5>2
        <5>4. a \in Failed /\ output.query_failure = fa
          BY <4>1, <4>5
        <5>. HIDE DEF Beats, Failed
        <5>. QED BY <3>2, <4>1, <5>3, <5>4
      <4>. QED BY <4>4, <4>5
    <3>. QED BY <3>3, <3>4, <3>5
  <2>. QED BY <2>1, <2>5, <2>6 DEF PlanShape
<1>. QED BY <1>1, ExecutePlanInvariant, PTL
=============================================================================
