-------------------------------- MODULE Chat --------------------------------
(***************************************************************************)
(* POST /chat (api/chat.py): a request runs the pipeline, turns its result *)
(* into the response, stores the response as a conversation, opens a       *)
(* review if the query failed, and answers.  The awaits between these      *)
(* steps let other requests, the admins and deletions in (FailureReviews). *)
(* Each write may fail, before or after the database commits it, and the   *)
(* server may crash at any time; neither must change what is answered.     *)
(*                                                                         *)
(* The pipeline is used through its result: CONSTANT Results.  Of a tool's *)
(* result only what the handler shows or counts is kept: whether there is  *)
(* one, whether its query and its error text are shown, and the number of  *)
(* attempts listed (each holds a query and an error).                      *)
(***************************************************************************)
EXTENDS FailureReviews, QueryFailures

CONSTANTS
  Results,     \* what the pipeline can return
  MaxAttempts

ASSUME MaxAttemptsNat == MaxAttempts \in Nat

VARIABLES
  pc,          \* request |-> how far chat() has got
  username,    \* request |-> who asked
  result,      \* request |-> what the pipeline returned
  response     \* request |-> the ChatResponse

chatVars == <<pc, username, result, response>>

vars == <<reviewVars, chatVars>>

ToolView ==
  [ran : BOOLEAN, query : BOOLEAN, error : {"none", "safe", "dependency", "raw"},
   attempts : 0 .. MaxAttempts]

NotRun == [ran |-> FALSE, query |-> FALSE, error |-> "none", attempts |-> 0]

\* A tool that returned rows, or none, after n attempts.
Answered(n) == [ran |-> TRUE, query |-> TRUE, error |-> "none", attempts |-> n]

\* A tool whose n attempts failed.
Failed(n) == [ran |-> TRUE, query |-> TRUE, error |-> "raw", attempts |-> n]

\* A tool that was not invoked because what it depends on failed.
NotInvoked ==
  [ran |-> TRUE, query |-> FALSE, error |-> "dependency", attempts |-> 0]

Response == [ToolNames -> ToolView]

Result == [tools : Response, failure : MaybeFailure]

NoResponse == [t \in ToolNames |-> NotRun]

NoResult == [tools |-> NoResponse, failure |-> NoFailure]

\* What chat() makes of the exceptions it knows: no entity (or no such one), no
\* route, no outputs.
QuestionFailures ==
  {entity_not_found_failure} \cup
  {query_understanding_failure(s) : s \in {"entity_resolution", "routing", "planning"}}

Init ==
  /\ ReviewInit
  /\ pc = [r \in Requests |-> "idle"]
  /\ username = [r \in Requests |-> Nobody]
  /\ result = [r \in Requests |-> NoResult]
  /\ response = [r \in Requests |-> NoResponse]

-----------------------------------------------------------------------------
_tool_failed(failure, tool) ==
  failure # NoFailure /\ failure.failed_tool \in {NoTool, tool}

_safe_failed_result(view) ==
  [view EXCEPT !.error = IF @ = "none" THEN "none" ELSE "safe", !.attempts = 0]

ChatResponse(res) ==
  [t \in ToolNames |->
     IF _tool_failed(res.failure, t)
       THEN [_safe_failed_result(res.tools[t]) EXCEPT !.query = FALSE]
       ELSE res.tools[t]]

\* Records has room for every response there can be.
ASSUME ChatAssumption ==
  /\ Results \subseteq Result
  /\ \A res \in Results : ChatResponse(res) \in Records
  /\ \A f \in QuestionFailures : ChatResponse([NoResult EXCEPT !.failure = f]) \in Records

\* What execute_plan promises of a result (ReportedFailure of ExecutePlan): a
\* failure is reported exactly if some tool failed, or no tool ran at all; it is
\* that of a tool whose own query failed, if there is one; and a tool that was
\* not invoked has no queries to show.
ExecutionSound(res) ==
  /\ res.failure = NoFailure => \A t \in ToolNames : res.tools[t].error = "none"
  /\ res.failure # NoFailure /\ (\E t \in ToolNames : res.tools[t].ran) =>
       \E t \in ToolNames : res.tools[t].ran /\ res.tools[t].error # "none"
  /\ \A t \in ToolNames :
       /\ res.tools[t].error = "raw" =>
            \/ res.failure.failed_tool = NoTool
            \/ res.tools[res.failure.failed_tool].error = "raw"
       /\ res.tools[t].error = "dependency" =>
            ~res.tools[t].query /\ res.tools[t].attempts = 0
       /\ res.tools[t].error # "safe"

ASSUME PipelineAssumption == \A res \in Results : ExecutionSound(res)

executed(resp) == {t \in ToolNames : resp[t].ran}

failed(resp) == {t \in executed(resp) : resp[t].error # "none"}

final_status(resp, failure) ==
  CASE failure # NoFailure /\ executed(resp) = {} ->
         IF failure.kind = "infrastructure" THEN "infrastructure_failure"
         ELSE IF failure.code = "REQUEST_POLICY_BLOCKED" THEN "policy_blocked"
         ELSE "internal_failure"
    [] OTHER ->
         IF failed(resp) # {}
           THEN IF failed(resp) # executed(resp) THEN "partial_success"
                ELSE "repair_exhausted"
           ELSE IF \E t \in ToolNames : resp[t].attempts > 1 THEN "recovered"
                ELSE "first_attempt_success"

\* Mutant: only requests that got as far as a tool are reviewed.
needs_review_Executed(res) ==
  /\ res.failure # NoFailure
  /\ final_status(ChatResponse(res), res.failure) \in
       {"repair_exhausted", "partial_success"}

needs_review(res) ==
  /\ res.failure # NoFailure
  /\ final_status(ChatResponse(res), res.failure) \in
       {"repair_exhausted", "partial_success", "internal_failure",
        "infrastructure_failure", "policy_blocked"}

-----------------------------------------------------------------------------
(***************************************************************************)
(* The handler.                                                            *)
(***************************************************************************)
Start(r, u) ==
  /\ pc[r] = "idle"
  /\ pc' = [pc EXCEPT ![r] = "invoke"]
  /\ username' = [username EXCEPT ![r] = u]
  /\ UNCHANGED <<reviewVars, result, response>>

Respond(r, res) ==
  /\ pc[r] = "invoke"
  /\ result' = [result EXCEPT ![r] = res]
  /\ response' = [response EXCEPT ![r] = ChatResponse(res)]
  /\ pc' = [pc EXCEPT ![r] = "save"]
  /\ UNCHANGED <<reviewVars, username>>

PipelineReturns(r) == \E res \in Results : Respond(r, res)

QuestionNotUnderstood(r) ==
  \E f \in QuestionFailures : Respond(r, [NoResult EXCEPT !.failure = f])

\* Any other exception leaves the handler before anything is stored.
PipelineRaises(r) ==
  /\ pc[r] = "invoke"
  /\ pc' = [pc EXCEPT ![r] = "raised"]
  /\ UNCHANGED <<reviewVars, username, result, response>>

Save(r) ==
  /\ pc[r] = "save"
  /\ save_conversation(r, username[r], response[r])
  /\ pc' = [pc EXCEPT ![r] = IF needs_review(result[r]) THEN "review" ELSE "replied"]
  /\ UNCHANGED <<username, result, response>>

\* Mutant: the exception is not caught.
SaveFails_Raises(r) ==
  /\ pc[r] = "save"
  /\ \/ UNCHANGED reviewVars
     \/ save_conversation(r, username[r], response[r])
  /\ pc' = [pc EXCEPT ![r] = "raised"]
  /\ UNCHANGED <<username, result, response>>

\* The connection pool is exhausted, the statement fails, or the connection is
\* lost before or after the commit took effect.  The exception is caught and
\* the response returned all the same ("unsaved": without its writes done).
SaveFails(r) ==
  /\ pc[r] = "save"
  /\ \/ UNCHANGED reviewVars
     \/ save_conversation(r, username[r], response[r])
  /\ pc' = [pc EXCEPT ![r] = "unsaved"]
  /\ UNCHANGED <<username, result, response>>

CreateReview(r) ==
  /\ pc[r] = "review"
  /\ create_failure_review(r)
  /\ pc' = [pc EXCEPT ![r] = "replied"]
  /\ UNCHANGED <<username, result, response>>

\* As SaveFails; also the foreign key of a conversation deleted meanwhile.
CreateReviewFails(r) ==
  /\ pc[r] = "review"
  /\ \/ UNCHANGED reviewVars
     \/ create_failure_review(r)
  /\ pc' = [pc EXCEPT ![r] = "unsaved"]
  /\ UNCHANGED <<username, result, response>>

\* The server process dies: what it was doing is lost, the tables are not.
Crash ==
  /\ \/ \E r \in Requests : pc[r] \in {"invoke", "save", "review"}
     \/ \E a \in Admins : saving[a] # {}
  /\ pc' = [r \in Requests |->
              IF pc[r] \in {"invoke", "save", "review"} THEN "lost" ELSE pc[r]]
  /\ Restart
  /\ UNCHANGED <<username, result, response>>

Handler(r) ==
  \/ PipelineReturns(r)
  \/ QuestionNotUnderstood(r)
  \/ PipelineRaises(r)
  \/ Save(r)
  \/ SaveFails(r)
  \/ CreateReview(r)
  \/ CreateReviewFails(r)

Next ==
  \/ \E r \in Requests, u \in Users : Start(r, u)
  \/ \E r \in Requests : Handler(r)
  \/ Crash
  \/ /\ \/ AdminStep
        \/ \E r \in Requests, u \in Users : delete_conversation(u, r)
     /\ UNCHANGED chatVars

Spec == Init /\ [][Next]_vars

\* Every await of the handler ends: each model call, query and connection
\* request has a timeout, and the number of retries is bounded.
FairSpec == Spec /\ \A r \in Requests : WF_vars(Handler(r))

-----------------------------------------------------------------------------
(***************************************************************************)
(* Properties.                                                             *)
(***************************************************************************)
\* The responses of r that leave the server: the answer to its user and, while
\* it is stored, the conversation that GET /history returns.
Published(r) ==
  (IF pc[r] \in {"replied", "unsaved"} THEN {response[r]} ELSE {}) \cup
  (IF Stored(r) THEN {history[r].record} ELSE {})

\* A failed tool's query, its attempts or the error its agent ended with.
Exposed(view) ==
  \/ view.error = "raw"
  \/ view.error # "none" /\ (view.query \/ view.attempts > 0)

FailedTools(res) == {t \in ToolNames : res.tools[t].error = "raw"}

\* When one tool failed, nothing of its queries and errors leaves the server,
\* neither in the answer nor in the history, also when the write failed half
\* way (_tool_failed, _safe_failed_result).
FailedToolHidden ==
  \A r \in Requests : \A resp \in Published(r) : \A t \in ToolNames :
    FailedTools(result[r]) # ToolNames => ~Exposed(resp[t])

\* What the comment of _safe_failed_result says of every failed response and
\* record: the original error and the attempted queries are removed.
FailuresHidden ==
  \A r \in Requests : \A resp \in Published(r) : \A t \in ToolNames :
    ~Exposed(resp[t])

\* Exactly the failed queries are reviewed: a review is only ever opened for
\* one, and a failed query whose writes succeeded has one for as long as its
\* conversation is kept.  (final_status, computed from the cleaned response,
\* must agree with query_failure, which it does not read.)
FailuresReviewed ==
  \A r \in Requests :
    /\ review[r].version # 0 => result[r].failure # NoFailure
    /\ pc[r] = "replied" /\ result[r].failure # NoFailure /\ Stored(r)
         => review[r].version # 0

\* What becomes of a failed query: it is hidden where one tool failed, and it is
\* reviewed.
FailuresHandled == FailedToolHidden /\ FailuresReviewed

\* An answer, once there is one, reaches its user whatever the writes do; only
\* a crash of the server prevents it (the except around the writes).
AnswerDelivered ==
  \A r \in Requests :
    pc[r] = "save" ~> pc[r] \in {"replied", "unsaved", "lost"}
=============================================================================
