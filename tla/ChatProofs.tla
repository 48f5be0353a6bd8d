----------------------------- MODULE ChatProofs -----------------------------
(***************************************************************************)
(* Optimistic locking of reviews is sound, for every number of requests,   *)
(* admins and changes; POST /chat uses the two tables only as              *)
(* FailureReviews allows, for every number of users and every result of    *)
(* the pipeline, so that holds while requests are saved, writes fail half  *)
(* way and the server crashes; and the handler leaves no failure unseen.   *)
(***************************************************************************)
EXTENDS Chat, TLAPS

-----------------------------------------------------------------------------
(***************************************************************************)
(* The tables.  The inductive invariant adds to the properties that a      *)
(* review which disappeared after it was seen went with its conversation:  *)
(* a second review of the same conversation would start again at version 1 *)
(* and a stale version could match it.                                     *)
(***************************************************************************)

\* A review an admin has seen and that is gone went with its conversation, so
\* no second review of that conversation ever starts again at version 1.
SeenReviewGone ==
  \A a \in Admins, r \in Requests :
    seen[a][r].version # 0 /\ review[r].version = 0 => history[r].state = "deleted"

ReviewInv ==
  /\ ReviewTypeOK
  /\ ReviewHasConversation
  /\ ResolvedAtMatchesStatus
  /\ VersionIdentifiesContent
  /\ SeenReviewGone

\* A row as it is after UPDATE is a review with a greater version whose
\* resolved_at matches its status.
LEMMA ChangedIsReview ==
  ASSUME NEW row \in Review, NEW clean \in ReviewPatch, clean.status # "null",
         row.resolved_at = "time" <=> row.status \in RESOLVED
  PROVE  /\ Changed(row, clean) \in Review
         /\ Changed(row, clean).version = row.version + 1
         /\ Changed(row, clean).resolved_at = "time"
              <=> Changed(row, clean).status \in RESOLVED
BY DEF Changed, Review, ReviewPatch

\* The tables are empty and nothing was seen.
LEMMA InitReviewInv == ReviewInit => ReviewInv
BY ReviewAssumption
   DEF ReviewInit, ReviewInv, ReviewTypeOK, HistoryRow, Review, NoReview, NoRow,
       ReviewHasConversation, ResolvedAtMatchesStatus, VersionIdentifiesContent,
       SeenReviewGone

\* Storing a conversation leaves the reviews alone.
LEMMA SaveKeepsInv ==
  ASSUME ReviewInv, NEW r \in Requests, NEW u \in Users, NEW rec \in Records,
         save_conversation(r, u, rec)
  PROVE  ReviewInv'
BY DEF save_conversation, ReviewInv, ReviewTypeOK, HistoryRow, Row, Stored,
       ReviewHasConversation, ResolvedAtMatchesStatus, VersionIdentifiesContent,
       SeenReviewGone

\* Deleting one deletes its review.
LEMMA DeleteKeepsInv ==
  ASSUME ReviewInv, NEW r \in Requests, NEW u \in Users, delete_conversation(u, r)
  PROVE  ReviewInv'
BY ReviewAssumption
   DEF delete_conversation, ReviewInv, ReviewTypeOK, HistoryRow, Deleted, NoRow,
       Review, NoReview, Stored,
       ReviewHasConversation, ResolvedAtMatchesStatus, VersionIdentifiesContent,
       SeenReviewGone

\* A review is only created of a conversation that is there, which had none
\* that anyone saw.
LEMMA CreateKeepsInv ==
  ASSUME ReviewInv, NEW r \in Requests, create_failure_review(r)
  PROVE  ReviewInv'
<1>1. CASE review[r].version = 0
  BY <1>1, ReviewAssumption, ZenonT(30)
     DEF create_failure_review, ReviewInv, ReviewTypeOK, NewReview, NoReview, Review,
         Stored, ReviewHasConversation, ResolvedAtMatchesStatus,
         VersionIdentifiesContent, SeenReviewGone
<1>2. CASE review[r].version # 0
  BY <1>2
     DEF create_failure_review, ReviewInv, ReviewTypeOK, Stored,
         ReviewHasConversation, ResolvedAtMatchesStatus,
         VersionIdentifiesContent, SeenReviewGone
<1>. QED  BY <1>1, <1>2

\* Reading a review shows it as it is.
LEMMA ShowKeepsInv ==
  ASSUME ReviewInv, NEW a \in Admins, NEW r \in Requests, Show(a, r),
         UNCHANGED <<history, review>>, saving' \in [Admins -> SUBSET Requests]
  PROVE  ReviewInv'
<1>1. \A b \in Admins, q \in Requests :
        seen'[b][q] = IF b = a /\ q = r /\ review[r].version # 0
                        THEN review[r] ELSE seen[b][q]
  BY DEF Show, ReviewInv, ReviewTypeOK
<1>2. seen' \in [Admins -> [Requests -> Review]]
  BY DEF Show, ReviewInv, ReviewTypeOK
<1>3. ReviewTypeOK' /\ ReviewHasConversation' /\ ResolvedAtMatchesStatus'
  BY <1>2 DEF ReviewInv, ReviewTypeOK, ReviewHasConversation, Stored,
     ResolvedAtMatchesStatus
<1>4. VersionIdentifiesContent'
  BY <1>1 DEF ReviewInv, VersionIdentifiesContent
<1>5. SeenReviewGone'
  BY <1>1 DEF ReviewInv, SeenReviewGone
<1>. QED  BY <1>3, <1>4, <1>5 DEF ReviewInv

\* A change is made to the version that was seen and makes a greater one.
LEMMA UpdateKeepsInv ==
  ASSUME ReviewInv, NEW a \in Admins, NEW r \in Requests, NEW clean \in ReviewPatch,
         update_failure_review(a, r, clean)
  PROVE  ReviewInv'
<1>1. CASE clean.status = "unset" /\ clean.note = "unset"
  BY <1>1, ShowKeepsInv DEF update_failure_review, ReviewInv, ReviewTypeOK
<1>2. CASE ~(clean.status = "unset" /\ clean.note = "unset")
  <2>1. /\ clean.status # "null"
        /\ review[r].version = seen[a][r].version
        /\ review' = [review EXCEPT ![r] = Changed(review[r], clean)]
        /\ saving' = [saving EXCEPT ![a] = @ \cup {r}]
        /\ UNCHANGED <<history, seen>>
        /\ seen[a][r].version # 0
    BY <1>2 DEF update_failure_review
  <2>2. /\ Changed(review[r], clean) \in Review
        /\ Changed(review[r], clean).version = review[r].version + 1
        /\ Changed(review[r], clean).resolved_at = "time"
             <=> Changed(review[r], clean).status \in RESOLVED
        /\ review[r] \in Review
    BY <2>1, ChangedIsReview DEF ReviewInv, ReviewTypeOK, ResolvedAtMatchesStatus
  <2>3. ReviewTypeOK'
    BY <2>1, <2>2 DEF ReviewInv, ReviewTypeOK
  <2>4. ReviewHasConversation'
    BY <2>1, <2>2 DEF ReviewInv, ReviewTypeOK, ReviewHasConversation, Stored, Review
  <2>5. ResolvedAtMatchesStatus'
    BY <2>1, <2>2 DEF ReviewInv, ReviewTypeOK, ResolvedAtMatchesStatus
  <2>6. VersionIdentifiesContent'
    BY <2>1, <2>2 DEF ReviewInv, ReviewTypeOK, VersionIdentifiesContent, Review
  <2>7. SeenReviewGone'
    BY <2>1, <2>2 DEF ReviewInv, ReviewTypeOK, SeenReviewGone, Review
  <2>. QED  BY <2>3, <2>4, <2>5, <2>6, <2>7 DEF ReviewInv
<1>. QED  BY <1>1, <1>2

\* Every step keeps the invariant.
LEMMA StepKeepsReviewInv ==
  ASSUME ReviewInv, [ReviewNext]_reviewVars
  PROVE  ReviewInv'
<1>1. CASE \E r \in Requests, u \in Users, rec \in Records : save_conversation(r, u, rec)
  BY <1>1, SaveKeepsInv
<1>2. CASE \E r \in Requests, u \in Users : delete_conversation(u, r)
  BY <1>2, DeleteKeepsInv
<1>3. CASE \E r \in Requests : create_failure_review(r)
  BY <1>3, CreateKeepsInv
<1>4. CASE AdminStep
  <2>1. PICK a \in Admins, r \in Requests :
          \/ get_failure_review(a, r)
          \/ \E clean \in ReviewPatch : update_failure_review(a, r, clean)
          \/ reread_review(a, r)
          \/ reread_fails(a, r)
    BY <1>4 DEF AdminStep
  <2>2. CASE get_failure_review(a, r)
    BY <2>2, ShowKeepsInv DEF get_failure_review, ReviewInv, ReviewTypeOK
  <2>3. CASE \E clean \in ReviewPatch : update_failure_review(a, r, clean)
    BY <2>3, UpdateKeepsInv
  <2>4. CASE reread_review(a, r)
    BY <2>4, ShowKeepsInv DEF reread_review, ReviewInv, ReviewTypeOK
  <2>5. CASE reread_fails(a, r)
    BY <2>5 DEF reread_fails, ReviewInv, ReviewTypeOK, Stored,
       ReviewHasConversation, ResolvedAtMatchesStatus, VersionIdentifiesContent,
       SeenReviewGone
  <2>. QED  BY <2>1, <2>2, <2>3, <2>4, <2>5
<1>5. CASE Restart
  BY <1>5 DEF Restart, ReviewInv, ReviewTypeOK, Stored,
     ReviewHasConversation, ResolvedAtMatchesStatus, VersionIdentifiesContent,
     SeenReviewGone
<1>6. CASE UNCHANGED reviewVars
  BY <1>6 DEF reviewVars, ReviewInv, ReviewTypeOK, Stored,
     ReviewHasConversation, ResolvedAtMatchesStatus, VersionIdentifiesContent,
     SeenReviewGone
<1>. QED  BY <1>1, <1>2, <1>3, <1>4, <1>5, <1>6 DEF ReviewNext

\* The invariant holds throughout.
THEOREM ReviewInvariant == ReviewSpec => []ReviewInv
<1>1. ReviewInv /\ [ReviewNext]_reviewVars => ReviewInv'
  BY StepKeepsReviewInv
<1>. QED  BY InitReviewInv, <1>1, PTL DEF ReviewSpec

\* A review never outlives its conversation (delete_conversation, the cascade).
THEOREM ReviewsAttached == ReviewSpec => []ReviewHasConversation
<1>1. ReviewInv => ReviewHasConversation
  BY DEF ReviewInv
<1>. QED  BY ReviewInvariant, <1>1, PTL

\* resolved_at is set exactly in the final statuses (update_failure_review).
THEOREM ResolvedAt == ReviewSpec => []ResolvedAtMatchesStatus
<1>1. ReviewInv => ResolvedAtMatchesStatus
  BY DEF ReviewInv
<1>. QED  BY ReviewInvariant, <1>1, PTL

\* Reviews stay sound: all three parts at once (update_failure_review,
\* delete_conversation).
THEOREM ReviewsCorrect == ReviewSpec => []ReviewsSound
<1>1. ReviewInv => ReviewsSound
  BY DEF ReviewInv, ReviewsSound
<1>. QED  BY ReviewInvariant, <1>1, PTL

\* An accepted change is made to what its admin saw (update_failure_review's
\* WHERE clause on the version).
THEOREM LostUpdateFree == ReviewSpec => NoLostUpdate
<1>1. ASSUME ReviewInv, [ReviewNext]_reviewVars
      PROVE  [\A a \in Admins, r \in Requests :
                r \notin saving[a] /\ r \in saving'[a] => review[r] = seen[a][r]]_reviewVars
  <2>1. SUFFICES ASSUME NEW a \in Admins, NEW r \in Requests,
                        r \notin saving[a], r \in saving'[a], ReviewNext
                 PROVE  review[r] = seen[a][r]
    BY <1>1
  <2>2. CASE \E b \in Admins, q \in Requests, clean \in ReviewPatch :
               update_failure_review(b, q, clean)
    <3>1. PICK b \in Admins, q \in Requests, clean \in ReviewPatch :
            update_failure_review(b, q, clean)
      BY <2>2
    <3>2. ~(clean.status = "unset" /\ clean.note = "unset")
      BY <2>1, <3>1 DEF update_failure_review
    <3>3. /\ saving' = [saving EXCEPT ![b] = @ \cup {q}]
          /\ review[q].version = seen[b][q].version
          /\ seen[b][q].version # 0
      BY <3>1, <3>2 DEF update_failure_review
    <3>4. a = b /\ r = q
      BY <1>1, <2>1, <3>3 DEF ReviewInv, ReviewTypeOK
    <3>. QED
      BY <1>1, <3>3, <3>4
         DEF ReviewInv, ReviewTypeOK, VersionIdentifiesContent, Review
  <2>3. CASE ~ \E b \in Admins, q \in Requests, clean \in ReviewPatch :
                 update_failure_review(b, q, clean)
    <3>1. saving' = saving \/ Restart \/ \E b \in Admins, q \in Requests :
            saving' = [saving EXCEPT ![b] = @ \ {q}]
      BY <2>1, <2>3 DEF ReviewNext, AdminStep, save_conversation,
         delete_conversation, create_failure_review, get_failure_review,
         reread_review, reread_fails
    <3>. QED  BY <1>1, <2>1, <3>1 DEF Restart, ReviewInv, ReviewTypeOK
  <2>. QED  BY <2>2, <2>3
<1>. QED  BY ReviewInvariant, <1>1, PTL DEF ReviewSpec, NoLostUpdate

-----------------------------------------------------------------------------
(***************************************************************************)
(* The handler.                                                            *)
(***************************************************************************)

\* What a handler is about to write: its user's name and a response the table
\* has room for.
Writes(r) ==
  /\ pc[r] # "idle" => username[r] \in Users
  /\ pc[r] = "save" => response[r] \in Records

HandlerInv ==
  /\ pc = [r \in Requests |-> pc[r]]
  /\ username = [r \in Requests |-> username[r]]
  /\ response = [r \in Requests |-> response[r]]
  /\ \A r \in Requests : Writes(r)

LEMMA InitHandlerInv == Init => HandlerInv
BY DEF Init, HandlerInv, Writes

\* A handler that only moves on, to a step that writes no conversation.
LEMMA MoveKeepsHandlerInv ==
  ASSUME HandlerInv, NEW r \in Requests, NEW step, step # "save", pc[r] # "idle",
         pc' = [pc EXCEPT ![r] = step], UNCHANGED <<username, response>>
  PROVE  HandlerInv'
BY DEF HandlerInv, Writes

LEMMA StartKeepsHandlerInv ==
  ASSUME HandlerInv, NEW r \in Requests, NEW u \in Users, Start(r, u)
  PROVE  HandlerInv'
BY DEF Start, HandlerInv, Writes

LEMMA RespondKeepsHandlerInv ==
  ASSUME HandlerInv, NEW r \in Requests, NEW res, ChatResponse(res) \in Records,
         Respond(r, res)
  PROVE  HandlerInv'
<1>. DEFINE resp == ChatResponse(res)
<1>1. /\ pc[r] = "invoke" /\ resp \in Records
      /\ response' = [response EXCEPT ![r] = resp]
      /\ pc' = [pc EXCEPT ![r] = "save"] /\ username' = username
  BY DEF Respond
<1>. HIDE DEF resp
<1>. QED  BY <1>1 DEF HandlerInv, Writes

LEMMA CrashKeepsHandlerInv ==
  ASSUME HandlerInv, Crash
  PROVE  HandlerInv'
BY DEF Crash, HandlerInv, Writes

LEMMA HandlerKeepsHandlerInv ==
  ASSUME HandlerInv, NEW r \in Requests, Handler(r)
  PROVE  HandlerInv'
<1>1. CASE PipelineReturns(r)
  BY <1>1, ChatAssumption, RespondKeepsHandlerInv DEF PipelineReturns
<1>2. CASE QuestionNotUnderstood(r)
  <2>1. PICK f \in QuestionFailures : Respond(r, [NoResult EXCEPT !.failure = f])
    BY <1>2 DEF QuestionNotUnderstood
  <2>2. ChatResponse([NoResult EXCEPT !.failure = f]) \in Records
    BY ChatAssumption
  <2>. QED  BY <2>1, <2>2, RespondKeepsHandlerInv
<1>3. CASE PipelineRaises(r)
  BY <1>3, MoveKeepsHandlerInv DEF PipelineRaises
<1>4. CASE Save(r)
  <2>1. PICK step \in {"review", "replied"} : pc' = [pc EXCEPT ![r] = step]
    BY <1>4 DEF Save
  <2>2. step # "save" /\ pc[r] # "idle" /\ UNCHANGED <<username, response>>
    BY <1>4, <2>1 DEF Save
  <2>. QED  BY <2>1, <2>2, MoveKeepsHandlerInv
<1>5. CASE SaveFails(r)
  BY <1>5, MoveKeepsHandlerInv DEF SaveFails
<1>6. CASE CreateReview(r)
  BY <1>6, MoveKeepsHandlerInv DEF CreateReview
<1>7. CASE CreateReviewFails(r)
  BY <1>7, MoveKeepsHandlerInv DEF CreateReviewFails
<1>. QED  BY <1>1, <1>2, <1>3, <1>4, <1>5, <1>6, <1>7 DEF Handler

LEMMA NextKeepsHandlerInv ==
  ASSUME HandlerInv, [Next]_vars
  PROVE  HandlerInv'
<1>1. CASE \E r \in Requests, u \in Users : Start(r, u)
  BY <1>1, StartKeepsHandlerInv
<1>2. CASE \E r \in Requests : Handler(r)
  BY <1>2, HandlerKeepsHandlerInv
<1>3. CASE Crash
  BY <1>3, CrashKeepsHandlerInv
<1>4. CASE UNCHANGED chatVars
  BY <1>4 DEF chatVars, HandlerInv, Writes
<1>. QED  BY <1>1, <1>2, <1>3, <1>4 DEF Next, vars

-----------------------------------------------------------------------------
\* Every step of the application is a step of the tables or leaves them alone.
LEMMA StepIsStoreStep ==
  ASSUME HandlerInv, [Next]_vars
  PROVE  [ReviewNext]_reviewVars
<1>1. CASE \E r \in Requests, u \in Users : Start(r, u)
  BY <1>1 DEF Start
<1>2. CASE \E r \in Requests : Handler(r)
  <2>1. PICK r \in Requests : Handler(r)
    BY <1>2
  <2>2. CASE PipelineReturns(r) \/ QuestionNotUnderstood(r) \/ PipelineRaises(r)
    BY <2>2 DEF PipelineReturns, QuestionNotUnderstood, PipelineRaises, Respond
  <2>3. CASE Save(r) \/ SaveFails(r)
    <3>1. username[r] \in Users /\ response[r] \in Records
      BY <2>3 DEF Save, SaveFails, HandlerInv, Writes
    <3>2. save_conversation(r, username[r], response[r]) \/ UNCHANGED reviewVars
      BY <2>3 DEF Save, SaveFails
    <3>. QED  BY <3>1, <3>2 DEF ReviewNext
  <2>4. CASE CreateReview(r) \/ CreateReviewFails(r)
    BY <2>4 DEF CreateReview, CreateReviewFails, ReviewNext
  <2>. QED  BY <2>1, <2>2, <2>3, <2>4 DEF Handler
<1>3. CASE Crash
  BY <1>3 DEF Crash, ReviewNext
<1>4. CASE AdminStep \/ \E r \in Requests, u \in Users : delete_conversation(u, r)
  BY <1>4 DEF ReviewNext
<1>5. CASE UNCHANGED vars
  BY <1>5 DEF vars
<1>. QED  BY <1>1, <1>2, <1>3, <1>4, <1>5 DEF Next

\* The handler implements the specification of the tables (api/chat.py, the
\* writes of chat; core/history.py, core/query_failure_reviews.py).
LEMMA ChatUsesStore == Spec => ReviewSpec
<1>1. Init => ReviewInit
  BY DEF Init
<1>2. HandlerInv /\ [Next]_vars => HandlerInv'
  BY NextKeepsHandlerInv
<1>3. HandlerInv /\ [Next]_vars => [ReviewNext]_reviewVars
  BY StepIsStoreStep
<1>. QED  BY InitHandlerInv, <1>1, <1>2, <1>3, PTL DEF Spec, ReviewSpec

\* Reviews stay sound while requests are served, writes fail and the server
\* crashes (api/chat.py).
THEOREM ChatKeepsReviewsSound == Spec => []ReviewsSound
BY ChatUsesStore, ReviewsCorrect, PTL

\* And no admin's change is lost meanwhile (api/query_failures.py).
THEOREM ChatLosesNoUpdate == Spec => NoLostUpdate
BY ChatUsesStore, LostUpdateFree, PTL

-----------------------------------------------------------------------------
(***************************************************************************)
(* What becomes of a failed query.                                         *)
(***************************************************************************)

\* The results a handler goes on with: the pipeline's, or the failure it makes
\* of an exception it knows.
Outcomes ==
  Results \cup {[NoResult EXCEPT !.failure = f] : f \in QuestionFailures}

LEMMA OutcomesSound ==
  ASSUME NEW res \in Outcomes
  PROVE  res \in Result /\ ExecutionSound(res)
<1>1. CASE res \in Results
  BY <1>1, ChatAssumption, PipelineAssumption
<1>2. CASE res \notin Results
  <2>1. PICK f \in QuestionFailures : res = [NoResult EXCEPT !.failure = f]
    BY <1>2 DEF Outcomes
  <2>2. f \in QueryFailure
    <3>. USE DEF make_query_failure, QueryFailure, FailureCodes, FailureStages,
                 FailureKinds
    <3>1. entity_not_found_failure \in QueryFailure
      BY DEF entity_not_found_failure
    <3>2. \A stage \in {"entity_resolution", "routing", "planning"} :
            query_understanding_failure(stage) \in QueryFailure
      BY DEF query_understanding_failure
    <3>. HIDE DEF make_query_failure, QueryFailure, FailureCodes, FailureStages,
                  FailureKinds
    <3>. QED  BY <3>1, <3>2 DEF QuestionFailures
  <2>3. f # NoFailure
    BY <2>2 DEF QueryFailure, NoFailure, FailureCodes
  <2>4. res = [tools |-> NoResponse, failure |-> f]
    BY <2>1 DEF NoResult
  <2>5. /\ NoResponse \in Response
        /\ \A t \in ToolNames : NoResponse[t].error = "none" /\ ~NoResponse[t].ran
    <3>1. NotRun \in ToolView /\ NotRun.error = "none" /\ ~NotRun.ran
      BY ChatAssumption, MaxAttemptsNat DEF NotRun, ToolView
    <3>. QED  BY <3>1 DEF NoResponse, Response
  <2>6. res \in Result
    BY <2>2, <2>4, <2>5 DEF Result, MaybeFailure
  <2>7. ExecutionSound(res)
    BY <2>3, <2>4, <2>5 DEF ExecutionSound
  <2>. QED  BY <2>6, <2>7
<1>. QED  BY <1>1, <1>2

\* What the response shows of a tool: everything, or, where the reported failure
\* is this tool's or nobody's in particular, only that it ran and failed
\* (_safe_failed_result).
LEMMA ResponseView ==
  ASSUME NEW res \in Result, NEW t \in ToolNames
  PROVE  LET view == ChatResponse(res)[t] IN
         /\ view.ran = res.tools[t].ran
         /\ view.error = "none" <=> res.tools[t].error = "none"
         /\ IF _tool_failed(res.failure, t)
              THEN view.error # "raw" /\ ~view.query /\ ~(view.attempts > 0)
              ELSE view = res.tools[t]
<1>. DEFINE old == res.tools[t]
            view == ChatResponse(res)[t]
<1>1. old \in ToolView
  BY DEF Result, Response
<1>2. view = IF _tool_failed(res.failure, t)
               THEN [_safe_failed_result(old) EXCEPT !.query = FALSE]
               ELSE old
  BY DEF ChatResponse
<1>3. CASE _tool_failed(res.failure, t)
  <2>. DEFINE e == IF old.error = "none" THEN "none" ELSE "safe"
              safe == [old EXCEPT !.error = e, !.attempts = 0]
  <2>1. view = [safe EXCEPT !.query = FALSE]
    BY <1>2, <1>3 DEF _safe_failed_result
  <2>2. e \in {"none", "safe"} /\ (e = "none" <=> old.error = "none")
    OBVIOUS
  <2>3. 0 \in 0 .. MaxAttempts
    BY MaxAttemptsNat
  <2>. HIDE DEF e, old, view
  <2>4. safe \in ToolView /\ safe.ran = old.ran /\ safe.error = e /\ safe.attempts = 0
    BY <1>1, <2>2, <2>3 DEF ToolView
  <2>. HIDE DEF safe
  <2>5. view.ran = safe.ran /\ ~view.query /\ view.error = safe.error
        /\ view.attempts = safe.attempts
    BY <2>1, <2>4 DEF ToolView
  <2>. QED  BY <1>3, <2>2, <2>4, <2>5 DEF view, old
<1>4. CASE ~_tool_failed(res.failure, t)
  BY <1>2, <1>4
<1>. QED  BY <1>3, <1>4

\* Where one tool's query did not fail, the response shows nothing of the one
\* that did.
LEMMA ResponseHides ==
  ASSUME NEW res \in Outcomes, FailedTools(res) # ToolNames, NEW t \in ToolNames
  PROVE  ~Exposed(ChatResponse(res)[t])
<1>1. res \in Result /\ ExecutionSound(res)
  BY OutcomesSound
<1>2. CASE _tool_failed(res.failure, t)
  BY <1>1, <1>2, ResponseView DEF Exposed
<1>3. CASE ~_tool_failed(res.failure, t)
  <2>1. ChatResponse(res)[t] = res.tools[t]
    BY <1>1, <1>3, ResponseView
  <2>2. CASE res.failure = NoFailure
    BY <1>1, <2>1, <2>2 DEF Exposed, ExecutionSound
  <2>3. CASE res.failure # NoFailure
    <3>1. res.failure.failed_tool \in ToolNames \ {t}
      BY <1>1, <1>3, <2>3 DEF _tool_failed, Result, MaybeFailure, QueryFailure
    <3>2. res.failure.failed_tool # NoTool
      BY <3>1 DEF ToolNames, NoTool
    <3>3. res.tools[t].error # "raw"
      <4>. SUFFICES ASSUME res.tools[t].error = "raw" PROVE FALSE
        OBVIOUS
      <4>1. res.tools[res.failure.failed_tool].error = "raw"
        BY <1>1, <3>2 DEF ExecutionSound
      <4>2. ToolNames = {t, res.failure.failed_tool}
        BY <3>1 DEF ToolNames
      <4>. QED  BY <4>1, <4>2 DEF FailedTools
    <3>4. res.tools[t].error \in {"none", "dependency"}
      BY <1>1, <3>3 DEF ExecutionSound, Result, Response, ToolView
    <3>. QED  BY <1>1, <2>1, <3>4 DEF Exposed, ExecutionSound
  <2>. QED  BY <2>2, <2>3
<1>. QED  BY <1>2, <1>3

\* A failed query is reviewed: final_status, computed from the cleaned response
\* alone, does not take it for a success.
LEMMA FailureNeedsReview ==
  ASSUME NEW res \in Outcomes
  PROVE  needs_review(res) <=> res.failure # NoFailure
<1>. SUFFICES ASSUME res.failure # NoFailure
             PROVE  final_status(ChatResponse(res), res.failure) \in
                      {"repair_exhausted", "partial_success", "internal_failure",
                       "infrastructure_failure", "policy_blocked"}
  BY DEF needs_review
<1>1. res \in Result /\ ExecutionSound(res)
  BY OutcomesSound
<1>2. CASE executed(ChatResponse(res)) = {}
  BY <1>2 DEF final_status
<1>3. CASE executed(ChatResponse(res)) # {}
  <2>1. PICK u \in ToolNames : ChatResponse(res)[u].ran
    BY <1>3 DEF executed
  <2>2. res.tools[u].ran
    BY <1>1, <2>1, ResponseView
  <2>3. PICK t \in ToolNames : res.tools[t].ran /\ res.tools[t].error # "none"
    BY <1>1, <2>2 DEF ExecutionSound
  <2>4. ChatResponse(res)[t].ran /\ ChatResponse(res)[t].error # "none"
    BY <1>1, <2>3, ResponseView
  <2>5. failed(ChatResponse(res)) # {}
    BY <2>4 DEF failed, executed
  <2>. QED  BY <1>3, <2>5 DEF final_status
<1>. QED  BY <1>2, <1>3

\* How far a request has got, and what is stored of it: nothing is stored before
\* the response is made, what is stored is that response, and a review is opened
\* for failed queries only and kept while the conversation is.
HandledAt(step, res, resp, row, version) ==
  /\ step \in {"idle", "invoke", "save"} => row.state = "never"
  /\ step \in {"save", "review", "replied", "unsaved"} \/ row.state = "stored" =>
       res \in Outcomes /\ resp = ChatResponse(res)
  /\ row.state = "stored" => row.record = resp
  /\ step = "review" => res.failure # NoFailure
  /\ version # 0 => row.state = "stored" /\ res.failure # NoFailure
  /\ step = "replied" /\ row.state = "stored" /\ res.failure # NoFailure => version # 0

Shaped ==
  /\ pc = [r \in Requests |-> pc[r]]
  /\ result = [r \in Requests |-> result[r]]
  /\ response = [r \in Requests |-> response[r]]

FailureInv ==
  /\ Shaped
  /\ \A r \in Requests :
       HandledAt(pc[r], result[r], response[r], history[r], review[r].version)

LEMMA InitFailureInv == Init => FailureInv
BY DEF Init, ReviewInit, FailureInv, Shaped, HandledAt, NoRow, NoReview

\* A step of one request.
RequestMoves(r, step, res, resp, row, rev) ==
  /\ pc' = [pc EXCEPT ![r] = step]
  /\ result' = [result EXCEPT ![r] = res]
  /\ response' = [response EXCEPT ![r] = resp]
  /\ history' = [history EXCEPT ![r] = row]
  /\ review' = [review EXCEPT ![r] = rev]

LEMMA OneRequest ==
  ASSUME FailureInv, ReviewInv, NEW r \in Requests,
         NEW step, NEW res, NEW resp, NEW row, NEW rev,
         RequestMoves(r, step, res, resp, row, rev),
         HandledAt(step, res, resp, row, rev.version)
  PROVE  FailureInv'
<1>1. /\ history \in [Requests -> HistoryRow] /\ review \in [Requests -> Review]
      /\ Shaped
  BY DEF ReviewInv, ReviewTypeOK, FailureInv
<1>2. Shaped'
  BY <1>1 DEF Shaped, RequestMoves
<1>3. ASSUME NEW q \in Requests
      PROVE  HandledAt(pc'[q], result'[q], response'[q], history'[q], review'[q].version)
  <2>1. CASE q = r
    <3>1. /\ pc'[q] = step /\ result'[q] = res /\ response'[q] = resp
          /\ history'[q] = row /\ review'[q] = rev
      BY <1>1, <2>1 DEF Shaped, RequestMoves
    <3>. QED  BY <3>1
  <2>2. CASE q # r
    <3>1. /\ pc'[q] = pc[q] /\ result'[q] = result[q] /\ response'[q] = response[q]
          /\ history'[q] = history[q] /\ review'[q] = review[q]
      BY <1>1, <2>2 DEF Shaped, RequestMoves
    <3>. QED  BY <3>1 DEF FailureInv
  <2>. QED  BY <2>1, <2>2
<1>. QED  BY <1>2, <1>3 DEF FailureInv

\* What a request's step leaves alone.
LEMMA LeftAlone ==
  ASSUME FailureInv, ReviewInv, NEW r \in Requests
  PROVE  /\ result = [result EXCEPT ![r] = result[r]]
         /\ response = [response EXCEPT ![r] = response[r]]
         /\ history = [history EXCEPT ![r] = history[r]]
         /\ review = [review EXCEPT ![r] = review[r]]
BY DEF FailureInv, Shaped, ReviewInv, ReviewTypeOK

LEMMA RespondKeepsFailureInv ==
  ASSUME FailureInv, ReviewInv, NEW r \in Requests, NEW res \in Outcomes, Respond(r, res)
  PROVE  FailureInv'
<1>. DEFINE resp == ChatResponse(res)
<1>1. /\ pc[r] = "invoke" /\ pc' = [pc EXCEPT ![r] = "save"]
      /\ result' = [result EXCEPT ![r] = res] /\ response' = [response EXCEPT ![r] = resp]
      /\ history' = history /\ review' = review
  BY DEF Respond, reviewVars
<1>2. HandledAt(pc[r], result[r], response[r], history[r], review[r].version)
  BY DEF FailureInv
<1>3. HandledAt("save", res, resp, history[r], review[r].version)
  BY <1>1, <1>2 DEF HandledAt
<1>4. RequestMoves(r, "save", res, resp, history[r], review[r])
  BY <1>1, LeftAlone DEF RequestMoves
<1>. HIDE DEF resp
<1>. QED  BY <1>3, <1>4, OneRequest

\* The writes of a handler, and what becomes of it when they fail.
LEMMA WriteKeepsFailureInv ==
  ASSUME FailureInv, ReviewInv, NEW r \in Requests,
         Save(r) \/ SaveFails(r) \/ CreateReview(r) \/ CreateReviewFails(r)
  PROVE  FailureInv'
<1>0. /\ HandledAt(pc[r], result[r], response[r], history[r], review[r].version)
      /\ review[r] \in Review
  BY DEF FailureInv, ReviewInv, ReviewTypeOK
<1>. DEFINE row == Row(username[r], response[r])
            rev == IF review[r].version = 0 THEN NewReview ELSE review[r]
<1>1. row.state = "stored" /\ row.record = response[r]
  BY DEF Row
<1>2. rev.version # 0
  BY DEF NewReview, NoReview
<1>3. /\ save_conversation(r, username[r], response[r]) =>
           /\ history' = [history EXCEPT ![r] = row] /\ review' = review
           /\ history[r].state = "never"
      /\ create_failure_review(r) =>
           /\ history' = history /\ review' = [review EXCEPT ![r] = rev]
           /\ history[r].state = "stored"
  BY DEF save_conversation, create_failure_review, Stored
<1>. HIDE DEF row, rev
<1>4. CASE Save(r)
  <2>1. /\ pc[r] = "save" /\ save_conversation(r, username[r], response[r])
        /\ result' = result /\ response' = response
        /\ pc' = [pc EXCEPT ![r] = IF needs_review(result[r]) THEN "review" ELSE "replied"]
    BY <1>4 DEF Save
  <2>. DEFINE step == IF needs_review(result[r]) THEN "review" ELSE "replied"
  <2>2. result[r] \in Outcomes
    BY <1>0, <2>1 DEF HandledAt
  <2>3. step = IF result[r].failure # NoFailure THEN "review" ELSE "replied"
    BY <2>2, FailureNeedsReview
  <2>. HIDE DEF step
  <2>4. HandledAt(step, result[r], response[r], row, review[r].version)
    BY <1>0, <1>1, <2>1, <2>3 DEF HandledAt
  <2>5. pc' = [pc EXCEPT ![r] = step]
    BY <2>1 DEF step
  <2>6. RequestMoves(r, step, result[r], response[r], row, review[r])
    BY <1>3, <2>1, <2>5, LeftAlone DEF RequestMoves
  <2>. QED  BY <2>4, <2>6, OneRequest
<1>5. CASE SaveFails(r)
  <2>1. /\ pc[r] = "save" /\ pc' = [pc EXCEPT ![r] = "unsaved"]
        /\ UNCHANGED <<history, review>> \/ save_conversation(r, username[r], response[r])
        /\ result' = result /\ response' = response
    BY <1>5 DEF SaveFails, reviewVars
  <2>2. /\ HandledAt("unsaved", result[r], response[r], history[r], review[r].version)
        /\ HandledAt("unsaved", result[r], response[r], row, review[r].version)
    BY <1>0, <1>1, <2>1 DEF HandledAt
  <2>3. CASE UNCHANGED <<history, review>>
    <3>1. RequestMoves(r, "unsaved", result[r], response[r], history[r], review[r])
      BY <2>1, <2>3, LeftAlone DEF RequestMoves
    <3>. QED  BY <2>2, <3>1, OneRequest
  <2>4. CASE save_conversation(r, username[r], response[r])
    <3>1. RequestMoves(r, "unsaved", result[r], response[r], row, review[r])
      BY <1>3, <2>1, <2>4, LeftAlone DEF RequestMoves
    <3>. QED  BY <2>2, <3>1, OneRequest
  <2>. QED  BY <2>1, <2>3, <2>4
<1>6. CASE CreateReview(r)
  <2>1. /\ pc[r] = "review" /\ pc' = [pc EXCEPT ![r] = "replied"]
        /\ create_failure_review(r) /\ result' = result /\ response' = response
    BY <1>6 DEF CreateReview
  <2>2. HandledAt("replied", result[r], response[r], history[r], rev.version)
    BY <1>0, <1>2, <1>3, <2>1 DEF HandledAt
  <2>3. RequestMoves(r, "replied", result[r], response[r], history[r], rev)
    BY <1>3, <2>1, LeftAlone DEF RequestMoves
  <2>. QED  BY <2>2, <2>3, OneRequest
<1>7. CASE CreateReviewFails(r)
  <2>1. /\ pc[r] = "review" /\ pc' = [pc EXCEPT ![r] = "unsaved"]
        /\ UNCHANGED <<history, review>> \/ create_failure_review(r)
        /\ result' = result /\ response' = response
    BY <1>7 DEF CreateReviewFails, reviewVars
  <2>2. HandledAt("unsaved", result[r], response[r], history[r], review[r].version)
    BY <1>0, <2>1 DEF HandledAt
  <2>3. CASE UNCHANGED <<history, review>>
    <3>1. RequestMoves(r, "unsaved", result[r], response[r], history[r], review[r])
      BY <2>1, <2>3, LeftAlone DEF RequestMoves
    <3>. QED  BY <2>2, <3>1, OneRequest
  <2>4. CASE create_failure_review(r)
    <3>1. HandledAt("unsaved", result[r], response[r], history[r], rev.version)
      BY <1>0, <1>2, <1>3, <2>1, <2>4 DEF HandledAt
    <3>2. RequestMoves(r, "unsaved", result[r], response[r], history[r], rev)
      BY <1>3, <2>1, <2>4, LeftAlone DEF RequestMoves
    <3>. QED  BY <3>1, <3>2, OneRequest
  <2>. QED  BY <2>1, <2>3, <2>4
<1>. QED  BY <1>4, <1>5, <1>6, <1>7

LEMMA HandlerKeepsFailureInv ==
  ASSUME FailureInv, ReviewInv, NEW r \in Requests, Handler(r)
  PROVE  FailureInv'
<1>1. CASE PipelineReturns(r)
  <2>1. PICK res \in Results : Respond(r, res)
    BY <1>1 DEF PipelineReturns
  <2>. QED  BY <2>1, RespondKeepsFailureInv DEF Outcomes
<1>2. CASE QuestionNotUnderstood(r)
  <2>1. PICK f \in QuestionFailures : Respond(r, [NoResult EXCEPT !.failure = f])
    BY <1>2 DEF QuestionNotUnderstood
  <2>2. [NoResult EXCEPT !.failure = f] \in Outcomes
    BY DEF Outcomes
  <2>. QED  BY <2>1, <2>2, RespondKeepsFailureInv
<1>3. CASE PipelineRaises(r)
  <2>1. /\ pc[r] = "invoke" /\ pc' = [pc EXCEPT ![r] = "raised"]
        /\ UNCHANGED <<history, review, result, response>>
    BY <1>3 DEF PipelineRaises, reviewVars
  <2>2. HandledAt(pc[r], result[r], response[r], history[r], review[r].version)
    BY DEF FailureInv
  <2>3. HandledAt("raised", result[r], response[r], history[r], review[r].version)
    BY <2>1, <2>2 DEF HandledAt
  <2>4. RequestMoves(r, "raised", result[r], response[r], history[r], review[r])
    BY <2>1, LeftAlone DEF RequestMoves
  <2>. QED  BY <2>3, <2>4, OneRequest
<1>. QED  BY <1>1, <1>2, <1>3, WriteKeepsFailureInv DEF Handler

\* Meanwhile the admins change a review only where there is one, and a deletion
\* takes it along with its conversation.
StoreMoved(q) ==
  \/ /\ history'[q] = history[q]
     /\ (review'[q].version = 0) <=> (review[q].version = 0)
  \/ /\ history[q].state = "stored" /\ history'[q].state = "deleted"
     /\ review'[q].version = 0

LEMMA StoreMoves ==
  ASSUME ReviewInv,
         \/ AdminStep
         \/ \E r \in Requests, u \in Users : delete_conversation(u, r)
         \/ Restart
  PROVE  \A q \in Requests : StoreMoved(q)
<1>0. history \in [Requests -> HistoryRow] /\ review \in [Requests -> Review]
  BY DEF ReviewInv, ReviewTypeOK
<1>1. CASE UNCHANGED <<history, review>>
  BY <1>1 DEF StoreMoved
<1>2. CASE \E r \in Requests, u \in Users : delete_conversation(u, r)
  <2>1. PICK r \in Requests, u \in Users : delete_conversation(u, r)
    BY <1>2
  <2>2. /\ history[r].state = "stored"
        /\ history' = [history EXCEPT ![r] = Deleted]
        /\ review' = [review EXCEPT ![r] = NoReview]
    BY <2>1 DEF delete_conversation, Stored
  <2>3. Deleted.state = "deleted" /\ NoReview.version = 0
    BY DEF Deleted, NoRow, NoReview
  <2>. HIDE DEF Deleted, NoReview
  <2>. QED  BY <1>0, <2>2, <2>3 DEF StoreMoved
<1>3. ASSUME NEW a \in Admins, NEW r \in Requests, NEW clean \in ReviewPatch,
             update_failure_review(a, r, clean)
      PROVE  \A q \in Requests : StoreMoved(q)
  <2>1. CASE clean.status = "unset" /\ clean.note = "unset"
    BY <1>1, <1>3, <2>1 DEF update_failure_review
  <2>2. CASE ~(clean.status = "unset" /\ clean.note = "unset")
    <3>. DEFINE rev == Changed(review[r], clean)
    <3>1. /\ review[r].version = seen[a][r].version
          /\ seen[a][r].version \in 1 .. MaxVersion - 1
          /\ review' = [review EXCEPT ![r] = rev] /\ history' = history
      BY <1>3, <2>2 DEF update_failure_review
    <3>2. review[r].version \in Nat /\ rev.version = review[r].version + 1
      BY <1>0 DEF Changed, Review
    <3>3. review[r].version # 0 /\ rev.version # 0
      BY <3>1, <3>2, ReviewAssumption
    <3>. HIDE DEF rev
    <3>. QED  BY <1>0, <3>1, <3>3 DEF StoreMoved
  <2>. QED  BY <2>1, <2>2
<1>. QED
  BY <1>1, <1>2, <1>3
  DEF AdminStep, Restart, get_failure_review, reread_review, reread_fails

\* The store moves on while requests stay where they are, or are lost in a
\* crash of the server.
LEMMA StoreKeepsFailureInv ==
  ASSUME FailureInv, \A q \in Requests : StoreMoved(q), UNCHANGED <<result, response>>,
         Shaped', \A q \in Requests : pc'[q] \in {pc[q], "lost"}
  PROVE  FailureInv'
<1>1. ASSUME NEW q \in Requests
      PROVE  HandledAt(pc'[q], result'[q], response'[q], history'[q], review'[q].version)
  <2>1. HandledAt(pc[q], result[q], response[q], history[q], review[q].version)
    BY DEF FailureInv
  <2>2. pc'[q] = pc[q] \/ pc'[q] = "lost"
    OBVIOUS
  <2>3. result'[q] = result[q] /\ response'[q] = response[q] /\ StoreMoved(q)
    OBVIOUS
  <2>. QED  BY <2>1, <2>2, <2>3 DEF HandledAt, StoreMoved
<1>. QED  BY <1>1 DEF FailureInv

LEMMA NextKeepsFailureInv ==
  ASSUME FailureInv, ReviewInv, [Next]_vars
  PROVE  FailureInv'
<1>1. CASE \E r \in Requests, u \in Users : Start(r, u)
  <2>1. PICK r \in Requests, u \in Users : Start(r, u)
    BY <1>1
  <2>2. /\ pc[r] = "idle" /\ pc' = [pc EXCEPT ![r] = "invoke"]
        /\ UNCHANGED <<history, review, result, response>>
    BY <2>1 DEF Start, reviewVars
  <2>3. HandledAt(pc[r], result[r], response[r], history[r], review[r].version)
    BY DEF FailureInv
  <2>4. HandledAt("invoke", result[r], response[r], history[r], review[r].version)
    BY <2>2, <2>3 DEF HandledAt
  <2>5. RequestMoves(r, "invoke", result[r], response[r], history[r], review[r])
    BY <2>2, LeftAlone DEF RequestMoves
  <2>. QED  BY <2>4, <2>5, OneRequest
<1>2. CASE \E r \in Requests : Handler(r)
  BY <1>2, HandlerKeepsFailureInv
<1>3. CASE Crash
  <2>1. /\ \A q \in Requests : pc'[q] \in {pc[q], "lost"}
        /\ UNCHANGED <<result, response>> /\ Restart
    BY <1>3 DEF Crash
  <2>2. Shaped'
    BY <1>3 DEF Crash, FailureInv, Shaped
  <2>3. \A q \in Requests : StoreMoved(q)
    BY <2>1, StoreMoves
  <2>. QED  BY <2>1, <2>2, <2>3, StoreKeepsFailureInv
<1>4. CASE /\ \/ AdminStep
              \/ \E r \in Requests, u \in Users : delete_conversation(u, r)
           /\ UNCHANGED chatVars
  <2>1. \A q \in Requests : StoreMoved(q)
    BY <1>4, StoreMoves
  <2>2. UNCHANGED <<pc, result, response>>
    BY <1>4 DEF chatVars
  <2>3. Shaped'
    BY <2>2 DEF FailureInv, Shaped
  <2>. QED  BY <2>1, <2>2, <2>3, StoreKeepsFailureInv
<1>5. CASE UNCHANGED vars
  BY <1>5 DEF vars, chatVars, reviewVars, FailureInv, Shaped
<1>. QED  BY <1>1, <1>2, <1>3, <1>4, <1>5 DEF Next

\* Whatever requests, admins and deletions do and wherever writes fail or the
\* server crashes: where one tool's query failed nothing of it leaves the server,
\* and exactly the failed queries are reviewed (api/chat.py).
THEOREM FailuresHandledCorrect == Spec => []FailuresHandled
<1>1. FailureInv => FailuresHandled
  <2>. SUFFICES ASSUME FailureInv PROVE FailuresHandled
    OBVIOUS
  <2>1. FailedToolHidden
    <3>. SUFFICES ASSUME NEW r \in Requests, NEW resp \in Published(r),
                         NEW t \in ToolNames, FailedTools(result[r]) # ToolNames
                 PROVE  ~Exposed(resp[t])
      BY DEF FailedToolHidden
    <3>1. HandledAt(pc[r], result[r], response[r], history[r], review[r].version)
      BY DEF FailureInv
    <3>2. result[r] \in Outcomes /\ resp = ChatResponse(result[r])
      BY <3>1 DEF HandledAt, Published, Stored
    <3>. QED  BY <3>2, ResponseHides
  <2>2. FailuresReviewed
    BY DEF FailureInv, HandledAt, FailuresReviewed, Stored
  <2>. QED  BY <2>1, <2>2 DEF FailuresHandled
<1>2. Init /\ [][Next]_vars => []ReviewInv
  BY ChatUsesStore, ReviewInvariant, PTL DEF Spec
<1>3. FailureInv /\ ReviewInv /\ [Next]_vars => FailureInv'
  BY NextKeepsFailureInv
<1>. QED  BY <1>1, <1>2, <1>3, InitFailureInv, PTL DEF Spec
=============================================================================
