--------------------------- MODULE GenerateAnswer ---------------------------
(***************************************************************************)
(* The end of a request: the nodes compose_results and generate_answer,    *)
(* for the outcomes execute_plan or the guards left in the graph's state.  *)
(* The model is asked for an answer at most twice; an answer is taken only *)
(* if every value in it is one of the rows it was given.                   *)
(*                                                                         *)
(* An answer of the model is [reply : how the call ended, highlighted,     *)
(* sections : the values it quotes, Null for a title without value,        *)
(* renders : every item has the keys the rendering reads].                 *)
(***************************************************************************)
EXTENDS AnswerLimits

CONSTANTS
  Inputs,        \* [failure : kind or "none", plan, sources]
  Quotable,      \* values a model may quote
  ShownRows      \* rows of the fallback answer

(* A plan has one or two subqueries, each with a result; a transformation  *)
(* joins two, whose identifiers and amounts are numbers (_identifier,      *)
(* _decimal: it raises on others).                                         *)
ASSUME InputsAssumption ==
  /\ ShownRows \in Nat
  /\ \A i \in Inputs :
       /\ i.failure \in {"none", "user_correctable", "internal", "infrastructure"}
       /\ i.plan.ids # <<>> =>
            /\ Len(i.plan.ids) \in 1 .. 2
            /\ Len(i.sources) = Len(i.plan.ids)
       /\ i.plan.qty # 0 =>
            /\ Len(i.plan.ids) = 2 /\ i.plan.joinKeys # {} /\ i.plan.qty \in Int
            /\ \A g \in Range(i.sources[1].rows) : g.quantities \in Seq(Int)
            /\ \A s \in Range(i.sources[2].rows) : s.component \in Int /\ s.actualStock \in Int
       /\ i.sources \in Seq(Range(i.sources))
       /\ \A s \in Range(i.sources) :
            /\ s.rows \in Seq(Range(s.rows))
            /\ s.truncated \in BOOLEAN
            /\ \A row \in Range(s.rows) : RowChars(row) \in Nat

VARIABLES input, pc, composed, attempt, validation_rejected, audit, answer

answerVars == <<input, pc, composed, attempt, validation_rejected, audit, answer>>

NoComposition == composition_failure("none", FALSE)

NoAnswer == [mode |-> "none", text |-> "none", values |-> {}, caveat |-> "none",
             attemptCount |-> 0, validationRejected |-> FALSE]

AnswerInit ==
  /\ input \in Inputs
  /\ pc = "compose_results"
  /\ composed = NoComposition
  /\ attempt = 0 /\ validation_rejected = FALSE
  /\ audit = <<>>
  /\ answer = NoAnswer

\* The node compose_results; a blocked request goes to generate_answer at once.
ComposeResults ==
  /\ pc = "compose_results"
  /\ composed' = IF input.plan.ids = <<>> THEN NoComposition
                 ELSE compose_results(input.plan, input.sources)
  /\ pc' = "generate_answer"
  /\ UNCHANGED <<input, attempt, validation_rejected, audit, answer>>

-----------------------------------------------------------------------------
has_answer_rows ==
  \/ composed.rows # <<>>
  \/ \E s \in DOMAIN composed.sections : composed.sections[s].rows # <<>>

\* The text for everything but rows; "rows" if the model is to be asked.
fixed_text ==
  IF input.failure # "none"
    THEN IF input.failure = "infrastructure" THEN "raises" ELSE input.failure
  ELSE IF composed.error THEN "composition error"
  ELSE IF has_answer_rows THEN "rows"
  ELSE IF composed.empty_reason \in {"NO_DATA", "INCONCLUSIVE"} THEN composed.empty_reason
  ELSE "composition error"

Finished(a) == answer' = a /\ pc' = "done" /\ UNCHANGED <<input, composed>>

FixedAnswer ==
  /\ pc = "generate_answer"
  /\ fixed_text # "rows"
  /\ Finished([NoAnswer EXCEPT !.mode = IF fixed_text = "raises" THEN "none" ELSE "fixed",
                               !.text = fixed_text])
  /\ UNCHANGED <<attempt, validation_rejected, audit>>

\* The rows a value of the answer is looked up in.
context == build_answer_context(composed)

\* The values of rows that can be quoted one by one: a list of suppliers cannot.
Values(rows) ==
  (UNION {{rows[i][f] : f \in (DOMAIN rows[i]) \ {"suppliers"}} : i \in DOMAIN rows}) \ {Null}

\* Mutant: the caveat is decided by the rows the model was given only.
caveat_template_PromptOnly ==
  IF ~context.prompt_truncated THEN "none" ELSE "partial"

caveat_template ==
  IF ~context.source_truncated /\ ~context.prompt_truncated THEN "none"
  ELSE IF ~context.total_count_is_exact THEN "partial, count inexact" ELSE "partial"

row_pool ==
  IF composed.sections # <<>>
    THEN Pooled(composed.sections,
                [s \in DOMAIN composed.sections |-> Len(composed.sections[s].rows)])
    ELSE composed.rows

\* _render_fallback_answer
fallback_answer(attempts, rejected) ==
  LET shown == SubSeq(row_pool, 1, IF Len(row_pool) < ShownRows THEN Len(row_pool)
                                   ELSE ShownRows)
  IN  [mode |-> "fallback", text |-> "rows", values |-> Values(shown),
       caveat |-> IF composed.truncated \/ Len(row_pool) > ShownRows
                    THEN "partial" ELSE "none",
       attemptCount |-> attempts, validationRejected |-> rejected]

\* _generate_llm_answer up to the first call.
AnswerStarts ==
  /\ pc = "generate_answer"
  /\ fixed_text = "rows"
  /\ IF context.rows = <<>>
       THEN Finished(fallback_answer(0, FALSE))
       ELSE pc' = "ask" /\ UNCHANGED <<input, composed, answer>>
  /\ UNCHANGED <<attempt, validation_rejected, audit>>

\* Replies that end the attempts: no choices, cut off, empty, no JSON object, or
\* an exception of the call.
Unusable == {"missing_choices", "incomplete_response", "empty_response",
             "invalid_json", "invalid_json_root", "provider_error"}

Replies ==
  [reply : Unusable, highlighted : {{}}, sections : {{}}, renders : {TRUE}]
  \cup [reply : {"object"}, highlighted : {{}} \cup {{v} : v \in Quotable},
        sections : {{}} \cup {{v} : v \in Quotable}, renders : BOOLEAN]
  \cup [reply : {"missing_field"}, highlighted : {{}}, sections : {{}}, renders : {TRUE}]

\* Mutant: only the values outside of the sections are looked up.
grounded_TopOnly(r) == r.highlighted \subseteq Values(context.rows) \cup {Null}

\* _check_items_grounding over the highlighted items and those of the sections.
grounded(r) ==
  r.highlighted \cup r.sections \subseteq Values(context.rows) \cup {Null}

\* The reply passes _render_structured_answer.
valid_reply(r) ==
  /\ r.reply = "object"
  /\ r.highlighted # {} \/ r.sections # {}
  /\ grounded(r)

AnswerFails(r) ==
  /\ r.reply \in Unusable
  /\ Finished(fallback_answer(attempt + 1, FALSE))
  /\ UNCHANGED <<validation_rejected, audit>>

AnswerAccepted(r) ==
  /\ valid_reply(r)
  /\ audit' = Append(audit, "accepted")
  /\ IF r.renders
       THEN Finished([mode |-> "structured", text |-> "rows",
                      values |-> IF r.sections # {} THEN r.sections ELSE r.highlighted,
                      caveat |-> caveat_template, attemptCount |-> attempt + 1,
                      validationRejected |-> validation_rejected])
       ELSE Finished(fallback_answer(attempt + 1, FALSE))
  /\ UNCHANGED validation_rejected

\* Tried once more with the reason as feedback, then given up.
AnswerRejected(r) ==
  /\ r.reply \notin Unusable /\ ~valid_reply(r)
  /\ validation_rejected' = TRUE
  /\ IF attempt = 0
       THEN UNCHANGED <<input, composed, pc, audit, answer>>
       ELSE /\ audit' = Append(audit, "rejected")
            /\ Finished(fallback_answer(2, TRUE))

\* One of the _MAX_ANSWER_ATTEMPTS calls of the model.
AnswerAttempt ==
  /\ pc = "ask"
  /\ attempt' = attempt + 1
  /\ \E r \in Replies : AnswerFails(r) \/ AnswerAccepted(r) \/ AnswerRejected(r)

AnswerNext == ComposeResults \/ FixedAnswer \/ AnswerStarts \/ AnswerAttempt

AnswerSpec == AnswerInit /\ [][AnswerNext]_answerVars /\ WF_answerVars(AnswerNext)

-----------------------------------------------------------------------------
\* A join has a row for every pair of rows with the same key and no other, each
\* of them agreeing with both; a row of the second source without a partner, or
\* two rows that disagree, are never dropped silently: the result is an error.
JoinComplete ==
  composed.mode = "joined" /\ ~composed.error /\ input.plan.qty = 0 =>
    LET left == input.sources[1].rows
        right == input.sources[2].rows
        keys == input.plan.joinKeys
        partners == {p \in (DOMAIN left) \X (DOMAIN right) :
                       \A a \in keys : left[p[1]][a] = right[p[2]][a]}
        both(p) == merge_rows(left[p[1]], right[p[2]])
    IN  /\ composed.total_count = Cardinality(partners)
        /\ \A j \in DOMAIN right : \E p \in partners : p[2] = j
        /\ \A p \in partners : \A f \in (DOMAIN left[p[1]]) \cap (DOMAIN right[p[2]]) :
             left[p[1]][f] = right[p[2]][f]
        /\ ToSet(composed.rows) \subseteq {both(p) : p \in partners}
        /\ composed.truncated \/ {both(p) : p \in partners} \subseteq ToSet(composed.rows)

\* What a component is short of does not depend on how the rows of its bill of
\* materials are ordered, nor on how many suppliers repeat a path: every distinct
\* path counts once, a purchased component is listed iff it is short, once and with
\* all its suppliers, and rows that disagree about a path are an error.
BomAsSpecified ==
  input.plan.qty # 0 /\ composed.mode = "joined" /\ ~composed.error =>
    LET graph == ToSet(input.sources[1].rows)
        required(c) == RequiredFor(graph, c, input.plan.qty)
        short == ShortIn(graph, ToSet(input.sources[2].rows), input.plan.qty)
        rows == composed.rows
    IN  /\ composed.total_count = Cardinality(short)
        /\ \A i \in DOMAIN rows : \E s \in short :
             /\ rows[i].component = s.component
             /\ rows[i].requiredQty = normalized(required(s.component))
             /\ rows[i].shortageQty = normalized(required(s.component) - s.actualStock)
             /\ rows[i].suppliers = {g.supplier : g \in Bill(graph, s.component)} \ {0}
        /\ \A i, j \in DOMAIN rows : i < j =>
             rows[i].shortageQty >= rows[j].shortageQty /\ rows[i].component # rows[j].component
        /\ \A g, h \in graph : g.component = h.component /\ g.path = h.path =>
             g.quantities = h.quantities

\* An answer from rows says so if it does not cover them all: rows the database,
\* a join or the prompt cut off, or rows the fallback leaves out.
PartialTold ==
  answer.mode \in {"structured", "fallback"} /\ answer.caveat = "none" =>
    /\ \A i \in DOMAIN input.sources : ~input.sources[i].truncated
    /\ composed.total_count =
         IF answer.mode = "structured" THEN Len(context.rows) ELSE Len(row_pool)
    /\ answer.mode = "fallback" => composed.total_count <= ShownRows

\* No section of a separate result is starved: at most one row less than another
\* one, unless it has no more, its next row does not fit into what is left, or
\* its first row alone is too long (which is given all the same, and is the last).
SharesFair ==
  composed.mode = "separate" =>
    LET t == truncate_sections(composed.sections) IN
    \A r, s \in DOMAIN composed.sections :
      \/ t.taken[r] + 1 >= t.taken[s]
      \/ t.taken[r] = Len(composed.sections[r].rows)
      \/ t.chars + RowChars(composed.sections[r].rows[t.taken[r] + 1]) > AnswerMaxChars
      \/ t.taken[r] = 1 /\ RowChars(composed.sections[r].rows[1]) > AnswerMaxChars

\* Every value an answer quotes was read from a database for this request.
AnswerGrounded ==
  answer.mode = "structured" /\ input.plan.qty = 0 =>
    answer.values \ {Null} \subseteq
      UNION {Values(input.sources[i].rows) : i \in DOMAIN input.sources}

\* One line of the audit log per answer at most ("답변 1건당 1줄"), and it says
\* what became of the answer: a structured one was accepted, a rejected one
\* fell back.
OneAuditLine ==
  /\ Len(audit) <= 1
  /\ answer.mode = "structured" => audit = <<"accepted">>
  /\ audit = <<"rejected">> => answer.mode = "fallback" /\ answer.validationRejected

\* What the model writes reaches the user only grounded, and the log agrees.
AnswerVouched == AnswerGrounded /\ OneAuditLine
=============================================================================
