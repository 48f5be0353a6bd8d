---------------------------- MODULE AnswerLimits ----------------------------
(***************************************************************************)
(* nodes/answer_limits.py: how many rows of a composed result the answer   *)
(* model is given.  Rows and characters have one budget, which the         *)
(* sections of a separate result share in turns.                           *)
(***************************************************************************)
EXTENDS Composition

CONSTANTS
  AnswerMaxRows, AnswerMaxChars,   \* ANSWER_MAX_ROWS, ANSWER_MAX_CHARS
  RowChars(_)                      \* _json_size of a row

ASSUME LimitsAssumption == AnswerMaxRows \in Nat /\ AnswerMaxChars \in Nat

Chars(rows) ==
  LET upTo[n \in 0 .. Len(rows)] == IF n = 0 THEN 0 ELSE upTo[n - 1] + RowChars(rows[n])
  IN  upTo[Len(rows)]

\* truncate_result_for_answer: the longest prefix within both limits, but the
\* first row even if it is too long.
truncate_result_for_answer(rows) ==
  LET fits == {n \in 0 .. Len(rows) : /\ n <= AnswerMaxRows
                                      /\ Chars(SubSeq(rows, 1, n)) <= AnswerMaxChars}
      longest == Max(fits)
  IN  IF longest = 0 /\ rows # <<>> /\ AnswerMaxRows > 0 THEN <<rows[1]>>
      ELSE SubSeq(rows, 1, longest)

\* State of the loop of _truncate_sections: rows taken per section, sections that
\* get no more, rows and characters used.
NothingTaken(sections) ==
  [taken |-> [s \in DOMAIN sections |-> 0], blocked |-> {}, count |-> 0, chars |-> 0]

Take(t, s, chars) ==
  [t EXCEPT !.taken[s] = @ + 1, !.count = @ + 1, !.chars = @ + chars]

\* Mutant: a section keeps its turn as long as its rows fit.
visit_section_Greedy(t, sections, s) ==
  LET rows == sections[s].rows
      more == {n \in t.taken[s] .. Len(rows) :
                 /\ t.count + n - t.taken[s] <= AnswerMaxRows
                 /\ t.chars + Chars(SubSeq(rows, t.taken[s] + 1, n)) <= AnswerMaxChars}
  IN  IF s \in t.blocked THEN t
      ELSE [t EXCEPT !.taken[s] = Max(more), !.blocked = @ \cup {s},
                     !.count = @ + Max(more) - t.taken[s],
                     !.chars = @ + Chars(SubSeq(rows, t.taken[s] + 1, Max(more)))]

\* One turn of section s.
visit_section(t, sections, s) ==
  LET rows == sections[s].rows
      chars == RowChars(rows[t.taken[s] + 1])
      stop(u) == [u EXCEPT !.blocked = @ \cup {s}]
  IN  IF t.count >= AnswerMaxRows \/ s \in t.blocked THEN t
      ELSE IF t.taken[s] >= Len(rows) THEN stop(t)
      ELSE IF t.chars + chars <= AnswerMaxChars THEN Take(t, s, chars)
      ELSE IF t.count = 0 THEN stop(Take(t, s, 0))
      ELSE stop(t)

\* One round of the loop: every section has a turn.
visit_sections(t, sections) ==
  LET upTo[s \in 0 .. Len(sections)] ==
        IF s = 0 THEN t ELSE visit_section(upTo[s - 1], sections, s)
  IN  upTo[Len(sections)]

\* _truncate_sections.  A round without progress leaves every section blocked or
\* the rows used up, so that the rounds after the loop's last one change nothing.
truncate_sections(sections) ==
  LET rounds == RowsIn(sections) + 1
      after[n \in 0 .. rounds] ==
        IF n = 0 THEN NothingTaken(sections) ELSE visit_sections(after[n - 1], sections)
  IN  after[rounds]

\* The first rows of every section, as many as were taken.
Pooled(sections, taken) ==
  LET upTo[s \in 0 .. Len(sections)] ==
        IF s = 0 THEN <<>> ELSE upTo[s - 1] \o SubSeq(sections[s].rows, 1, taken[s])
  IN  upTo[Len(sections)]

\* build_answer_context
build_answer_context(composed) ==
  LET separate == composed.mode = "separate"
      known == IF separate THEN RowsIn(composed.sections) ELSE Len(composed.rows)
      pool == IF separate
                THEN Pooled(composed.sections, truncate_sections(composed.sections).taken)
                ELSE truncate_result_for_answer(composed.rows)
  IN  [rows |-> pool,
       prompt_truncated |-> Len(pool) < known,
       source_truncated |-> composed.truncated,
       total_count_is_exact |-> composed.mode = "joined" \/ ~composed.truncated]
=============================================================================
