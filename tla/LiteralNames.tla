---------------------------- MODULE LiteralNames ----------------------------
(***************************************************************************)
(* The names of a question that are, character for character, names of the *)
(* database (orchestrator/nodes/resolve_entity.py).  A question is known   *)
(* by where names occur in it: a span <<start, end>> is a run of           *)
(* characters, a match an entity whose name fills a span.                  *)
(***************************************************************************)
EXTENDS Ordering, SequencesExt

Overlaps(s, t) == s[1] < t[2] /\ t[1] < s[2]

Inside(s, t) == t[1] <= s[1] /\ s[2] <= t[2]

Length(s) == s[2] - s[1]

\* The order in which spans are tried: the longest first, then from the left.
Before(s, t) == Length(s) > Length(t) \/ (Length(s) = Length(t) /\ s[1] < t[1])

FromTheLeft(s, t) == s[1] < t[1] \/ (s[1] = t[1] /\ s[2] < t[2])

Tried(s, taken) == IF \E t \in taken : Overlaps(s, t) THEN taken ELSE taken \cup {s}

\* Mutant: spans are tried from the left, whatever their length.
occupied_Leftmost(matches) ==
  LET spans == {m.span : m \in matches}
      order == InOrder(spans, {p \in spans \X spans : FromTheLeft(p[1], p[2])})
      upTo[n \in 0 .. Cardinality(spans)] ==
        IF n = 0 THEN {} ELSE Tried(order[n], upTo[n - 1])
  IN  upTo[Cardinality(spans)]

\* The spans kept: each one tried, unless it overlaps one kept before.
occupied(matches) ==
  LET spans == {m.span : m \in matches}
      order == InOrder(spans, {p \in spans \X spans : Before(p[1], p[2])})
      upTo[n \in 0 .. Cardinality(spans)] ==
        IF n = 0 THEN {} ELSE Tried(order[n], upTo[n - 1])
  IN  upTo[Cardinality(spans)]

identities(matches, s) == {m.entity : m \in {n \in matches : n.span = s}}

\* A span that several entities fill is left to the model's extraction.
selected_spans(matches) ==
  {s \in occupied(matches) : Cardinality(identities(matches, s)) = 1}

\* The kept spans do not overlap, so no two of them start together.
Literals(matches) ==
  LET spans == selected_spans(matches)
      order == InOrder(spans, {p \in spans \X spans : FromTheLeft(p[1], p[2])})
  IN  [i \in 1 .. Cardinality(spans) |->
         [span |-> order[i], entity |-> CHOOSE e \in identities(matches, order[i]) : TRUE]]

\* In the order of the question; of one entity's spans the first.
_select_literal_entities(matches) ==
  LET all == Literals(matches)
  IN  Pick(all, {i \in DOMAIN all : \A j \in 1 .. i - 1 : all[j].entity # all[i].entity})

-----------------------------------------------------------------------------
(* The same without loops.                                                 *)

\* The spans to keep, stated without the order they are tried in: a span is kept
\* exactly if no kept span that is longer, or as long and further left, overlaps it.
SpansToKeep(matches) ==
  LET spans == {m.span : m \in matches}
  IN  CHOOSE S \in SUBSET spans :
        \A s \in spans : s \in S <=> ~ \E t \in S : Before(t, s) /\ Overlaps(t, s)

\* The matches that alone fill a span to keep.
AloneInSpan(matches) ==
  {m \in matches : /\ m.span \in SpansToKeep(matches)
                   /\ \A n \in matches : n.span = m.span => n.entity = m.entity}

\* What _select_literal_entities returns, stated without its loops: every entity that
\* alone fills a span to keep, once, at the first such span, in the order of the
\* question.
SelectedAsSpecified(matches) ==
  LET chosen == _select_literal_entities(matches)
      alone == AloneInSpan(matches)
  IN  /\ Range(chosen) =
           {m \in alone : \A n \in alone : n.entity = m.entity => n.span[1] >= m.span[1]}
      /\ \A i, j \in DOMAIN chosen : i < j => chosen[i].span[2] <= chosen[j].span[1]
=============================================================================
