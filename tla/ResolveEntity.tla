---------------------------- MODULE ResolveEntity ----------------------------
(***************************************************************************)
(* The resolve_entity node and the dialog around it                        *)
(* (orchestrator/nodes/resolve_entity.py, frontend Dashboard.tsx).  The    *)
(* node finds the database entities a question names.  A name that is no   *)
(* entity's but resembles some ends the request with candidates; the user  *)
(* picks one, and the client sends the question again with every pick so   *)
(* far, each with the name it answers (forName).                           *)
(*                                                                         *)
(* The tables may change between any two reads of a request, and between   *)
(* the rounds of a dialog.  The model's extraction differs from round to   *)
(* round.  Texts are abstracted to where names occur (LiteralNames), and   *)
(* the similarity of names to a relation.                                  *)
(***************************************************************************)
EXTENDS LiteralNames

CONSTANTS
  Types,            \* entity types, each with a table
  Entities,         \* the rows the tables may hold
  Names,            \* entities' names and names asked for
  TypeOf, NameOf,   \* entity |-> its type, its name
  Alike,            \* <<entity, name>> at or above the similarity threshold
  Questions,        \* the questions asked
  Extractions,      \* what the model may extract, as <<type, text>> in order
  LookupName,       \* extracted text |-> the name looked up, or Ignored
  Ignored,
  CandidateLimit,
  MaxLookups,       \* bound: names extracted
  MaxRounds,        \* bound: picks in a dialog
  MaxChanges        \* bound: changes of the tables

ASSUME ResolveAssumption ==
  /\ TypeOf \in [Entities -> Types]
  /\ NameOf \in [Entities -> Names]
  /\ Alike \subseteq Entities \X Names
  /\ IsFiniteSet(Entities)
  /\ CandidateLimit \in 1 .. 100
  /\ \A q \in Questions :
       /\ q.length \in Nat
       /\ q.spans \in [Names -> SUBSET ((0 .. q.length) \X (0 .. q.length))]
  /\ \A x \in Extractions : x \in Seq(Types \X DOMAIN LookupName) /\ Len(x) <= MaxLookups

VARIABLES
  db,          \* the rows the tables hold
  changes,     \* how often they changed
  ever,        \* rows they held at some time during the request
  always,      \* rows they held all the time during the request
  question,
  confirmed,   \* the picks the client sends: [entity, forName]
  stage,       \* how far the request has got
  checked,     \* how many picks were looked up
  valid,       \* the picks accepted
  extracted,   \* the names the model extracted: [type, name]
  lookups,     \* those still to find
  unread,      \* the types whose exact names are still to be read
  found,       \* type |-> its entities with one of the names
  unsearched,  \* the lookups whose candidates are still to be read
  candidates,  \* lookup |-> the entities that resemble it
  outcome      \* what the node returned or raised

tables == <<db, changes>>

world == <<tables, ever, always>>

asked == <<question, confirmed>>

picks == <<checked, valid>>

request == <<asked, stage, picks, extracted, lookups, unread, found, unsearched,
             candidates, outcome>>

vars == <<world, request>>

NoLookup == [type |-> Ignored, name |-> Ignored]

NoOutcome ==
  [kind |-> "none", lookup |-> NoLookup, entities |-> <<>>, candidates |-> {}]

Init ==
  /\ db \in SUBSET Entities
  /\ changes = 0
  /\ ever = {}
  /\ always = {}
  /\ question \in Questions
  /\ confirmed = <<>>
  /\ stage = "idle"
  /\ checked = 0
  /\ valid = <<>>
  /\ extracted = <<>>
  /\ lookups = <<>>
  /\ unread = {}
  /\ found = [t \in Types |-> {}]
  /\ unsearched = {}
  /\ candidates = [i \in 1 .. MaxLookups |-> {}]
  /\ outcome = NoOutcome

-----------------------------------------------------------------------------
(***************************************************************************)
(* The client and the tables.                                              *)
(***************************************************************************)
Send(q, chosen) ==
  /\ question' = q
  /\ confirmed' = chosen
  /\ stage' = "confirmed"
  /\ checked' = 0
  /\ valid' = <<>>
  /\ extracted' = <<>>
  /\ lookups' = <<>>
  /\ unread' = {}
  /\ found' = [t \in Types |-> {}]
  /\ unsearched' = {}
  /\ candidates' = [i \in 1 .. MaxLookups |-> {}]
  /\ outcome' = NoOutcome
  /\ ever' = db
  /\ always' = db
  /\ UNCHANGED tables

handleSubmit(q) == stage = "idle" /\ Send(q, <<>>)

handleSelectCandidate(e) ==
  /\ stage = "idle"
  /\ outcome.kind = "ambiguous"
  /\ e \in outcome.candidates
  /\ Len(confirmed) < MaxRounds
  /\ Send(question, Append(confirmed, [entity |-> e, forName |-> outcome.lookup.name]))

handleCancelClarification ==
  /\ stage = "idle"
  /\ outcome.kind = "ambiguous"
  /\ confirmed' = <<>>
  /\ outcome' = NoOutcome
  /\ UNCHANGED <<world, picks, question, stage, extracted, lookups, unread,
                 found, unsearched, candidates>>

\* A synchronisation of the database adds or removes a row.
TableChanges ==
  /\ changes < MaxChanges
  /\ changes' = changes + 1
  /\ \E e \in Entities : db' = IF e \in db THEN db \ {e} ELSE db \cup {e}
  /\ ever' = ever \cup db'
  /\ always' = always \cap db'
  /\ UNCHANGED request

-----------------------------------------------------------------------------
(***************************************************************************)
(* What the node computes between its awaits.                              *)
(***************************************************************************)
_append_unique(target, values) ==
  target \o Pick(values, {i \in DOMAIN values : /\ values[i] \notin Range(target)
                                              /\ \A j \in 1 .. i - 1 : values[j] # values[i]})

\* Extracted texts that name a type, or are digits only, are no lookups.
LookupsOf(extraction) ==
  LET texts == _append_unique(<<>>, extraction)
      named == Pick(texts, {i \in DOMAIN texts : LookupName[texts[i][2]] # Ignored})
  IN  [i \in DOMAIN named |-> [type |-> named[i][1], name |-> LookupName[named[i][2]]]]

names_by_type(t, ls) ==
  question.literals \cup {l.name : l \in {m \in Range(ls) : m.type = t}}

queried(ls) == {t \in Types : names_by_type(t, ls) # {}}

literal_matches ==
  {m \in [span : UNION {question.spans[n] : n \in Names},
           entity : UNION {found[t] : t \in Types}] :
     NameOf[m.entity] \in question.literals /\ m.span \in question.spans[NameOf[m.entity]]}

selected_literals == _select_literal_entities(literal_matches)

\* Where a name occurs: as it is, or else up to spaces and commas.
OccurrencesOf(n) ==
  IF question.spans[n] # {} THEN question.spans[n] ELSE question.loose[n]

containers(t) ==
  {m.span : m \in {n \in Range(selected_literals) : TypeOf[n.entity] = t}}

_lookup_is_inside_selected_literal(l) ==
  /\ OccurrencesOf(l.name) # {}
  /\ \A s \in OccurrencesOf(l.name) : \E c \in containers(l.type) : Inside(s, c)

filtered_lookups(ls) ==
  Pick(ls, {i \in DOMAIN ls : ~ _lookup_is_inside_selected_literal(ls[i])})

exact_results(l) == {e \in found[l.type] : NameOf[e] = l.name}

missing_indices(ls) == {i \in DOMAIN ls : exact_results(ls[i]) = {}}

\* Mutant: any pick of the type answers.
covers_lookup_Type(l) == \E c \in Range(valid) : TypeOf[c.entity] = l.type

_confirmed_entity_covers_lookup(l) ==
  \E c \in Range(valid) : c.forName = l.name /\ TypeOf[c.entity] = l.type

unresolved ==
  {i \in missing_indices(lookups) : ~ _confirmed_entity_covers_lookup(lookups[i])}

\* Where an entity's name first occurs; one that does not occur comes last.
Position(e) ==
  LET starts == {s[1] : s \in question.spans[NameOf[e]]}
  IN  IF starts = {} THEN question.length ELSE Min(starts)

_sort_entities_by_question(es) ==
  LET order == InOrder(DOMAIN es,
                 {p \in (DOMAIN es) \X (DOMAIN es) :
                    \/ Position(es[p[1]]) < Position(es[p[2]])
                    \/ Position(es[p[1]]) = Position(es[p[2]]) /\ p[1] < p[2]})
  IN  [k \in DOMAIN es |-> es[order[k]]]

EntitiesOf(chosen) == [i \in DOMAIN chosen |-> chosen[i].entity]

-----------------------------------------------------------------------------
(***************************************************************************)
(* The node.  Each read of the tables is a step.                           *)
(***************************************************************************)
Finish(o) == stage' = "idle" /\ outcome' = o

\* Mutant: a pick is accepted without being looked up.
check_confirmed_Unchecked ==
  /\ stage = "confirmed"
  /\ checked < Len(confirmed)
  /\ checked' = checked + 1
  /\ valid' = Append(valid, confirmed[checked + 1])
  /\ UNCHANGED <<world, asked, stage, extracted, lookups, unread, found,
                 unsearched, candidates, outcome>>

\* A pick whose entity is gone, or was picked before, is passed over.
check_confirmed ==
  /\ stage = "confirmed"
  /\ checked < Len(confirmed)
  /\ checked' = checked + 1
  /\ LET pick == confirmed[checked + 1]
     IN  valid' = IF pick.entity \in db /\ (\A c \in Range(valid) : c.entity # pick.entity)
                    THEN Append(valid, pick) ELSE valid
  /\ UNCHANGED <<world, asked, stage, extracted, lookups, unread, found,
                 unsearched, candidates, outcome>>

_extract_entities ==
  /\ stage = "confirmed"
  /\ checked = Len(confirmed)
  /\ \E x \in Extractions :
       /\ extracted' = LookupsOf(x)
       /\ lookups' = LookupsOf(x)
       /\ unread' = queried(LookupsOf(x))
  /\ stage' = "exact"
  /\ UNCHANGED <<world, asked, picks, found, unsearched, candidates, outcome>>

\* The model calls another tool, or its arguments have the wrong shape.
EntityExtractionError ==
  /\ stage = "confirmed"
  /\ checked = Len(confirmed)
  /\ Finish([NoOutcome EXCEPT !.kind = "not_understood"])
  /\ UNCHANGED <<world, asked, picks, extracted, lookups, unread, found,
                 unsearched, candidates>>

_find_entities_by_names(t) ==
  /\ stage = "exact"
  /\ t \in unread
  /\ unread' = unread \ {t}
  /\ found' = [found EXCEPT ![t] =
                 {e \in db : TypeOf[e] = t /\ NameOf[e] \in names_by_type(t, lookups)}]
  /\ UNCHANGED <<world, asked, picks, stage, extracted, lookups, unsearched,
                 candidates, outcome>>

\* When every type was read: drop the lookups inside a literal, and search for
\* candidates of those that are nobody's name.
FilterLookups ==
  /\ stage = "exact"
  /\ unread = {}
  /\ lookups' = filtered_lookups(lookups)
  /\ unsearched' = missing_indices(filtered_lookups(lookups))
  /\ stage' = "similar"
  /\ UNCHANGED <<world, asked, picks, extracted, unread, found, candidates,
                 outcome>>

similar_rows(l) == {e \in db : TypeOf[e] = l.type /\ <<e, l.name>> \in Alike}

\* The best CandidateLimit rows, in any order.  Without pg_trgm there are none
\* (Alike is empty).
_find_similar_entities(i) ==
  /\ stage = "similar"
  /\ i \in unsearched
  /\ unsearched' = unsearched \ {i}
  /\ \E rows \in SUBSET similar_rows(lookups[i]) :
       /\ Cardinality(rows) = Min({CandidateLimit, Cardinality(similar_rows(lookups[i]))})
       /\ candidates' = [candidates EXCEPT ![i] = rows]
  /\ UNCHANGED <<world, asked, picks, stage, extracted, lookups, unread, found,
                 outcome>>

\* The first unresolved name, in the order of the question, decides.
refuse ==
  /\ unresolved # {}
  /\ LET i == Min(unresolved)
     IN  Finish([NoOutcome EXCEPT
           !.kind = IF candidates[i] # {} THEN "ambiguous" ELSE "not_found",
           !.lookup = lookups[i],
           !.candidates = candidates[i]])

resolve ==
  /\ unresolved = {}
  /\ \E exact \in [DOMAIN lookups \ missing_indices(lookups) -> Entities] :
       /\ \A i \in DOMAIN exact : exact[i] \in exact_results(lookups[i])
       /\ LET results == Pick(exact, DOMAIN exact)
              literal == [k \in DOMAIN selected_literals |-> selected_literals[k].entity]
              discovered == _append_unique(_append_unique(<<>>, results), literal)
          IN  Finish([NoOutcome EXCEPT
                !.kind = "resolved",
                !.entities = _append_unique(EntitiesOf(valid),
                                            _sort_entities_by_question(discovered))])

Judge ==
  /\ stage = "similar"
  /\ unsearched = {}
  /\ refuse \/ resolve
  /\ UNCHANGED <<world, asked, picks, extracted, lookups, unread, found,
                 unsearched, candidates>>

\* The model or the database cannot be reached.
Fails ==
  /\ stage # "idle"
  /\ Finish([NoOutcome EXCEPT !.kind = "failed"])
  /\ UNCHANGED <<world, asked, picks, extracted, lookups, unread, found,
                 unsearched, candidates>>

Next ==
  \/ \E q \in Questions : handleSubmit(q)
  \/ \E e \in Entities : handleSelectCandidate(e)
  \/ handleCancelClarification
  \/ TableChanges
  \/ check_confirmed
  \/ _extract_entities
  \/ EntityExtractionError
  \/ \E t \in Types : _find_entities_by_names(t)
  \/ FilterLookups
  \/ \E i \in 1 .. MaxLookups : _find_similar_entities(i)
  \/ Judge
  \/ Fails

Spec == Init /\ [][Next]_vars
-----------------------------------------------------------------------------
Picked(e, l) == [entity |-> e, forName |-> l.name] \in Range(confirmed)

\* The name occurs only as a part of names of the given entities of its type.
OnlyWithin(l, es) ==
  /\ OccurrencesOf(l.name) # {}
  /\ \A s \in OccurrencesOf(l.name) :
       \E e \in es : /\ TypeOf[e] = l.type
                     /\ \E c \in question.spans[NameOf[e]] : Inside(s, c)

\* A name that was resolved never hides one that was not: each name the model
\* extracted is answered by an entity of its type, which has the name, or which the
\* user picked for this very name, or whose name, in the question, contains it.
NothingHidden ==
  outcome.kind = "resolved" =>
    \A l \in Range(extracted) :
      \/ \E e \in Range(outcome.entities) :
           TypeOf[e] = l.type /\ (NameOf[e] = l.name \/ Picked(e, l))
      \/ OnlyWithin(l, Range(outcome.entities))

\* Nothing the node returns is stale: each entity, those picked in earlier rounds
\* too, and each candidate was in its table at some time during this request.
NothingStale ==
  Range(outcome.entities) \cup outcome.candidates \subseteq ever

\* A pick counts: whatever the other picks and names of the question, the entity is
\* returned if it was in its table all the time.
PicksKept ==
  outcome.kind = "resolved" =>
    \A i \in DOMAIN confirmed :
      confirmed[i].entity \in always => confirmed[i].entity \in Range(outcome.entities)

\* The user is asked, or told that there is no such entity, only about a name that is
\* no entity's of its type, and no name before it in the question is still open.
FirstOpenNameAsked ==
  outcome.kind \in {"ambiguous", "not_found"} =>
    LET l == outcome.lookup
        there == {e \in always : TypeOf[e] = l.type}
    IN  /\ \A e \in there : NameOf[e] # l.name
        /\ outcome.kind = "not_found" => \A e \in there : <<e, l.name>> \notin Alike
        /\ \E k \in DOMAIN extracted :
             /\ extracted[k] = l
             /\ \A before \in {extracted[i] : i \in 1 .. k - 1} :
                  \/ \E e \in ever :
                       /\ TypeOf[e] = before.type
                       /\ NameOf[e] = before.name \/ Picked(e, before)
                  \/ OnlyWithin(before, ever)

\* What earlier rounds settled is carried over, and only as long as it is true: a
\* pick is neither dropped nor returned once its entity is gone.
PicksSound == NothingStale /\ PicksKept

\* The picks for a name, from tables that kept the entity picked.
AnswersTo(l) ==
  {i \in DOMAIN confirmed : /\ confirmed[i].forName = l.name
                            /\ TypeOf[confirmed[i].entity] = l.type
                            /\ confirmed[i].entity \in always}

\* The user is not asked again about a name answered with an entity that was not
\* the answer to another one before.
FreshAnswerSettles ==
  outcome.kind = "ambiguous" =>
    \A i \in AnswersTo(outcome.lookup) :
      \E j \in 1 .. i - 1 : confirmed[j].entity = confirmed[i].entity

\* The names of the question are settled one by one and for good: none is hidden
\* by another, the user is asked about the first open one, and a fresh answer
\* settles it.
NamesSettled == NothingHidden /\ FirstOpenNameAsked /\ FreshAnswerSettles
=============================================================================
