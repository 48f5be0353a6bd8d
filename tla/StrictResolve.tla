---------------------------- MODULE StrictResolve ----------------------------
(***************************************************************************)
(* The node resolve_entity of the strict path,                             *)
(* strict_query/snapshot/orchestrator/nodes/resolve_entity.py, as a        *)
(* function of what the model extracts and what the database answers.      *)
(* A reading of a question is                                              *)
(*                                                                         *)
(*  [confirmed   : entities the caller confirmed,                          *)
(*   rows        : the entities that exist in the database,                *)
(*   tool_calls  : the model called extract_entity at all,                 *)
(*   extractions : sequence of [kind, type, found, candidates, descriptor, *)
(*                              fragment],                                 *)
(*   category    : the category the question starts with, as a set,        *)
(*   relation    : the products a relation question names (none or >= 2),  *)
(*   leading     : the product or supplier the question starts with]       *)
(*                                                                         *)
(* found and candidates are what _find_entity_by_name and                  *)
(* _find_similar_entities return for the extracted name; descriptor and    *)
(* fragment what _is_generic_descriptor and _is_type_alias_fragment say.   *)
(* An entity is <<type, id>>.                                              *)
(***************************************************************************)
EXTENDS Naturals, Sequences, FiniteSets

\* A confirmed entity that does not exist (any more) is ignored.
valid_confirmed(r) == r.confirmed \cap r.rows

\* The extractions that name something: the others are an identifier, a word for
\* a kind of entity, of an unknown type, or a category in a question about none.
lookups(r) == {i \in DOMAIN r.extractions : r.extractions[i].kind = "name"}

\* The node without extractions.
resolve_unnamed(r) ==
  LET category == IF r.tool_calls THEN {} ELSE r.category
      fallback == IF category # {} THEN category ELSE r.leading
  IN  IF r.relation # {} THEN r.relation ELSE valid_confirmed(r) \cup fallback

\* Looked for only if the single name of the question was not found.
leading_fallback(r) ==
  IF Cardinality(lookups(r)) = 1 /\ \A i \in lookups(r) : r.extractions[i].found = {}
    THEN r.leading ELSE {}

has_other_concrete_entity(r, lookup) ==
  \/ \E c \in valid_confirmed(r) : c[1] # lookup.type
  \/ r.relation # {}
  \/ Cardinality({i \in lookups(r) : ~r.extractions[i].descriptor}) > 1

\* Mutant: the only candidate is as good as a confirmed one.
confirmed_candidates_OnlyOne(r, lookup) ==
  IF Cardinality(lookup.candidates) = 1 THEN lookup.candidates
  ELSE lookup.candidates \cap valid_confirmed(r)

confirmed_candidates(r, lookup) == lookup.candidates \cap valid_confirmed(r)

\* One round of the loop over lookups.
judge(r, lookup) ==
  LET picked == confirmed_candidates(r, lookup)
      type_confirmed == \E c \in valid_confirmed(r) : c[1] = lookup.type
  IN  CASE lookup.found # {} -> [entity |-> lookup.found, error |-> "none"]
        [] leading_fallback(r) # {} ->
             [entity |-> leading_fallback(r), error |-> "none"]
        [] lookup.descriptor -> [entity |-> {}, error |-> "none"]
        [] picked # {} ->
             [entity |-> {CHOOSE c \in picked : TRUE}, error |-> "none"]
        [] lookup.fragment /\ (type_confirmed \/ ~has_other_concrete_entity(r, lookup)) ->
             [entity |-> {}, error |-> "none"]
        [] lookup.candidates # {} -> [entity |-> {}, error |-> "ambiguous"]
        [] OTHER -> [entity |-> {}, error |-> "not_found"]

\* The node with lookups: relation products replace the products it resolved,
\* and without any resolved entity the confirmed ones are used.
resolve_named(r) ==
  LET resolved == UNION {judge(r, r.extractions[i]).entity : i \in lookups(r)}
      named == IF r.relation = {} THEN resolved
               ELSE r.relation \cup {e \in resolved : e[1] # "product"}
  IN  IF named = {} THEN valid_confirmed(r) ELSE named

\* The first lookup that cannot be settled raises.
strict_resolve(r) ==
  LET raising == {i \in lookups(r) : judge(r, r.extractions[i]).error # "none"}
      first == CHOOSE i \in raising : \A j \in raising : i <= j
  IN  IF r.extractions = <<>> THEN [entity |-> resolve_unnamed(r), error |-> "none"]
      ELSE IF lookups(r) = {}
        THEN [entity |-> valid_confirmed(r) \cup r.leading, error |-> "none"]
      ELSE IF raising # {} THEN judge(r, r.extractions[first])
      ELSE [entity |-> resolve_named(r), error |-> "none"]

\* What the question names or the caller confirmed: a similar name alone is not
\* among it.
Grounds(r) ==
  valid_confirmed(r) \cup r.category \cup r.relation \cup r.leading
    \cup UNION {r.extractions[i].found : i \in DOMAIN r.extractions}
=============================================================================
