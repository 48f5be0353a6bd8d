--------------------------- MODULE StrictPlanning ---------------------------
(***************************************************************************)
(* Routes and plans of the strict path,                                    *)
(* strict_query/snapshot/orchestrator/planning.py, query_conditions.py and *)
(* the helpers of its route_query and plan_outputs.  It is an older copy   *)
(* of orchestrator/planning.py with rules of its own: a binding carries a  *)
(* name derived from its alias, join keys agree as sets, a dependent plan  *)
(* must have them, missing ones are restored in the second attempt, and no *)
(* number of the question may get lost.                                    *)
(*                                                                         *)
(* An item of a route is [id, tool, dependsOn, joinKeys,                   *)
(*   bindings : set of <<producer id, alias, the name fits the alias>>,    *)
(*   numbers : number |-> occurrences in the item's question,              *)
(*   filters : the numbers its question states as a condition].            *)
(* A document is [tool_plan, items, qty]; qty is resultTransform's         *)
(* productionQty, 0 without a transform.                                   *)
(***************************************************************************)
EXTENDS Planning

CONSTANT Numbers   \* the normalized numeric literals of the questions

StrictIds(items) == {items[i].id : i \in DOMAIN items}

strict_JoinKeysAgree(items) ==
  Len(items) = 2 =>
    /\ Range1(items[1].joinKeys) = Range1(items[2].joinKeys)
    /\ (\E i \in 1 .. 2 : items[i].dependsOn # {}) => items[1].joinKeys # <<>>

Keyed(items) == IF strict_JoinKeysAgree(items) THEN items ELSE Rejected

strict_validate_route(items) ==
  IF /\ items # <<>>
     /\ \A i \in DOMAIN items :
          /\ Range1(items[i].joinKeys) \subseteq SharedJoinAliases
          /\ DistinctField(items[i].joinKeys, LAMBDA k : k)
          /\ Cardinality(items[i].bindings) <= 1
          /\ \A b \in items[i].bindings :
               b[1] \in StrictIds(items) /\ b[2] \in SharedJoinAliases /\ b[3]
          /\ items[i].dependsOn \subseteq StrictIds(items) \ {items[i].id}
          /\ items[i].dependsOn = {b[1] : b \in items[i].bindings}
     /\ DistinctField(items, LAMBDA x : x.id)
    THEN Keyed(Ordered(items))
    ELSE Rejected

InSomeOrder(set) == CHOOSE s \in [1 .. Cardinality(set) -> set] : Range1(s) = set

\* The alias of every usable binding is appended to the join keys of its
\* consumer and its producer, binding by binding.  The order of the bindings of
\* one item plays no part: an item with two of them is refused afterwards.
restored_join_keys(items) ==
  LET usable(k) == {b \in items[k].bindings : /\ b[2] \in SharedJoinAliases
                                              /\ b[1] \in items[k].dependsOn
                                              /\ b[1] \in StrictIds(items)}
      new(k, j, keys) == {b[2] : b \in {c \in usable(k) : j = k \/ items[j].id = c[1]}}
                           \ Range1(keys)
      grown[k \in 0 .. Len(items)] ==
        [j \in DOMAIN items |->
           IF k = 0 THEN items[j].joinKeys
           ELSE grown[k - 1][j] \o InSomeOrder(new(k, j, grown[k - 1][j]))]
  IN  grown[Len(items)]

merge_binding_join_keys(items) ==
  [j \in DOMAIN items |-> [items[j] EXCEPT !.joinKeys = restored_join_keys(items)[j]]]

strict_bom_route(items) ==
  /\ [i \in DOMAIN items |-> items[i].tool] = <<"graph", "sql">>
  /\ items[2].dependsOn = {items[1].id}
  /\ \A i \in 1 .. 2 : items[i].joinKeys = <<ComponentId>>
  /\ items[2].bindings = {<<items[1].id, ComponentId, TRUE>>}

\* One unambiguous quantity with a counter, or 0.
explicit_production_quantity(quantities) ==
  IF Cardinality(quantities) = 1 THEN CHOOSE q \in quantities : TRUE ELSE 0

\* parse_route_draft: the ordered items, or Rejected.
strict_parse_route(doc, quantities, recover) ==
  LET items == strict_validate_route(IF recover THEN merge_binding_join_keys(doc.items)
                                     ELSE doc.items)
      stated == explicit_production_quantity(quantities)
  IN  IF /\ items # Rejected
         /\ DistinctField(items, LAMBDA x : x.tool)
         /\ [i \in DOMAIN items |-> items[i].tool] = doc.tool_plan
         /\ doc.qty # 0 => (stated = 0 \/ stated = doc.qty) /\ strict_bom_route(items)
        THEN items
        ELSE Rejected

\* The occurrences of number n in the questions of all items.
Planned(items, n) ==
  LET upto[i \in 0 .. Len(items)] == IF i = 0 THEN 0 ELSE upto[i - 1] + items[i].numbers[n]
  IN  upto[Len(items)]

\* _validate_numeric_condition_preservation: what the question says more often
\* than the names of the entities in it explain, the items say as well.
numeric_conditions_kept(question, named, items) ==
  \A n \in Numbers : question[n] <= named[n] + Planned(items, n)

-----------------------------------------------------------------------------
(***************************************************************************)
(* Output planning.                                                        *)
(***************************************************************************)
\* What other items bind to.
strict_outgoing(items, id) ==
  UNION {{b[2] : b \in {c \in items[i].bindings : c[1] = id}} : i \in DOMAIN items}

strict_with_required_outputs(items, item, selected) ==
  selected \cup Range1(item.joinKeys) \cup strict_outgoing(items, item.id)

strict_validate_subqueries(items) ==
  IF /\ items # <<>>
     /\ \A i \in DOMAIN items :
          /\ items[i].outputs # {}
          /\ Range1(items[i].joinKeys) \subseteq items[i].outputs
          /\ items[i].dependsOn \subseteq StrictIds(items) \ {items[i].id}
          /\ items[i].dependsOn = {b[1] : b \in items[i].bindings}
          /\ \A b \in items[i].bindings :
               b[2] \in items[Producer(items, b[1])].outputs
          /\ items[i].dependsOn # {} =>
               \A k \in Range1(items[i].joinKeys) : \E d \in items[i].dependsOn :
                 k \in items[Producer(items, d)].outputs
     /\ DistinctField(items, LAMBDA x : x.id)
    THEN Keyed(Ordered(items))
    ELSE Rejected

strict_transform_valid(items) ==
  /\ strict_bom_route(items)
  /\ \A i \in DOMAIN items : items[i].outputs = TransformOutputs[items[i].tool]

=============================================================================
