----------------------------- MODULE MCPlanQuery -----------------------------
(***************************************************************************)
(* PlanQuery on routes of up to two items, and one of three, over a        *)
(* catalog with a shared alias, an alias of its own for each source, and   *)
(* all the ways two items can depend on, bind to or repeat each other.     *)
(***************************************************************************)
EXTENDS PlanQuery

MCAliases == [sql |-> {"componentId", "stock"}, graph |-> {"componentId", "depth"}]

MCShared == {"componentId"}

MCTransformOutputs ==
  [sql |-> {"componentId", "stock"}, graph |-> {"componentId", "depth"}]

MCItems ==
  [id : {"a", "b"}, tool : ToolNames, dependsOn : SUBSET {"a", "b"},
   joinKeys : {<<>>, <<"componentId">>, <<"stock">>},
   bindings : SUBSET ({"a", "b"} \X {"componentId", "stock"})]

\* In pairs the first item is called a, and an item binds to one alias at most.
MCPairs ==
  {<<x, y>> : x \in {i \in MCItems : i.id = "a" /\ Cardinality(i.bindings) < 2},
              y \in {i \in MCItems : Cardinality(i.bindings) < 2}}

MCTriple ==
  <<[id |-> "a", tool |-> "sql", dependsOn |-> {}, joinKeys |-> <<>>,
     bindings |-> {}],
    [id |-> "b", tool |-> "graph", dependsOn |-> {}, joinKeys |-> <<>>,
     bindings |-> {}],
    [id |-> "c", tool |-> "sql", dependsOn |-> {"a"}, joinKeys |-> <<>>,
     bindings |-> {<<"a", "stock">>}]>>

MCRouteDrafts ==
  {Malformed, MCTriple} \cup {<<x>> : x \in MCItems} \cup MCPairs
=============================================================================
