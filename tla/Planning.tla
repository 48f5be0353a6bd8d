------------------------------ MODULE Planning ------------------------------
(***************************************************************************)
(* The structural contract of routes and execution plans,                  *)
(* orchestrator/planning.py.  A route item is a record                     *)
(*                                                                         *)
(*   [id, tool, dependsOn : set of ids, joinKeys : sequence of aliases,    *)
(*    bindings : set of <<producer id, alias>>]                            *)
(*                                                                         *)
(* and an execution item has in addition the set outputs (requiredOutputs).*)
(* The target names of bindings and the questions are left out, and so is  *)
(* the shape of the JSON document: a document of the wrong shape is        *)
(* Malformed.                                                              *)
(***************************************************************************)
EXTENDS QueryFailures, Sequences, FiniteSets

CONSTANTS
  Aliases,       \* tool |-> the output aliases the semantic catalog gives it
  SharedJoinAliases,
  ComponentId,   \* the join alias of the bom_shortage_v1 transform
  TransformOutputs  \* tool |-> required outputs of that transform

\* The catalog loader intersects the identity aliases of the two sources to get
\* the shared join aliases, and checks the outputs of a transform.
ASSUME CatalogAssumption ==
  /\ DOMAIN Aliases = ToolNames /\ DOMAIN TransformOutputs = ToolNames
  /\ \A t \in ToolNames : SharedJoinAliases \subseteq Aliases[t]
  /\ ComponentId \in SharedJoinAliases
  /\ \A t \in ToolNames : /\ ComponentId \in TransformOutputs[t]
                          /\ TransformOutputs[t] \subseteq Aliases[t]

MAX_SUBQUERIES == 2

Malformed == <<>>
Rejected  == <<>>

Range1(s) == {s[i] : i \in DOMAIN s}

\* The items numbered in set, in their order.
Pick(items, set) ==
  LET upto[k \in 0 .. Len(items)] ==
        IF k = 0 THEN <<>>
        ELSE IF k \in set THEN Append(upto[k - 1], items[k]) ELSE upto[k - 1]
  IN  upto[Len(items)]

\* _topological_order: round by round, the items all of whose dependencies were
\* taken in earlier rounds, in the order given.  It stops short if there is a
\* cycle.
topological_order(items) ==
  LET Ids(set) == {items[i].id : i \in set}
      ready(left) == {i \in left : items[i].dependsOn
                                     \subseteq Ids(DOMAIN items \ left)}
      rounds[left \in SUBSET DOMAIN items] ==
        IF ready(left) = {}
          THEN <<>>
          ELSE Pick(items, ready(left)) \o rounds[left \ ready(left)]
  IN  rounds[DOMAIN items]

\* Mutant: a cycle is not noticed, the items are kept in the order given.
Ordered_CyclePasses(items) ==
  IF Len(topological_order(items)) = Len(items) THEN topological_order(items) ELSE items

\* The order, or Rejected for a cycle.
Ordered(items) ==
  IF Len(topological_order(items)) = Len(items) THEN topological_order(items) ELSE Rejected

DistinctField(items, F(_)) ==
  \A i, j \in DOMAIN items : F(items[i]) = F(items[j]) => i = j

Producer(items, id) == CHOOSE i \in DOMAIN items : items[i].id = id

\* What both validators ask of the dependencies of every item.
DependenciesBound(items) ==
  \A i \in DOMAIN items :
    /\ items[i].dependsOn \subseteq {items[j].id : j \in DOMAIN items \ {i}}
    /\ {b[1] : b \in items[i].bindings} = items[i].dependsOn

\* Mutant: the join keys of the two sources are not compared.
JoinKeysAgree_Always(items) == TRUE

\* Join keys are on both sources or neither, with the same ordered aliases.
JoinKeysAgree(items) ==
  Len(items) = 2 => items[1].joinKeys = items[2].joinKeys

\* validate_route_subqueries: the route in execution order, or Rejected.
validate_route_subqueries(items) ==
  IF /\ Len(items) \in 1 .. MAX_SUBQUERIES
     /\ \A i \in DOMAIN items :
          /\ Range1(items[i].joinKeys) \subseteq SharedJoinAliases
          /\ DistinctField(items[i].joinKeys, LAMBDA k : k)
     /\ DistinctField(items, LAMBDA x : x.id)
     /\ DistinctField(items, LAMBDA x : x.tool)
     /\ DependenciesBound(items)
     /\ \A i \in DOMAIN items : \A b \in items[i].bindings :
          b[2] \in Aliases[items[Producer(items, b[1])].tool]
     /\ JoinKeysAgree(items)
    THEN Ordered(items)
    ELSE Rejected

\* _validate_bom_shortage_route, on an ordered route.
bom_shortage_route(items) ==
  /\ [i \in DOMAIN items |-> items[i].tool] = <<"graph", "sql">>
  /\ items[2].dependsOn = {items[1].id}
  /\ \A i \in 1 .. 2 : items[i].joinKeys = <<ComponentId>>
  /\ items[2].bindings = {<<items[1].id, ComponentId>>}

\* validate_subqueries: the same structure, and every alias that execution
\* needs is among the required outputs.
validate_subqueries(items) ==
  IF /\ Len(items) \in 1 .. MAX_SUBQUERIES
     /\ \A i \in DOMAIN items :
          /\ items[i].outputs # {}
          /\ Range1(items[i].joinKeys) \subseteq items[i].outputs
     /\ DistinctField(items, LAMBDA x : x.id)
     /\ DistinctField(items, LAMBDA x : x.tool)
     /\ DependenciesBound(items)
     /\ \A i \in DOMAIN items : \A b \in items[i].bindings :
          b[2] \in items[Producer(items, b[1])].outputs
     /\ JoinKeysAgree(items)
    THEN Ordered(items)
    ELSE Rejected

\* validate_result_transform for the only transform there is.
transform_valid(items) ==
  /\ bom_shortage_route(items)
  /\ \A i \in DOMAIN items : items[i].outputs = TransformOutputs[items[i].tool]

-----------------------------------------------------------------------------
(***************************************************************************)
(* What execute_plan takes over from planning: a plan as a sequence of     *)
(* [tool, dependsOn : set of tools].  Tools are distinct, so a tool        *)
(* identifies its subquery.                                                *)
(***************************************************************************)
ExecutionView(items) ==
  [i \in DOMAIN items |->
     [tool |-> items[i].tool,
      dependsOn |-> {items[Producer(items, d)].tool : d \in items[i].dependsOn}]]
=============================================================================
