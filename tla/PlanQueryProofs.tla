-------------------------- MODULE PlanQueryProofs --------------------------
(***************************************************************************)
(* A route that route_query accepts gets through plan_outputs: its two     *)
(* validators never raise a ValueError, and the plan can be executed, asks *)
(* every source for what is joined or handed over, and uses the sources    *)
(* the wording of the question requires; for every catalog and every set   *)
(* of routes the model may answer with.                                    *)
(***************************************************************************)
EXTENDS PlanQuery, PlanningProofs, TLAPS

-----------------------------------------------------------------------------
(***************************************************************************)
(* What both validators establish, and what ordering keeps of it.          *)
(***************************************************************************)

\* One or two items with distinct ids and tools.
Paired(items) ==
  /\ items = [i \in DOMAIN items |-> items[i]]
  /\ DOMAIN items = 1 .. Len(items) /\ Len(items) \in {1, 2}
  /\ \A i \in DOMAIN items : items[i].tool \in ToolNames
  /\ \A i, j \in DOMAIN items : items[i].id = items[j].id => i = j
  /\ \A i, j \in DOMAIN items : items[i].tool = items[j].tool => i = j

\* Each depends only on earlier ones.
Forward(items) ==
  \A i \in DOMAIN items : items[i].dependsOn \subseteq {items[j].id : j \in 1 .. (i - 1)}

\* Everything that is bound comes from a dependency, and join keys agree.
Bound(items) ==
  /\ \A i \in DOMAIN items : {b[1] : b \in items[i].bindings} = items[i].dependsOn
  /\ JoinKeysAgree(items)

Sound(items) == Paired(items) /\ Forward(items) /\ Bound(items)

\* q puts items into the order of their dependencies.
Permutes(items, q) ==
  /\ DOMAIN q = DOMAIN items /\ Range1(q) = DOMAIN items
  /\ \A i, j \in DOMAIN q : q[i] = q[j] => i = j
  /\ Ordered(items) = [k \in DOMAIN items |-> items[q[k]]]
  /\ \A k \in DOMAIN q :
       items[q[k]].dependsOn \subseteq {items[q[j]].id : j \in 1 .. (k - 1)}

LEMMA OrderedPermutes ==
  ASSUME NEW items, Paired(items), Ordered(items) # Rejected
  PROVE  \E q \in Seq(DOMAIN items) : Permutes(items, q)
<1>1. Len(items) \in Nat /\ DOMAIN items = 1 .. Len(items) /\ items # <<>>
  BY DEF Paired
<1>. QED BY <1>1, OrderedSound DEF Permutes

\* Ordering keeps the items and what holds of all of them, and puts them in the
\* order of their dependencies.
LEMMA OrderedKeeps ==
  ASSUME NEW items, Paired(items), Bound(items), Ordered(items) # Rejected
  PROVE  /\ Sound(Ordered(items)) /\ Len(Ordered(items)) = Len(items)
         /\ \A i \in DOMAIN Ordered(items) : \E j \in DOMAIN items : Ordered(items)[i] = items[j]
         /\ \A j \in DOMAIN items : \E i \in DOMAIN Ordered(items) : Ordered(items)[i] = items[j]
<1>. DEFINE r == Ordered(items)
<1>1. PICK q \in Seq(DOMAIN items) : Permutes(items, q)
  BY OrderedPermutes
<1>1a. /\ DOMAIN q = DOMAIN items /\ Range1(q) = DOMAIN items
       /\ \A i, j \in DOMAIN q : q[i] = q[j] => i = j
       /\ r = [k \in DOMAIN items |-> items[q[k]]]
       /\ \A k \in DOMAIN q :
            items[q[k]].dependsOn \subseteq {items[q[j]].id : j \in 1 .. (k - 1)}
  BY <1>1 DEF Permutes
<1>. HIDE DEF r
<1>2. /\ DOMAIN items = 1 .. Len(items) /\ Len(items) \in {1, 2}
      /\ \A k \in DOMAIN items : q[k] \in DOMAIN items /\ r[k] = items[q[k]]
      /\ DOMAIN r = DOMAIN items
  BY <1>1a DEF Paired
<1>3. Len(r) = Len(items)
  BY <1>1a, <1>2
<1>4. Paired(r)
  BY <1>1a, <1>2, <1>3 DEF Paired
<1>5. Forward(r)
  <2>. SUFFICES ASSUME NEW k \in DOMAIN r, NEW d \in r[k].dependsOn
                PROVE  d \in {r[j].id : j \in 1 .. (k - 1)}
    BY DEF Forward
  <2>1. PICK j \in 1 .. (k - 1) : d = items[q[j]].id
    BY <1>1a, <1>2
  <2>2. j \in DOMAIN items
    BY <1>2
  <2>. QED BY <1>2, <2>1, <2>2
<1>6. Bound(r)
  <2>1. \A i \in DOMAIN r : {b[1] : b \in r[i].bindings} = r[i].dependsOn
    BY <1>2 DEF Bound
  <2>2. JoinKeysAgree(r)
    BY <1>2, <1>3 DEF Bound, JoinKeysAgree
  <2>. QED BY <2>1, <2>2 DEF Bound
<1>7. \A j \in DOMAIN items : \E i \in DOMAIN r : r[i] = items[j]
  <2>. SUFFICES ASSUME NEW j \in DOMAIN items PROVE \E i \in DOMAIN r : r[i] = items[j]
    OBVIOUS
  <2>1. PICK i \in DOMAIN q : j = q[i]
    BY <1>1a DEF Range1
  <2>. QED BY <1>1a, <1>2, <2>1
<1>. QED BY <1>2, <1>3, <1>4, <1>5, <1>6, <1>7 DEF Sound, r

\* Items that are in order already are not refused for a cycle,
LEMMA ForwardOrders ==
  ASSUME NEW items, Paired(items), Forward(items)
  PROVE  Ordered(items) # Rejected
<1>. SUFFICES ASSUME Ordered(items) = Rejected PROVE FALSE
  OBVIOUS
<1>1. Len(items) \in Nat /\ DOMAIN items = 1 .. Len(items) /\ items # <<>>
  BY DEF Paired
<1>2. PICK C \in (SUBSET DOMAIN items) \ {{}} :
        \A i \in C : ~(items[i].dependsOn \subseteq {items[j].id : j \in DOMAIN items \ C})
  BY <1>1, OrderedSound
<1>3. C \subseteq {1, 2}
  BY <1>1, <1>2 DEF Paired
<1>4. 1 \notin C
  BY <1>2 DEF Forward, Paired
<1>5. C = {2} /\ 1 \in DOMAIN items \ C /\ 2 \in DOMAIN items
  BY <1>1, <1>2, <1>3, <1>4 DEF Paired
<1>6. items[2].dependsOn \subseteq {items[1].id}
  BY <1>5 DEF Forward
<1>. QED BY <1>2, <1>5, <1>6

\* and stay as they are if the second needs the first.
LEMMA ForwardStays ==
  ASSUME NEW items, Paired(items), Forward(items), bom_shortage_route(items)
  PROVE  Ordered(items) = items
<1>1. PICK q \in Seq(DOMAIN items) : Permutes(items, q)
  BY ForwardOrders, OrderedPermutes
<1>2. DOMAIN items = 1 .. 2
  <2>1. DOMAIN [i \in DOMAIN items |-> items[i].tool] = DOMAIN <<"graph", "sql">>
    BY DEF bom_shortage_route
  <2>. QED BY <2>1
<1>3. q[1] \in {1, 2} /\ q[2] \in {1, 2} /\ q[1] # q[2]
  BY <1>1, <1>2 DEF Permutes
<1>4. q[1] # 2
  <2>1. items[q[1]].dependsOn = {}
    BY <1>1, <1>2 DEF Permutes
  <2>. QED BY <2>1 DEF bom_shortage_route
<1>5. \A k \in DOMAIN items : items[q[k]] = items[k]
  BY <1>2, <1>3, <1>4
<1>6. items = [k \in DOMAIN items |-> items[k]]
  BY DEF Paired
<1>. QED BY <1>1, <1>5, <1>6 DEF Permutes

-----------------------------------------------------------------------------
(***************************************************************************)
(* route_query.                                                            *)
(***************************************************************************)

\* The sources own what is joined and what is bound.
Owned(items) ==
  /\ \A i \in DOMAIN items : Range1(items[i].joinKeys) \subseteq SharedJoinAliases
  /\ \A i, j \in DOMAIN items : \A b \in items[i].bindings :
       items[j].id = b[1] => b[2] \in Aliases[items[j].tool]

\* The sources the wording of the question requires, unless there is a transform.
Evidence(items, t) ==
  expected # {} /\ ~t => {items[i].tool : i \in DOMAIN items} = expected

RouteSound(items, t) ==
  /\ Sound(items) /\ Owned(items) /\ Evidence(items, t)
  /\ t => bom_shortage_route(items)

LEMMA RouteIsSound ==
  ASSUME NEW draft \in RouteDrafts, NEW t, RouteAccepted(draft, t)
  PROVE  RouteSound(validate_route_subqueries(draft), t)
<1>. DEFINE items == validate_route_subqueries(draft)
<1>1. /\ DOMAIN draft = 1 .. Len(draft) /\ Len(draft) \in Nat
      /\ draft = [i \in DOMAIN draft |-> draft[i]]
      /\ \A i \in DOMAIN draft : draft[i].tool \in ToolNames
  BY RouteDraftsAssumption
<1>2. items # Rejected /\ (t => bom_shortage_route(items)) /\ ~sources_conflict(items, t)
  BY DEF RouteAccepted
<1>3. /\ Len(draft) \in 1 .. MAX_SUBQUERIES
      /\ \A i \in DOMAIN draft : Range1(draft[i].joinKeys) \subseteq SharedJoinAliases
      /\ \A i, j \in DOMAIN draft : draft[i].id = draft[j].id => i = j
      /\ \A i, j \in DOMAIN draft : draft[i].tool = draft[j].tool => i = j
      /\ DependenciesBound(draft)
      /\ \A i \in DOMAIN draft : \A b \in draft[i].bindings :
           b[2] \in Aliases[draft[Producer(draft, b[1])].tool]
      /\ JoinKeysAgree(draft)
      /\ items = Ordered(draft)
  BY <1>2 DEF validate_route_subqueries, DistinctField
<1>. HIDE DEF items
<1>4. Paired(draft)
  BY <1>1, <1>3 DEF Paired, MAX_SUBQUERIES
<1>5. Bound(draft)
  BY <1>3 DEF Bound, DependenciesBound
<1>6. Owned(draft)
  <2>1. \A j \in DOMAIN draft : Producer(draft, draft[j].id) = j
    BY <1>3 DEF Producer
  <2>. QED BY <1>3, <2>1 DEF Owned
<1>7. /\ Sound(items) /\ Len(items) = Len(draft)
      /\ \A i \in DOMAIN items : \E j \in DOMAIN draft : items[i] = draft[j]
  BY <1>2, <1>3, <1>4, <1>5, OrderedKeeps
<1>8. Owned(items)
  <2>1. \A i \in DOMAIN items : Range1(items[i].joinKeys) \subseteq SharedJoinAliases
    BY <1>6, <1>7 DEF Owned
  <2>2. ASSUME NEW i \in DOMAIN items, NEW j \in DOMAIN items, NEW b \in items[i].bindings,
               items[j].id = b[1]
        PROVE  b[2] \in Aliases[items[j].tool]
    BY <1>6, <1>7, <2>2 DEF Owned
  <2>. QED BY <2>1, <2>2 DEF Owned
<1>9. Evidence(items, t)
  BY <1>2 DEF Evidence, sources_conflict
<1>. QED BY <1>2, <1>7, <1>8, <1>9 DEF RouteSound, items

-----------------------------------------------------------------------------
(***************************************************************************)
(* plan_one.                                                               *)
(***************************************************************************)
LEMMA ItemOfTool ==
  ASSUME Paired(route), NEW i \in DOMAIN route
  PROVE  Item(route[i].tool) = route[i]
<1>1. (CHOOSE j \in DOMAIN route : route[j].tool = route[i].tool) = i
  BY DEF Paired
<1>. QED BY <1>1 DEF Item

\* What later items bind to, and the join keys, the source owns.
LEMMA NeedsOwned ==
  ASSUME RouteSound(route, transform), NEW t \in RouteTools
  PROVE  /\ Range1(Item(t).joinKeys) \cup outgoing(t) \subseteq Aliases[t]
         /\ transform => Range1(Item(t).joinKeys) \cup outgoing(t) \subseteq TransformOutputs[t]
<1>1. PICK i \in DOMAIN route : t = route[i].tool
  BY DEF RouteTools
<1>2. Item(t) = route[i] /\ t \in ToolNames
  BY <1>1, ItemOfTool DEF RouteSound, Sound, Paired
<1>3. Range1(Item(t).joinKeys) \subseteq Aliases[t]
  BY <1>2, CatalogAssumption DEF RouteSound, Owned
<1>4. ASSUME NEW a \in outgoing(t)
      PROVE  \E j \in DOMAIN route : \E b \in route[j].bindings : b[1] = route[i].id /\ b[2] = a
  BY <1>2, <1>4 DEF outgoing
<1>5. outgoing(t) \subseteq Aliases[t]
  <2>. SUFFICES ASSUME NEW a \in outgoing(t) PROVE a \in Aliases[t]
    OBVIOUS
  <2>1. PICK j \in DOMAIN route : \E b \in route[j].bindings : b[1] = route[i].id /\ b[2] = a
    BY <1>4
  <2>2. PICK b \in route[j].bindings : b[1] = route[i].id /\ b[2] = a
    BY <2>1
  <2>. QED BY <1>1, <2>2 DEF RouteSound, Owned
<1>6. ASSUME transform
      PROVE  Range1(Item(t).joinKeys) \cup outgoing(t) \subseteq TransformOutputs[t]
  <2>1. DOMAIN route = 1 .. 2
    <3>1. DOMAIN [k \in DOMAIN route |-> route[k].tool] = DOMAIN <<"graph", "sql">>
      BY <1>6 DEF RouteSound, bom_shortage_route
    <3>. QED BY <3>1
  <2>2. route[i].joinKeys = <<ComponentId>>
    BY <1>6, <2>1 DEF RouteSound, bom_shortage_route
  <2>3. Range1(Item(t).joinKeys) = {ComponentId}
    BY <1>2, <2>2 DEF Range1
  <2>4. outgoing(t) \subseteq {ComponentId}
    <3>. SUFFICES ASSUME NEW a \in outgoing(t) PROVE a = ComponentId
      OBVIOUS
    <3>1. PICK j \in DOMAIN route : \E b \in route[j].bindings : b[1] = route[i].id /\ b[2] = a
      BY <1>4
    <3>2. PICK b \in route[j].bindings : b[1] = route[i].id /\ b[2] = a
      BY <3>1
    <3>3. j # 1
      <4>1. route[1].dependsOn = {}
        BY <2>1 DEF RouteSound, Sound, Forward
      <4>2. {c[1] : c \in route[1].bindings} = {}
        BY <2>1, <4>1 DEF RouteSound, Sound, Bound
      <4>. QED BY <3>2, <4>2
    <3>4. route[j].bindings = {<<route[1].id, ComponentId>>}
      BY <1>6, <2>1, <3>3 DEF RouteSound, bom_shortage_route
    <3>. QED BY <3>2, <3>4
  <2>. QED BY <1>2, <2>3, <2>4, CatalogAssumption
<1>. QED BY <1>3, <1>5, <1>6

\* The outputs that plan_one returned for t.
PlannedFor(t) ==
  /\ planned[t] # {}
  /\ Range1(Item(t).joinKeys) \cup outgoing(t) \subseteq planned[t]
  /\ transform => planned[t] = TransformOutputs[t]

LEMMA SelectionFinal ==
  ASSUME RouteSound(route, transform), transform \in BOOLEAN, NEW t \in RouteTools,
         t \in ToolNames, NEW selected \in Selections(t)
  PROVE  /\ Finalizable(t, selected)
         /\ finalize_required_outputs(t, selected) # {}
         /\ Range1(Item(t).joinKeys) \cup outgoing(t)
              \subseteq finalize_required_outputs(t, selected)
         /\ transform => finalize_required_outputs(t, selected) = TransformOutputs[t]
<1>1. /\ selected \subseteq Aliases[t] /\ selected # {}
      /\ transform => selected = TransformOutputs[t]
  <2>1. CASE transform
    <3>1. selected = TransformOutputs[t]
      BY <2>1 DEF Selections
    <3>. QED BY <3>1, CatalogAssumption
  <2>2. CASE ~transform
    BY <2>2 DEF Selections
  <2>. QED BY <2>1, <2>2
<1>. DEFINE needs == Range1(Item(t).joinKeys) \cup outgoing(t)
<1>2. needs \subseteq Aliases[t] /\ (transform => needs \subseteq TransformOutputs[t])
  BY NeedsOwned
<1>3. /\ finalize_required_outputs(t, selected) = selected \cup needs
      /\ Finalizable(t, selected) <=> selected \cup needs \subseteq Aliases[t]
  BY DEF finalize_required_outputs, Finalizable
<1>. QED BY <1>1, <1>2, <1>3

-----------------------------------------------------------------------------
(***************************************************************************)
(* The end of plan_outputs.                                                *)
(***************************************************************************)

\* A plan: a sound route whose outputs are what is joined and handed over.
PlanSound(items) ==
  /\ Sound(items)
  /\ \A i, j \in DOMAIN items : Range1(items[i].joinKeys) \subseteq items[j].outputs
  /\ \A i, j \in DOMAIN items : \A b \in items[i].bindings :
       items[j].id = b[1] => b[2] \in items[j].outputs
  /\ Evidence(items, transform)

\* The planned items pass both validators.
LEMMA PlannedItemsPass ==
  ASSUME RouteSound(route, transform), transform \in BOOLEAN,
         \A t \in RouteTools : PlannedFor(t)
  PROVE  LET items == validate_subqueries(PlannedItems) IN
         /\ items # Rejected /\ (transform => transform_valid(items))
         /\ PlanSound(items)
<1>. DEFINE items == PlannedItems
<1>1. Sound(route) /\ Paired(route)
  BY DEF RouteSound, Sound
<1>2. /\ DOMAIN items = DOMAIN route /\ items = [i \in DOMAIN items |-> items[i]]
      /\ \A i \in DOMAIN route :
           /\ items[i].id = route[i].id /\ items[i].tool = route[i].tool
           /\ items[i].dependsOn = route[i].dependsOn
           /\ items[i].joinKeys = route[i].joinKeys
           /\ items[i].bindings = route[i].bindings
           /\ items[i].outputs = planned[route[i].tool]
  BY DEF PlannedItems
<1>3. ASSUME NEW i \in DOMAIN route
      PROVE  /\ items[i].outputs # {}
             /\ Range1(items[i].joinKeys) \cup outgoing(route[i].tool) \subseteq items[i].outputs
             /\ transform => items[i].outputs = TransformOutputs[items[i].tool]
             /\ Item(route[i].tool) = route[i]
  <2>1. route[i].tool \in RouteTools
    BY DEF RouteTools
  <2>2. Item(route[i].tool) = route[i]
    BY <1>1, ItemOfTool
  <2>. QED BY <1>2, <2>1, <2>2 DEF PlannedFor
<1>. HIDE DEF items
<1>4. DOMAIN route = 1 .. Len(route) /\ Len(route) \in {1, 2} /\ Len(items) = Len(route)
  BY <1>1, <1>2 DEF Paired
<1>5. Paired(items)
  BY <1>1, <1>2, <1>4 DEF Paired
<1>6. Forward(items)
  <2>. SUFFICES ASSUME NEW i \in DOMAIN items
                PROVE  items[i].dependsOn \subseteq {items[j].id : j \in 1 .. (i - 1)}
    BY DEF Forward
  <2>1. \A j \in 1 .. (i - 1) : items[j].id = route[j].id
    BY <1>2, <1>4
  <2>. QED BY <1>1, <1>2, <2>1 DEF Sound, Forward
<1>7. Bound(items)
  <2>1. JoinKeysAgree(items)
    BY <1>1, <1>2, <1>4 DEF Sound, Bound, JoinKeysAgree
  <2>. QED BY <1>1, <1>2, <2>1 DEF Sound, Bound
\* A bound alias is among the producer's outputs.
<1>8. ASSUME NEW i \in DOMAIN items, NEW j \in DOMAIN items, NEW b \in items[i].bindings,
             items[j].id = b[1]
      PROVE  b[2] \in items[j].outputs
  <2>1. b \in {c \in route[i].bindings : c[1] = Item(route[j].tool).id}
    BY <1>2, <1>3, <1>8
  <2>2. b[2] \in outgoing(route[j].tool)
    BY <1>2, <2>1 DEF outgoing
  <2>. QED BY <1>2, <1>3, <2>2
\* Join keys of one are outputs of both.
<1>9. \A i, j \in DOMAIN items : Range1(items[i].joinKeys) \subseteq items[j].outputs
  <2>. SUFFICES ASSUME NEW i \in DOMAIN items, NEW j \in DOMAIN items
                PROVE  Range1(items[i].joinKeys) \subseteq items[j].outputs
    OBVIOUS
  <2>1. items[i].joinKeys = items[j].joinKeys
    <3>1. i \in 1 .. Len(items) /\ j \in 1 .. Len(items) /\ Len(items) \in {1, 2}
      BY <1>2, <1>4
    <3>2. CASE Len(items) = 2
      BY <1>7, <3>1, <3>2 DEF Bound, JoinKeysAgree
    <3>. QED BY <3>1, <3>2
  <2>. QED BY <1>2, <1>3, <2>1
<1>10. DependenciesBound(items)
  <2>. SUFFICES ASSUME NEW i \in DOMAIN items
                PROVE  items[i].dependsOn \subseteq {items[j].id : j \in DOMAIN items \ {i}}
    BY <1>7 DEF DependenciesBound, Bound
  <2>1. 1 .. (i - 1) \subseteq DOMAIN items \ {i}
    BY <1>2, <1>4
  <2>. QED BY <1>6, <2>1 DEF Forward
<1>11. validate_subqueries(items) = Ordered(items)
  <2>1. /\ Len(items) \in 1 .. MAX_SUBQUERIES
        /\ DistinctField(items, LAMBDA x : x.id)
        /\ DistinctField(items, LAMBDA x : x.tool)
    BY <1>4, <1>5 DEF Paired, DistinctField, MAX_SUBQUERIES
  <2>2. \A i \in DOMAIN items : /\ items[i].outputs # {}
                                /\ Range1(items[i].joinKeys) \subseteq items[i].outputs
    BY <1>2, <1>3
  <2>3. ASSUME NEW i \in DOMAIN items, NEW b \in items[i].bindings
        PROVE  b[2] \in items[Producer(items, b[1])].outputs
    <3>1. b[1] \in items[i].dependsOn
      BY <1>7 DEF Bound
    <3>2. \E j \in DOMAIN items : items[j].id = b[1]
      BY <1>10, <3>1 DEF DependenciesBound
    <3>3. Producer(items, b[1]) \in DOMAIN items /\ items[Producer(items, b[1])].id = b[1]
      BY <3>2 DEF Producer
    <3>. QED BY <1>8, <3>3
  <2>4. JoinKeysAgree(items)
    BY <1>7 DEF Bound
  <2>. QED BY <1>10, <2>1, <2>2, <2>3, <2>4 DEF validate_subqueries
<1>. DEFINE r == Ordered(items)
<1>12. /\ Ordered(items) # Rejected /\ Sound(Ordered(items)) /\ Len(Ordered(items)) = Len(items)
       /\ \A i \in DOMAIN Ordered(items) : \E j \in DOMAIN items : Ordered(items)[i] = items[j]
       /\ \A j \in DOMAIN items : \E i \in DOMAIN Ordered(items) : Ordered(items)[i] = items[j]
  BY <1>5, <1>6, <1>7, ForwardOrders, OrderedKeeps
<1>13. /\ r # Rejected /\ Sound(r)
       /\ \A i \in DOMAIN r : \E j \in DOMAIN items : r[i] = items[j]
       /\ \A j \in DOMAIN items : \E i \in DOMAIN r : r[i] = items[j]
  BY <1>12
<1>14. transform => transform_valid(r)
  <2>. SUFFICES ASSUME transform PROVE transform_valid(r)
    OBVIOUS
  <2>1. DOMAIN route = 1 .. 2
    <3>1. DOMAIN [k \in DOMAIN route |-> route[k].tool] = DOMAIN <<"graph", "sql">>
      BY DEF RouteSound, bom_shortage_route
    <3>. QED BY <3>1
  <2>2. bom_shortage_route(items)
    BY <1>2, <2>1 DEF RouteSound, bom_shortage_route
  <2>3. r = items
    BY <1>5, <1>6, <2>2, ForwardStays
  <2>. HIDE DEF r
  <2>. QED BY <1>2, <1>3, <2>2, <2>3 DEF transform_valid
<1>. HIDE DEF r
<1>15. PlanSound(r)
  <2>1. \A i, j \in DOMAIN r : Range1(r[i].joinKeys) \subseteq r[j].outputs
    <3>. SUFFICES ASSUME NEW i \in DOMAIN r, NEW j \in DOMAIN r
                  PROVE  Range1(r[i].joinKeys) \subseteq r[j].outputs
      OBVIOUS
    <3>1. PICK m \in DOMAIN items : r[i] = items[m]
      BY <1>13
    <3>2. PICK n \in DOMAIN items : r[j] = items[n]
      BY <1>13
    <3>. QED BY <1>9, <3>1, <3>2
  <2>2. ASSUME NEW i \in DOMAIN r, NEW j \in DOMAIN r, NEW b \in r[i].bindings, r[j].id = b[1]
        PROVE  b[2] \in r[j].outputs
    <3>1. PICK m \in DOMAIN items : r[i] = items[m]
      BY <1>13
    <3>2. PICK n \in DOMAIN items : r[j] = items[n]
      BY <1>13
    <3>. QED BY <1>8, <2>2, <3>1, <3>2
  <2>3. Evidence(r, transform)
    <3>1. {r[i].tool : i \in DOMAIN r} = {items[i].tool : i \in DOMAIN items}
      BY <1>13
    <3>2. {items[i].tool : i \in DOMAIN items} = {route[i].tool : i \in DOMAIN route}
      BY <1>2
    <3>. QED BY <3>1, <3>2 DEF RouteSound, Evidence
  <2>. QED BY <1>13, <2>1, <2>2, <2>3 DEF PlanSound
<1>16. validate_subqueries(PlannedItems) = r
  BY <1>11 DEF r, items
<1>. QED BY <1>13, <1>14, <1>15, <1>16

-----------------------------------------------------------------------------
(***************************************************************************)
(* The invariant: while plan_outputs works, the route is sound, a task runs *)
(* only for a source of the route, and what finished has planned what the  *)
(* others need of it.                                                      *)
(***************************************************************************)
PlanInv ==
  /\ pc # "value_error" /\ transform \in BOOLEAN
  /\ DOMAIN task = ToolNames /\ DOMAIN planned = ToolNames
  /\ pc = "route" => \A t \in ToolNames : task[t] = "idle"
  /\ pc = "plan" => /\ RouteSound(route, transform)
                    /\ \A t \in ToolNames : task[t] # "idle" => t \in RouteTools
                    /\ \A t \in RouteTools : task[t] = "finished" => PlannedFor(t)
  /\ pc = "done" => PlanSound(plan) /\ \A t \in ToolNames : task[t] # "running"

SafeSpec == Init /\ [][Next]_vars

LEMMA InitPlanInv == Init => PlanInv
BY DEF Init, PlanInv, PlannedFor

LEMMA RouteStepKeeps ==
  ASSUME PlanInv, RouteSucceeds \/ RouteRefused \/ RouteRaises
  PROVE  PlanInv'
<1>1. CASE RouteSucceeds
  <2>1. PICK draft \in RouteDrafts, t \in BOOLEAN :
          /\ RouteAccepted(draft, t) /\ transform' = t
          /\ route' = validate_route_subqueries(draft)
    BY <1>1 DEF RouteSucceeds
  <2>2. RouteSound(route', transform')
    BY <2>1, RouteIsSound
  <2>3. RouteSound(route, transform)'
    BY <1>1, <2>2 DEF RouteSucceeds, RouteSound, Evidence
  <2>4. \A t2 \in ToolNames : task'[t2] = "idle"
    BY <1>1 DEF RouteSucceeds, PlanInv
  <2>5. RouteTools' \subseteq ToolNames
    BY <2>3 DEF RouteTools, RouteSound, Sound, Paired
  <2>. QED BY <1>1, <2>1, <2>3, <2>4, <2>5 DEF RouteSucceeds, PlanInv
<1>2. CASE RouteRefused \/ RouteRaises
  BY <1>2 DEF RouteRefused, RouteRaises, PlanInv
<1>. QED BY <1>1, <1>2

\* The route does not change, nor what is needed of a source.
LEMMA RouteKept ==
  ASSUME UNCHANGED <<transform, expected, route>>
  PROVE  /\ RouteSound(route, transform)' <=> RouteSound(route, transform)
         /\ RouteTools' = RouteTools
         /\ \A t : /\ Item(t)' = Item(t) /\ outgoing(t)' = outgoing(t)
                   /\ planned'[t] = planned[t] => (PlannedFor(t)' <=> PlannedFor(t))
<1>1. RouteSound(route, transform)' <=> RouteSound(route, transform)
  BY DEF RouteSound, Evidence
<1>2. RouteTools' = RouteTools
  BY DEF RouteTools
<1>3. ASSUME NEW t
      PROVE  /\ Item(t)' = Item(t) /\ outgoing(t)' = outgoing(t)
             /\ planned'[t] = planned[t] => (PlannedFor(t)' <=> PlannedFor(t))
  <2>1. Item(t)' = Item(t)
    BY DEF Item
  <2>2. outgoing(t)' = outgoing(t)
    BY <2>1 DEF outgoing
  <2>3. planned'[t] = planned[t] => (PlannedFor(t)' <=> PlannedFor(t))
    BY <2>1, <2>2 DEF PlannedFor
  <2>. QED BY <2>1, <2>2, <2>3
<1>. QED BY <1>1, <1>2, <1>3

LEMMA StartKeeps ==
  ASSUME PlanInv, PlanOneStarts
  PROVE  PlanInv'
<1>1. /\ pc = "plan" /\ UNCHANGED <<pc, transform, expected, route, planned, plan>>
      /\ DOMAIN task' = ToolNames
      /\ \A t \in ToolNames : task'[t] = task[t] \/ (task'[t] = "running" /\ t \in RouteTools)
  BY DEF PlanOneStarts
<1>2. RouteTools \subseteq ToolNames
  BY <1>1 DEF PlanInv, RouteTools, RouteSound, Sound, Paired
<1>. QED BY <1>1, <1>2, RouteKept DEF PlanInv

LEMMA PlanOneKeeps ==
  ASSUME PlanInv, NEW t \in ToolNames, PlanOne(t)
  PROVE  PlanInv'
<1>1. /\ task[t] = "running" /\ pc # "done" /\ pc # "route"
      /\ UNCHANGED <<transform, expected, route, plan>>
  BY DEF PlanOne, PlanOneReturns, PlanOneRefused, PlanOneRaises, PlanInv
<1>2. CASE PlanOneRefused(t) \/ PlanOneRaises(t)
  <2>1. /\ pc' \in {pc, "output_error", "api_error"} /\ planned' = planned
        /\ task' \in {task, [task EXCEPT ![t] = "failed"]}
    BY <1>2 DEF PlanOneRefused, PlanOneRaises
  <2>2. DOMAIN task' = ToolNames /\ \A u \in ToolNames : task'[u] = "idle" => task[u] = "idle"
    BY <1>1, <2>1 DEF PlanInv
  <2>3. \A u \in ToolNames : /\ task'[u] = "finished" => task[u] = "finished"
                             /\ task'[u] # "idle" => task[u] # "idle"
    BY <1>1, <2>1 DEF PlanInv
  <2>4. pc = "plan" => RouteTools \subseteq ToolNames
    BY DEF PlanInv, RouteTools, RouteSound, Sound, Paired
  <2>. QED BY <1>1, <2>1, <2>2, <2>3, <2>4, RouteKept DEF PlanInv
<1>3. CASE PlanOneReturns(t)
  <2>1. CASE pc = "plan"
    <3>1. RouteSound(route, transform) /\ t \in RouteTools /\ RouteTools \subseteq ToolNames
      BY <1>1, <2>1 DEF PlanInv, RouteTools, RouteSound, Sound, Paired
    <3>2. PICK selected \in Selections(t) :
            IF Finalizable(t, selected)
              THEN /\ planned' =
                        [planned EXCEPT ![t] = finalize_required_outputs(t, selected)]
                   /\ task' = [task EXCEPT ![t] = "finished"]
                   /\ UNCHANGED pc
              ELSE /\ task' = [task EXCEPT ![t] = "failed"]
                   /\ pc' = IF pc = "plan" THEN "value_error" ELSE pc
                   /\ UNCHANGED planned
      BY <1>3 DEF PlanOneReturns
    <3>. DEFINE outs == finalize_required_outputs(t, selected)
    <3>3. /\ Finalizable(t, selected) /\ outs # {}
          /\ Range1(Item(t).joinKeys) \cup outgoing(t) \subseteq outs
          /\ transform => outs = TransformOutputs[t]
      BY <3>1, SelectionFinal DEF PlanInv
    <3>. HIDE DEF outs
    <3>4. /\ planned' = [planned EXCEPT ![t] = outs] /\ pc' = pc
          /\ task' = [task EXCEPT ![t] = "finished"]
      BY <3>2, <3>3 DEF outs
    <3>5. /\ planned'[t] = outs /\ DOMAIN planned' = ToolNames /\ DOMAIN task' = ToolNames
          /\ \A u \in ToolNames \ {t} : planned'[u] = planned[u] /\ task'[u] = task[u]
      BY <3>4 DEF PlanInv
    <3>6. /\ RouteSound(route, transform)' /\ RouteTools' = RouteTools
          /\ \A u : Item(u)' = Item(u) /\ outgoing(u)' = outgoing(u)
      BY <1>1, <3>1, RouteKept
    <3>7. PlannedFor(t)'
      BY <1>1, <3>3, <3>5, <3>6 DEF PlannedFor
    <3>8. \A u \in RouteTools \ {t} : task[u] = "finished" => PlannedFor(u)'
      BY <1>1, <2>1, <3>1, <3>5, RouteKept DEF PlanInv
    <3>9. \A u \in RouteTools' : task'[u] = "finished" => PlannedFor(u)'
      BY <3>1, <3>5, <3>6, <3>7, <3>8
    <3>10. \A u \in ToolNames : task'[u] # "idle" => u \in RouteTools'
      BY <2>1, <3>1, <3>5, <3>6 DEF PlanInv
    <3>. QED BY <1>1, <2>1, <3>4, <3>5, <3>6, <3>9, <3>10 DEF PlanInv
  <2>2. CASE pc # "plan"
    <3>1. /\ pc' = pc /\ DOMAIN task' = ToolNames /\ DOMAIN planned' = ToolNames
      BY <1>3, <2>2 DEF PlanOneReturns, PlanInv
    <3>. QED BY <1>1, <2>2, <3>1 DEF PlanInv
  <2>. QED BY <2>1, <2>2
<1>. QED BY <1>2, <1>3 DEF PlanOne

LEMMA ValidateKeeps ==
  ASSUME PlanInv, Validate
  PROVE  PlanInv'
<1>1. /\ pc = "plan" /\ \A t \in RouteTools : task[t] = "finished"
      /\ UNCHANGED <<transform, expected, route, task, planned>>
  BY DEF Validate
<1>2. RouteSound(route, transform) /\ \A t \in RouteTools : PlannedFor(t)
  BY <1>1 DEF PlanInv
<1>. DEFINE items == validate_subqueries(PlannedItems)
<1>3. items # Rejected /\ (transform => transform_valid(items)) /\ PlanSound(items)
  BY <1>2, PlannedItemsPass DEF PlanInv
<1>4. plan' = items /\ pc' = "done"
  BY <1>3 DEF Validate
<1>. HIDE DEF items
<1>5. PlanSound(plan)'
  BY <1>1, <1>3, <1>4 DEF PlanSound, Evidence
<1>6. \A t \in ToolNames : task[t] # "running"
  BY <1>1 DEF PlanInv
<1>. QED BY <1>1, <1>4, <1>5, <1>6 DEF PlanInv

LEMMA NextPlanInv == PlanInv /\ [Next]_vars => PlanInv'
<1>. SUFFICES ASSUME PlanInv, [Next]_vars PROVE PlanInv'
  OBVIOUS
<1>1. CASE UNCHANGED vars
  <2>1. UNCHANGED <<pc, transform, expected, route, task, planned, plan>>
    BY <1>1 DEF vars
  <2>2. PlanSound(plan)' <=> PlanSound(plan)
    BY <2>1 DEF PlanSound, Evidence
  <2>. QED BY <2>1, <2>2, RouteKept DEF PlanInv
<1>. QED BY <1>1, RouteStepKeeps, StartKeeps, PlanOneKeeps, ValidateKeeps DEF Next

\* Planning keeps the invariant: in particular no validator of plan_outputs
\* refuses what route_query accepted.
THEOREM PlanQueryInvariant == FairSpec => []PlanInv
<1>1. FairSpec => SafeSpec
  BY PTL DEF FairSpec, SafeSpec
<1>. QED BY <1>1, InitPlanInv, NextPlanInv, PTL DEF SafeSpec

\* A plan that comes out of plan_outputs is one that execute_plan can run: one
\* subquery per source, each after the ones it depends on.
THEOREM PlanExecutableCorrect == FairSpec => []PlanExecutable
<1>1. PlanInv => PlanExecutable
  <2>. SUFFICES ASSUME PlanInv, pc = "done"
                PROVE  ExecutionView(plan) \in Executable!ExecutionPlanSet
    BY DEF PlanExecutable
  <2>. DEFINE view == ExecutionView(plan)
  <2>1. Paired(plan) /\ Forward(plan)
    BY DEF PlanInv, PlanSound, Sound
  <2>2. /\ DOMAIN plan = 1 .. Len(plan) /\ Len(plan) \in 1 .. 2
        /\ \A i \in DOMAIN plan : plan[i].tool \in ToolNames
        /\ \A i, j \in DOMAIN plan : plan[i].tool = plan[j].tool => i = j
    BY <2>1 DEF Paired
  <2>3. \A j \in DOMAIN plan : Producer(plan, plan[j].id) = j
    BY <2>1 DEF Paired, Producer
  <2>4. ASSUME NEW i \in DOMAIN plan
        PROVE  {plan[Producer(plan, d)].tool : d \in plan[i].dependsOn}
                 \subseteq {plan[j].tool : j \in 1 .. (i - 1)}
    <3>1. 1 .. (i - 1) \subseteq DOMAIN plan
      BY <2>2
    <3>. QED BY <2>1, <2>3, <3>1 DEF Forward
  <2>5. /\ DOMAIN view = 1 .. Len(plan) /\ view = [i \in 1 .. Len(plan) |-> view[i]]
        /\ \A i \in DOMAIN plan :
             /\ view[i] = [tool |-> view[i].tool, dependsOn |-> view[i].dependsOn]
             /\ view[i].tool = plan[i].tool
             /\ view[i].dependsOn = {plan[Producer(plan, d)].tool : d \in plan[i].dependsOn}
    BY <2>2 DEF ExecutionView
  <2>. HIDE DEF view
  <2>6. ASSUME NEW i \in DOMAIN plan
        PROVE  /\ view[i] \in Executable!PlanItem /\ view[i].tool = plan[i].tool
               /\ view[i].dependsOn \subseteq {view[j].tool : j \in 1 .. (i - 1)}
    <3>1. 1 .. (i - 1) \subseteq DOMAIN plan
      BY <2>2
    <3>2. \A j \in 1 .. (i - 1) : view[j].tool = plan[j].tool
      BY <2>5, <3>1
    <3>3. view[i].dependsOn \subseteq {plan[j].tool : j \in 1 .. (i - 1)}
      BY <2>4, <2>5
    <3>4. view[i].dependsOn \subseteq ToolNames
      BY <2>2, <3>1, <3>3
    <3>. QED BY <2>2, <2>5, <3>2, <3>3, <3>4 DEF Executable!PlanItem, Executable!ToolNames, ToolNames
  <2>7. view \in [1 .. Len(plan) -> Executable!PlanItem]
    BY <2>2, <2>5, <2>6
  <2>. QED BY <2>2, <2>5, <2>6, <2>7 DEF Executable!ExecutionPlanSet, view
<1>. QED BY <1>1, PlanQueryInvariant, PTL

\* The join keys and every bound alias are among the outputs that the sources
\* are asked for (finalize_required_outputs).
THEOREM NeededOutputsCorrect == FairSpec => []NeededOutputsPlanned
<1>1. PlanInv => NeededOutputsPlanned
  <2>. SUFFICES ASSUME PlanInv, pc = "done", NEW i \in DOMAIN plan
                PROVE  /\ \A j \in DOMAIN plan : Range1(plan[i].joinKeys) \subseteq plan[j].outputs
                       /\ \A b \in plan[i].bindings :
                            \E j \in 1 .. (i - 1) : plan[j].id = b[1] /\ b[2] \in plan[j].outputs
    BY DEF NeededOutputsPlanned
  <2>1. PlanSound(plan) /\ Sound(plan)
    BY DEF PlanInv, PlanSound
  <2>2. ASSUME NEW b \in plan[i].bindings
        PROVE  \E j \in 1 .. (i - 1) : plan[j].id = b[1] /\ b[2] \in plan[j].outputs
    <3>1. b[1] \in plan[i].dependsOn
      BY <2>1 DEF Sound, Bound
    <3>2. PICK j \in 1 .. (i - 1) : plan[j].id = b[1]
      BY <2>1, <3>1 DEF Sound, Forward
    <3>3. j \in DOMAIN plan
      BY <2>1 DEF Sound, Paired
    <3>. QED BY <2>1, <3>2, <3>3 DEF PlanSound
  <2>. QED BY <2>1, <2>2 DEF PlanSound
<1>. QED BY <1>1, PlanQueryInvariant, PTL

\* An accepted route never ends in an internal error of plan_outputs, and the
\* plan uses the sources the question requires (infer_required_sources).
THEOREM AcceptedRouteCorrect == FairSpec => []AcceptedRouteSound
<1>1. PlanInv => AcceptedRouteSound
  BY DEF PlanInv, PlanSound, Evidence, AcceptedRouteSound, AcceptedRoutePlans,
     EvidenceRespected
<1>. QED BY <1>1, PlanQueryInvariant, PTL
=============================================================================
