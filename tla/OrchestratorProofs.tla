------------------------- MODULE OrchestratorProofs -------------------------
(***************************************************************************)
(* Proofs about one request through the orchestrator graph, for every      *)
(* question, catalog, router answer and budget of the agents: whichever    *)
(* way the strict attempt ends, and wherever it is cut off.                *)
(***************************************************************************)
EXTENDS Orchestrator, PlanningProofs

SafeSpec == Init /\ [][Next]_vars

LEMMA FairIsSafe == FairSpec => SafeSpec
BY PTL DEF FairSpec, SafeSpec

-----------------------------------------------------------------------------
(***************************************************************************)
(* The order of the two paths.                                             *)
(***************************************************************************)

\* Before the strict attempt is decided no strategy is written; the nodes of the
\* second path run only after it was turned down.
Origins ==
  /\ pc \in {"guard_request", "classify_topic", "strict_query"} => strategy = "none"
  /\ pc \in DOMAIN SecondPath => strategy = "pr61"

LEMMA InitOrigins == Init => Origins
BY DEF Init, Origins, SecondPath

LEMMA NextOrigins == Origins /\ [Next]_vars => Origins'
<1>. SUFFICES ASSUME Origins, [Next]_vars PROVE Origins'
  OBVIOUS
<1>. USE DEF Origins
<1>0. DOMAIN SecondPath = {"resolve_entity", "route_query", "plan_outputs",
                           "execute_plan", "compose_results"}
  BY DEF SecondPath
<1>1. CASE guard_request
  BY <1>0, <1>1 DEF guard_request, After
<1>2. CASE classify_topic
  BY <1>0, <1>2 DEF classify_topic, After
<1>3. CASE StrictStarts \/ StrictStep \/ UNCHANGED vars
           \/ \E t \in ToolNames : StrictTaskStep(t)
  BY <1>3 DEF StrictStarts, StrictStep, StrictTaskStep, ovars, vars
<1>4. CASE StrictUnavailable \/ StrictRejected \/ StrictRaised \/ StrictTimeout
  BY <1>0, <1>4 DEF StrictUnavailable, StrictRejected, StrictRaised, StrictTimeout, Fallback
<1>5. CASE StrictAccepted
  BY <1>0, <1>5 DEF StrictAccepted
<1>6. CASE SecondPathNode
  <2>1. pc' \in DOMAIN SecondPath \cup {"generate_answer"}
    BY <1>0, <1>6 DEF SecondPathNode, SecondPath
  <2>. QED BY <1>0, <1>6, <2>1 DEF SecondPathNode
<1>7. CASE SecondPathRaises \/ generate_answer
  BY <1>0, <1>7 DEF SecondPathRaises, generate_answer
<1>. QED BY <1>1, <1>2, <1>3, <1>4, <1>5, <1>6, <1>7 DEF Next

-----------------------------------------------------------------------------
(***************************************************************************)
(* Tasks of the strict attempt.                                            *)
(***************************************************************************)

TaskStates == {"idle", "running", "finished", "returned", "raised"}
PlanTaskStates == {"idle", "first", "second", "done", "failed"}

\* No task runs outside of the gather that started it, unless it was left there
\* by a sibling that raised.
Tasks ==
  /\ task \in [ToolNames -> TaskStates] /\ ptask \in [ToolNames -> PlanTaskStates]
  /\ spc \in {"resolve", "route", "execute", "compose", "returned"} => StrictRunning = {}
  /\ spc = "plan" => \A t \in ToolNames : task[t] # "running"
  /\ spc = "gather" => \A t \in ToolNames : ptask[t] \notin {"first", "second"}
  /\ pc \in {"guard_request", "classify_topic"} => spc = "off"
  /\ pc # "strict_query" => spc \in {"off", "returned"}
  /\ spc = "off" /\ pc \in {"guard_request", "classify_topic", "strict_query"} =>
       StrictRunning = {} /\ \A t \in ToolNames : ptask[t] = "idle"
  /\ spc \in {"resolve", "route"} => \A t \in ToolNames : ptask[t] = "idle"
  /\ NothingLeftRunning

LEMMA InitTasks == Init => Tasks
BY DEF Init, StrictInit, Tasks, TaskStates, PlanTaskStates, StrictRunning, NothingLeftRunning

\* What runs on after the attempt was dropped is what was to be kept.
LEMMA Forgotten ==
  ASSUME NEW S, StrictForgotten(S)
  PROVE  /\ spc' = "off"
         /\ task' \in [ToolNames -> TaskStates] /\ ptask' \in [ToolNames -> PlanTaskStates]
         /\ S = {} => StrictRunning' = {}
BY DEF StrictForgotten, StrictRunning, TaskStates, PlanTaskStates

LEMMA NodeTasks ==
  ASSUME Tasks, pc = "strict_query", StrictNode, pc' = pc, reason' = reason
  PROVE  Tasks'
<1>. USE DEF Tasks, TaskStates, PlanTaskStates, StrictRunning, NothingLeftRunning
<1>1. CASE StrictResolveEntity
  BY <1>1 DEF StrictResolveEntity
<1>2. CASE StrictRoute
  BY <1>2 DEF StrictRoute
<1>3. CASE StrictCallRaises
  BY <1>3 DEF StrictCallRaises
<1>4. CASE StrictPlanStarts
  BY <1>4 DEF StrictPlanStarts
<1>5. CASE StrictPlanEnds
  BY <1>5 DEF StrictPlanEnds
<1>6. CASE StrictStartWave
  BY <1>6 DEF StrictStartWave
<1>7. CASE StrictMergeWave
  BY <1>7 DEF StrictMergeWave
<1>8. CASE StrictExecuteEnds
  BY <1>8 DEF StrictExecuteEnds
<1>9. CASE StrictCompose
  BY <1>9 DEF StrictCompose
<1>. QED BY <1>1, <1>2, <1>3, <1>4, <1>5, <1>6, <1>7, <1>8, <1>9 DEF StrictNode

LEMMA TaskTasks ==
  ASSUME Tasks, NEW t \in ToolNames, StrictTask(t), pc' = pc, reason' = reason
  PROVE  Tasks'
<1>. USE DEF Tasks, TaskStates, PlanTaskStates, StrictRunning, NothingLeftRunning
<1>1. CASE StrictPlanOneReturns(t)
  BY <1>1 DEF StrictPlanOneReturns
<1>2. CASE StrictPlanOneFails(t)
  BY <1>2 DEF StrictPlanOneFails
<1>3. CASE StrictSkips(t)
  BY <1>3 DEF StrictSkips, StrictReturns
<1>4. CASE StrictAgentStep(t)
  BY <1>4 DEF StrictAgentStep
<1>5. CASE StrictToolsStep(t)
  BY <1>5 DEF StrictToolsStep
<1>6. CASE StrictAgentDone(t)
  BY <1>6 DEF StrictAgentDone, StrictReturns
<1>7. CASE StrictAgentRaises(t)
  BY <1>7 DEF StrictAgentRaises
<1>8. CASE StrictOrphanEnds(t)
  BY <1>8 DEF StrictOrphanEnds
<1>. QED BY <1>1, <1>2, <1>3, <1>4, <1>5, <1>6, <1>7, <1>8 DEF StrictTask

LEMMA NextTasks == Tasks /\ [Next]_vars => Tasks'
<1>. SUFFICES ASSUME Tasks, [Next]_vars PROVE Tasks'
  OBVIOUS
<1>1. CASE guard_request \/ classify_topic
  BY <1>1 DEF guard_request, classify_topic, After, svars, Tasks, StrictRunning,
              NothingLeftRunning
<1>2. CASE StrictStarts
  BY <1>2 DEF StrictStarts, ovars, Tasks, StrictRunning, NothingLeftRunning
<1>3. CASE StrictUnavailable
  BY <1>3 DEF StrictUnavailable, Fallback, svars, Tasks, StrictRunning, NothingLeftRunning
<1>4. CASE StrictRejected
  <2>1. StrictForgotten({})
    BY <1>4 DEF StrictRejected, Tasks
  <2>. QED BY <1>4, <2>1, Forgotten DEF StrictRejected, Fallback, Tasks, NothingLeftRunning
<1>5. CASE StrictAccepted
  BY <1>5 DEF StrictAccepted, svars, Tasks, StrictRunning, NothingLeftRunning
<1>6. CASE StrictRaised
  BY <1>6, Forgotten DEF StrictRaised, Fallback, Tasks, NothingLeftRunning
<1>7. CASE StrictTimeout
  BY <1>7, Forgotten DEF StrictTimeout, Fallback, Tasks, NothingLeftRunning
<1>8. CASE StrictStep
  BY <1>8, NodeTasks DEF StrictStep, ovars
<1>9. CASE \E t \in ToolNames : StrictTaskStep(t)
  BY <1>9, TaskTasks DEF StrictTaskStep, ovars
<1>10. CASE SecondPathNode \/ SecondPathRaises \/ generate_answer
  <2>1. pc \notin {"strict_query", "guard_request", "classify_topic"} /\ UNCHANGED <<svars, reason>>
    BY <1>10 DEF SecondPathNode, SecondPathRaises, generate_answer, SecondPath
  <2>2. DOMAIN SecondPath = {"resolve_entity", "route_query", "plan_outputs",
                             "execute_plan", "compose_results"}
    BY DEF SecondPath
  <2>3. CASE SecondPathNode
    BY <2>1, <2>2, <2>3 DEF SecondPathNode, SecondPath, svars, Tasks, StrictRunning,
                            NothingLeftRunning
  <2>4. CASE SecondPathRaises \/ generate_answer
    BY <2>1, <2>4 DEF SecondPathRaises, generate_answer, svars, Tasks, StrictRunning,
                      NothingLeftRunning
  <2>. QED BY <1>10, <2>3, <2>4
<1>11. CASE UNCHANGED vars
  BY <1>11 DEF vars, svars, ovars, Tasks, StrictRunning, NothingLeftRunning
<1>. QED BY <1>1, <1>2, <1>3, <1>4, <1>5, <1>6, <1>7, <1>8, <1>9, <1>10, <1>11 DEF Next

\* Tasks of the strict attempt run on behind the request's back only after a
\* sibling of theirs raised (asyncio.gather, asyncio.timeout).
THEOREM NothingLeftRunningCorrect == FairSpec => []NothingLeftRunning
<1>1. Tasks => NothingLeftRunning
  BY DEF Tasks
<1>. QED BY <1>1, InitTasks, NextTasks, FairIsSafe, PTL DEF SafeSpec

-----------------------------------------------------------------------------
(***************************************************************************)
(* resolve_entity.                                                         *)
(***************************************************************************)

\* Whatever a lookup is settled with, the question names it or the caller
\* confirmed it.
LEMMA JudgeGrounded ==
  ASSUME NEW r, NEW i \in DOMAIN r.extractions
  PROVE  judge(r, r.extractions[i]).entity \subseteq Grounds(r)
<1>. DEFINE l == r.extractions[i]
            picked == confirmed_candidates(r, l)
<1>1. l.found \subseteq Grounds(r)
  BY DEF Grounds
<1>2. leading_fallback(r) \subseteq Grounds(r)
  BY DEF Grounds, leading_fallback
<1>3. picked # {} => {CHOOSE c \in picked : TRUE} \subseteq Grounds(r)
  BY DEF Grounds, confirmed_candidates
<1>4. \/ judge(r, l).entity = l.found
      \/ judge(r, l).entity = leading_fallback(r)
      \/ judge(r, l).entity = {}
      \/ picked # {} /\ judge(r, l).entity = {CHOOSE c \in picked : TRUE}
  <2>. HIDE DEF l
  <2>1. CASE l.found # {}
    BY <2>1 DEF judge
  <2>2. CASE l.found = {} /\ leading_fallback(r) # {}
    BY <2>2 DEF judge
  <2>3. CASE l.found = {} /\ leading_fallback(r) = {} /\ l.descriptor
    BY <2>3 DEF judge
  <2>4. CASE /\ l.found = {} /\ leading_fallback(r) = {} /\ ~l.descriptor
             /\ confirmed_candidates(r, l) # {}
    BY <2>4 DEF judge
  <2>5. CASE /\ l.found = {} /\ leading_fallback(r) = {} /\ ~l.descriptor
             /\ confirmed_candidates(r, l) = {}
    BY <2>5 DEF judge
  <2>. QED BY <2>1, <2>2, <2>3, <2>4, <2>5
<1>. HIDE DEF l, picked
<1>. QED BY <1>1, <1>2, <1>3, <1>4 DEF l

\* The node returns entities the question names or the caller confirmed.
LEMMA ResolveGrounded ==
  ASSUME NEW r \in Readings, strict_resolve(r).error = "none"
  PROVE  strict_resolve(r).entity \subseteq Grounds(r)
<1>. DEFINE raising == {i \in lookups(r) : judge(r, r.extractions[i]).error # "none"}
            first == CHOOSE i \in raising : \A j \in raising : i <= j
<1>1. lookups(r) \subseteq DOMAIN r.extractions
  BY DEF lookups
<1>2. raising # {} => first \in raising
  <2>1. raising \in SUBSET Nat
    BY <1>1, ReadingsAssumption
  <2>. HIDE DEF raising
  <2>. QED BY <2>1, LeastNatural
<1>3. raising # {} => judge(r, r.extractions[first]).error # "none"
  <2>. HIDE DEF first
  <2>. QED BY <1>2
<1>4. resolve_unnamed(r) \subseteq Grounds(r)
  BY DEF resolve_unnamed, Grounds
<1>5. valid_confirmed(r) \cup r.leading \subseteq Grounds(r) /\ r.relation \subseteq Grounds(r)
  BY DEF Grounds
<1>6. resolve_named(r) \subseteq Grounds(r)
  <2>1. UNION {judge(r, r.extractions[i]).entity : i \in lookups(r)} \subseteq Grounds(r)
    BY <1>1, JudgeGrounded
  <2>. QED BY <1>5, <2>1 DEF resolve_named
<1>7. \/ strict_resolve(r) = [entity |-> resolve_unnamed(r), error |-> "none"]
      \/ strict_resolve(r) = [entity |-> valid_confirmed(r) \cup r.leading, error |-> "none"]
      \/ raising # {} /\ strict_resolve(r) = judge(r, r.extractions[first])
      \/ strict_resolve(r) = [entity |-> resolve_named(r), error |-> "none"]
  BY DEF strict_resolve
<1>. HIDE DEF raising, first
<1>. QED BY <1>3, <1>4, <1>5, <1>6, <1>7

\* What is read is one of the readings, and nothing is resolved before it is.
Resolving ==
  /\ spc = "resolve" => reading \in Readings
  /\ spc \in {"off", "resolve"} => entity = {}
  /\ IsFiniteSet(entity)

LEMMA InitResolving == Init => Resolving
BY FS_EmptySet DEF Init, StrictInit, Resolving

\* A step of the path other than resolve_entity leaves the entities alone.
LEMMA EntityKept ==
  ASSUME \/ StrictNode /\ ~StrictResolveEntity
         \/ \E t \in ToolNames : StrictTask(t)
  PROVE  /\ entity' = entity
         /\ spc = "off" => spc' = "off"
         /\ spc' = "off" => spc = "off"
         /\ spc' # "resolve"
<1>1. CASE StrictNode /\ ~StrictResolveEntity
  <2>1. CASE StrictRoute
    BY <2>1 DEF StrictRoute
  <2>2. CASE StrictPlanEnds
    BY <2>2 DEF StrictPlanEnds
  <2>. QED BY <1>1, <2>1, <2>2 DEF StrictNode, StrictCallRaises, StrictPlanStarts,
         StrictStartWave, StrictMergeWave, StrictExecuteEnds, StrictCompose
<1>2. CASE \E t \in ToolNames : StrictTask(t)
  BY <1>2 DEF StrictTask, StrictPlanOneReturns, StrictPlanOneFails, StrictSkips,
         StrictReturns, StrictAgentStep, StrictToolsStep, StrictAgentDone,
         StrictAgentRaises, StrictOrphanEnds
<1>. QED BY <1>1, <1>2

LEMMA NextResolving ==
  Resolving /\ [Next]_vars =>
    Resolving' /\ (spc = "resolve" => entity' \subseteq Grounds(reading))
<1>. SUFFICES ASSUME Resolving, [Next]_vars
              PROVE  Resolving' /\ (spc = "resolve" => entity' \subseteq Grounds(reading))
  OBVIOUS
<1>1. CASE StrictStarts
  BY <1>1 DEF StrictStarts, Resolving
<1>2. CASE StrictRejected \/ StrictRaised \/ StrictTimeout
  BY <1>2, FS_EmptySet DEF StrictRejected, StrictRaised, StrictTimeout, StrictForgotten, Resolving
<1>3. CASE StrictResolveEntity
  <2>1. spc = "resolve" /\ reading \in Readings
    BY <1>3 DEF StrictResolveEntity, Resolving
  <2>2. CASE strict_resolve(reading).error = "none"
    <3>1. entity' \subseteq Grounds(reading) /\ spc' = "route"
      BY <1>3, <2>1, <2>2, ResolveGrounded DEF StrictResolveEntity
    <3>2. IsFiniteSet(entity')
      BY <2>1, <3>1, ReadingsAssumption, FS_Subset
    <3>. QED BY <3>1, <3>2 DEF Resolving
  <2>3. CASE strict_resolve(reading).error # "none"
    BY <1>3, <2>1, <2>3 DEF StrictResolveEntity, Resolving
  <2>. QED BY <2>2, <2>3
<1>4. CASE \/ StrictStep /\ ~StrictResolveEntity
           \/ \E t \in ToolNames : StrictTaskStep(t)
  BY <1>4, EntityKept DEF StrictStep, StrictTaskStep, Resolving
<1>5. CASE UNCHANGED svars
  BY <1>5 DEF svars, Resolving
<1>6. CASE guard_request \/ classify_topic \/ StrictUnavailable \/ StrictAccepted
           \/ SecondPathNode \/ SecondPathRaises \/ generate_answer \/ UNCHANGED vars
  BY <1>5, <1>6 DEF guard_request, classify_topic, StrictUnavailable, StrictAccepted,
       SecondPathNode, SecondPathRaises, generate_answer, vars
<1>. QED BY <1>1, <1>2, <1>3, <1>4, <1>6 DEF Next, StrictStep

\* The entity the strict path works with was named in the question or confirmed
\* by the caller (resolve_entity of the snapshot).
THEOREM NoGuessedEntityCorrect == FairSpec => NoGuessedEntity
<1>1. Resolving /\ [Next]_vars => [spc = "resolve" => entity' \subseteq Grounds(reading)]_vars
  BY NextResolving
<1>2. Resolving /\ [Next]_vars => Resolving'
  BY NextResolving
<1>. QED BY <1>1, <1>2, InitResolving, FairIsSafe, PTL DEF SafeSpec, NoGuessedEntity

-----------------------------------------------------------------------------
(***************************************************************************)
(* route_query.                                                            *)
(***************************************************************************)

\* A route or plan has one item, or two for different tools.
Tooled(items) ==
  /\ DOMAIN items = 1 .. Len(items) /\ Len(items) \in {1, 2}
  /\ \A i \in DOMAIN items : items[i].tool \in ToolNames
  /\ \A i, j \in DOMAIN items : items[i].tool = items[j].tool => i = j

RouteOk(items) ==
  /\ Tooled(items)
  /\ \A i \in DOMAIN items : /\ "numbers" \in DOMAIN items[i]
                              /\ items[i].numbers \in [Numbers -> Nat]

\* Restoring join keys changes nothing else of an item.
LEMMA MergeKeeps ==
  ASSUME NEW items \in Seq(RouteItem)
  PROVE  LET merged == merge_binding_join_keys(items) IN
         /\ DOMAIN merged = 1 .. Len(items)
         /\ \A i \in 1 .. Len(items) : /\ "numbers" \in DOMAIN merged[i]
                                       /\ merged[i].tool = items[i].tool
                                       /\ merged[i].numbers = items[i].numbers
<1>1. DOMAIN items = 1 .. Len(items) /\ \A i \in DOMAIN items : items[i] \in RouteItem
  OBVIOUS
<1>2. ASSUME NEW x \in RouteItem, NEW v
      PROVE  /\ "numbers" \in DOMAIN [x EXCEPT !.joinKeys = v]
             /\ [x EXCEPT !.joinKeys = v].tool = x.tool
             /\ [x EXCEPT !.joinKeys = v].numbers = x.numbers
  BY DEF RouteItem
<1>. DEFINE f == restored_join_keys(items)
<1>3. merge_binding_join_keys(items) = [j \in DOMAIN items |-> [items[j] EXCEPT !.joinKeys = f[j]]]
  BY DEF merge_binding_join_keys
<1>. HIDE DEF f
<1>4. ASSUME NEW i \in 1 .. Len(items)
      PROVE  /\ "numbers" \in DOMAIN merge_binding_join_keys(items)[i]
             /\ merge_binding_join_keys(items)[i].tool = items[i].tool
             /\ merge_binding_join_keys(items)[i].numbers = items[i].numbers
  <2>1. merge_binding_join_keys(items)[i] = [items[i] EXCEPT !.joinKeys = f[i]]
    BY <1>1, <1>3
  <2>. QED BY <1>1, <1>2, <2>1
<1>5. DOMAIN merge_binding_join_keys(items) = 1 .. Len(items)
  BY <1>1, <1>3
<1>. QED BY <1>4, <1>5

LEMMA RouteParsed ==
  ASSUME NEW doc \in RouteDocs, NEW quantities, NEW recover,
         strict_parse_route(doc, quantities, recover) # Rejected
  PROVE  RouteOk(strict_parse_route(doc, quantities, recover))
<1>. DEFINE base == IF recover THEN merge_binding_join_keys(doc.items) ELSE doc.items
            items == strict_validate_route(base)
<1>1. doc.items \in Seq(RouteItem)
  BY RouteDocsAssumption
<1>2. /\ strict_parse_route(doc, quantities, recover) = items /\ items # Rejected
      /\ \A i, j \in DOMAIN items : items[i].tool = items[j].tool => i = j
  BY DEF strict_parse_route, DistinctField, Rejected
<1>3. /\ DOMAIN base = 1 .. Len(doc.items)
      /\ \A i \in DOMAIN base : /\ base[i].tool \in ToolNames /\ "numbers" \in DOMAIN base[i]
                                /\ base[i].numbers \in [Numbers -> Nat]
  <2>0. \A i \in DOMAIN doc.items : doc.items[i] \in RouteItem
    BY <1>1
  <2>1. /\ DOMAIN doc.items = 1 .. Len(doc.items)
        /\ \A i \in DOMAIN doc.items : /\ doc.items[i].tool \in ToolNames
                                       /\ "numbers" \in DOMAIN doc.items[i]
                                       /\ doc.items[i].numbers \in [Numbers -> Nat]
    BY <1>1, <2>0 DEF RouteItem
  <2>2. CASE recover
    BY <1>1, <2>1, <2>2, MergeKeeps
  <2>3. CASE ~recover
    BY <2>1, <2>3
  <2>. QED BY <2>2, <2>3
<1>4. Len(base) \in Nat /\ DOMAIN base = 1 .. Len(base)
  BY <1>1, <1>3
<1>. HIDE DEF base
<1>5. base # <<>> /\ items = Ordered(base) /\ Ordered(base) # Rejected
  BY <1>2 DEF strict_validate_route, Keyed, Rejected
<1>6. PICK q \in Seq(DOMAIN base) : /\ DOMAIN q = DOMAIN base
                                    /\ Ordered(base) = [k \in DOMAIN base |-> base[q[k]]]
  BY <1>4, <1>5, OrderedSound
<1>7. /\ DOMAIN items = 1 .. Len(base) /\ Len(items) = Len(base)
      /\ \A i \in DOMAIN items : /\ items[i].tool \in ToolNames
                                 /\ "numbers" \in DOMAIN items[i]
                                 /\ items[i].numbers \in [Numbers -> Nat]
  BY <1>3, <1>4, <1>5, <1>6
<1>. HIDE DEF items
<1>8. Len(items) \in {1, 2}
  <2>1. Len(items) # 0
    <3>1. Len(items) = 0 => DOMAIN items = {}
      BY <1>7
    <3>2. base = <<>> <=> Len(base) = 0
      BY <1>4
    <3>. QED BY <1>5, <1>7, <3>2
  <2>2. Len(items) <= 2
    <3>. SUFFICES ASSUME Len(items) >= 3 PROVE FALSE
      BY <1>4, <1>7
    <3>1. 1 \in DOMAIN items /\ 2 \in DOMAIN items /\ 3 \in DOMAIN items
      BY <1>4, <1>7
    <3>2. /\ items[1].tool # items[2].tool /\ items[1].tool # items[3].tool
          /\ items[2].tool # items[3].tool
      BY <1>2, <3>1
    <3>. QED BY <1>7, <3>1, <3>2 DEF ToolNames
  <2>. QED BY <1>4, <1>7, <2>1, <2>2, SMTT(30)
<1>. QED BY <1>2, <1>7, <1>8 DEF RouteOk, Tooled

\* A number planned in a route is in the question of one of its items.
LEMMA PlannedSomewhere ==
  ASSUME NEW items, RouteOk(items), NEW n \in Numbers, Planned(items, n) # 0
  PROVE  \E i \in DOMAIN items : items[i].numbers[n] > 0
<1>. SUFFICES ASSUME \A i \in DOMAIN items : ~(items[i].numbers[n] > 0) PROVE FALSE
  OBVIOUS
<1>1. \A i \in DOMAIN items : items[i].numbers[n] = 0
  BY DEF RouteOk
<1>. DEFINE L == Len(items)
            Loop(g, i) == IF i = 0 THEN 0 ELSE g[i - 1] + items[i].numbers[n]
            zero == [i \in 0 .. L |-> 0]
            c == CHOOSE u : u = [i \in 0 .. L |-> Loop(u, i)]
<1>2. L \in {1, 2} /\ \A i \in 0 .. L : i # 0 => i \in DOMAIN items /\ i - 1 \in 0 .. L
  BY DEF RouteOk, Tooled
<1>3. zero = [i \in 0 .. L |-> Loop(zero, i)]
  BY <1>1, <1>2
<1>4. c = [i \in 0 .. L |-> Loop(c, i)]
  <2>. HIDE DEF zero
  <2>. QED BY <1>3
<1>5. Planned(items, n) = c[L]
  BY DEF Planned
<1>. HIDE DEF c
<1>6. c[0] = 0
  BY <1>2, <1>4
<1>7. c[1] = 0
  <2>1. 1 \in 0 .. L
    BY <1>2
  <2>. QED BY <1>1, <1>2, <1>4, <1>6, <2>1
<1>8. L = 2 => c[2] = 0
  <2>. SUFFICES ASSUME L = 2 PROVE c[2] = 0
    OBVIOUS
  <2>1. 2 \in 0 .. L /\ 2 \in DOMAIN items
    BY <1>2
  <2>2. c[2] = c[1] + items[2].numbers[n]
    BY <1>4, <2>1
  <2>. QED BY <1>1, <1>7, <2>1, <2>2
<1>. QED BY <1>2, <1>5, <1>7, <1>8

-----------------------------------------------------------------------------
(***************************************************************************)
(* plan_outputs.                                                           *)
(***************************************************************************)

\* A number of the question that no name explains is in one of the questions of
\* the items.
Stated(items) ==
  \A n \in Numbers : Question.numbers[n] > entity_numbers(n) =>
    \E i \in DOMAIN items : items[i].numbers[n] > 0

ItemFields == {"id", "tool", "dependsOn", "joinKeys", "bindings", "numbers", "filters",
               "outputs"}

\* What the planner made of the item for t.
PlannedOk(t) ==
  /\ DOMAIN planned[t] = ItemFields /\ planned[t].tool = t
  /\ qty = 0 =>
       planned[t].numbers \in {route[RoutePlace(t)].numbers, Question.numbers}

\* A plan: an item that depends on another has join keys.
PlanOk(items) ==
  /\ Tooled(items)
  /\ \A i \in DOMAIN items : items[i].dependsOn # {} => Len(items) = 2 /\ items[1].joinKeys # <<>>

Plans ==
  /\ DOMAIN planned = ToolNames
  /\ spc = "plan" => /\ RouteOk(route)
                     /\ qty = 0 => Stated(route)
                     /\ \A i \in DOMAIN route : ptask[route[i].tool] = "done" =>
                                                  PlannedOk(route[i].tool)
  /\ spc \in {"execute", "gather", "compose", "returned"} =>
       PlanOk(plan) /\ (qty = 0 => Stated(plan))

LEMMA PlacesUnique ==
  ASSUME NEW items, Tooled(items), NEW i \in DOMAIN items
  PROVE  (CHOOSE j \in DOMAIN items : items[j].tool = items[i].tool) = i
BY DEF Tooled

LEMMA EntityNumbers ==
  ASSUME IsFiniteSet(entity), NEW n \in Numbers PROVE entity_numbers(n) \in Nat
<1>. DEFINE N == entity \cap DOMAIN NamedNumbers
            M(e) == {e} \X (1 .. NamedNumbers[e][n])
            S == {M(e) : e \in N}
<1>1. IsFiniteSet(N)
  BY FS_Subset
<1>2. IsFiniteSet(S)
  <2>. DEFINE f == [e \in N |-> M(e)]
  <2>. HIDE DEF N, M
  <2>1. f \in Surjection(N, S)
    BY DEF Surjection
  <2>. HIDE DEF f, S
  <2>. QED BY <1>1, <2>1, FS_Surjection
<1>3. ASSUME NEW e \in N PROVE IsFiniteSet(M(e))
  <2>1. PICK k \in Nat : NamedNumbers[e][n] = k
    BY NamesAssumption
  <2>2. IsFiniteSet(1 .. k)
    BY FS_Interval
  <2>3. IsFiniteSet({e})
    BY FS_Singleton
  <2>. QED BY <2>1, <2>2, <2>3, FS_Product
<1>. HIDE DEF N, M
<1>4. IsFiniteSet(UNION S)
  BY <1>2, <1>3, FS_UNION
<1>5. Cardinality(UNION S) \in Nat
  BY <1>4, FS_CardinalityType
<1>. QED BY <1>5 DEF entity_numbers, N, M

\* The validated plan is well-formed, and no number got lost.
LEMMA PlanValidated ==
  ASSUME RouteOk(route), NEW items,
         \A i \in DOMAIN route : PlannedOk(route[i].tool),
         items = strict_validate_subqueries([i \in DOMAIN route |-> planned[route[i].tool]]),
         items # Rejected, IsFiniteSet(entity),
         NEW p, p = [i \in DOMAIN items |-> [items[i] EXCEPT !.outputs = {}]]
  PROVE  PlanOk(p) /\ (qty = 0 /\ Stated(route) => Stated(p))
<1>. DEFINE given == [i \in DOMAIN route |-> planned[route[i].tool]]
<1>1. /\ DOMAIN route = 1 .. Len(route) /\ Len(route) \in {1, 2}
      /\ DOMAIN given = 1 .. Len(route) /\ Len(given) = Len(route)
  BY DEF RouteOk, Tooled
<1>2. \A i \in DOMAIN given : DOMAIN given[i] = ItemFields /\ given[i].tool = route[i].tool
  BY DEF PlannedOk
<1>3. qty = 0 => \A i \in DOMAIN given :
                   given[i].numbers \in {route[i].numbers, Question.numbers}
  <2>1. \A i \in DOMAIN route : RoutePlace(route[i].tool) = i
    BY PlacesUnique DEF RouteOk, RoutePlace
  <2>. QED BY <2>1 DEF PlannedOk
<1>. HIDE DEF given
<1>4. /\ given # <<>> /\ items = Ordered(given) /\ Ordered(given) # Rejected
      /\ strict_JoinKeysAgree(items)
      /\ \A i \in DOMAIN given : given[i].dependsOn \subseteq StrictIds(given) \ {given[i].id}
  <2>1. items = strict_validate_subqueries(given)
    BY DEF given
  <2>2. /\ given # <<>> /\ items = Keyed(Ordered(given))
        /\ \A i \in DOMAIN given : given[i].dependsOn \subseteq StrictIds(given) \ {given[i].id}
    <3>1. CASE /\ given # <<>>
               /\ \A i \in DOMAIN given : given[i].dependsOn \subseteq StrictIds(given) \ {given[i].id}
      BY <2>1, <3>1 DEF strict_validate_subqueries
    <3>2. CASE ~(/\ given # <<>>
                 /\ \A i \in DOMAIN given : given[i].dependsOn \subseteq StrictIds(given) \ {given[i].id})
      <4>1. strict_validate_subqueries(given) = Rejected
        BY <3>2 DEF strict_validate_subqueries
      <4>. QED BY <2>1, <4>1
    <3>. QED BY <3>1, <3>2
  <2>3. \A x : Keyed(x) # Rejected => Keyed(x) = x /\ strict_JoinKeysAgree(x)
    BY DEF Keyed
  <2>. QED BY <2>2, <2>3
<1>5. PICK q \in Seq(DOMAIN given) :
        /\ DOMAIN q = DOMAIN given /\ Range1(q) = DOMAIN given
        /\ \A i, j \in DOMAIN q : q[i] = q[j] => i = j
        /\ Ordered(given) = [k \in DOMAIN given |-> given[q[k]]]
  <2>1. Len(given) \in Nat /\ DOMAIN given = 1 .. Len(given)
    BY <1>1
  <2>2. \E q \in Seq(DOMAIN given) :
              /\ DOMAIN q = DOMAIN given /\ Range1(q) = DOMAIN given
              /\ \A i, j \in DOMAIN q : q[i] = q[j] => i = j
              /\ Ordered(given) = [k \in DOMAIN given |-> given[q[k]]]
              /\ \A k \in DOMAIN q :
                   given[q[k]].dependsOn \subseteq {given[q[j]].id : j \in 1 .. (k - 1)}
    BY ONLY <1>4, <2>1, OrderedSound
  <2>. QED BY ONLY <2>2
<1>6. /\ DOMAIN p = 1 .. Len(route) /\ Len(p) = Len(route) /\ DOMAIN items = 1 .. Len(route)
      /\ Len(items) = Len(route)
      /\ \A i \in DOMAIN p : q[i] \in DOMAIN route /\ items[i] = given[q[i]]
  <2>1. items = [k \in DOMAIN given |-> given[q[k]]]
    BY ONLY <1>4, <1>5
  <2>2. DOMAIN items = 1 .. Len(route) /\ DOMAIN p = 1 .. Len(route)
    BY <1>1, <2>1
  <2>3. Len(items) = Len(route) /\ Len(p) = Len(route)
    BY ONLY <1>1, <2>2
  <2>4. \A i \in DOMAIN p : q[i] \in DOMAIN route /\ items[i] = given[q[i]]
    BY ONLY <1>1, <1>5, <2>1, <2>2
  <2>. QED BY <2>2, <2>3, <2>4
<1>7. \A i \in DOMAIN p : /\ p[i].tool = route[q[i]].tool
                           /\ p[i].numbers = given[q[i]].numbers
                           /\ p[i].dependsOn = given[q[i]].dependsOn
                           /\ p[i].joinKeys = items[i].joinKeys
  <2>. SUFFICES ASSUME NEW i \in DOMAIN p
                PROVE  /\ p[i].tool = route[q[i]].tool
                       /\ p[i].numbers = given[q[i]].numbers
                       /\ p[i].dependsOn = given[q[i]].dependsOn
                       /\ p[i].joinKeys = items[i].joinKeys
    OBVIOUS
  <2>1. p[i] = [items[i] EXCEPT !.outputs = {}] /\ items[i] = given[q[i]]
    BY <1>6
  <2>2. DOMAIN items[i] = ItemFields /\ given[q[i]].tool = route[q[i]].tool
    BY <1>1, <1>2, <1>6, <2>1
  <2>. QED BY <2>1, <2>2 DEF ItemFields
<1>8. Tooled(p)
  <2>1. Len(p) \in {1, 2} /\ DOMAIN p = 1 .. Len(p)
    BY <1>1, <1>6
  <2>0. /\ \A i \in DOMAIN route : route[i].tool \in ToolNames
        /\ \A i, j \in DOMAIN route : route[i].tool = route[j].tool => i = j
    BY DEF RouteOk, Tooled
  <2>2. \A i \in DOMAIN p : p[i].tool \in ToolNames
    BY ONLY <1>6, <1>7, <2>0
  <2>3. ASSUME NEW i \in DOMAIN p, NEW j \in DOMAIN p, p[i].tool = p[j].tool PROVE i = j
    <3>1. q[i] = q[j]
      BY ONLY <1>6, <1>7, <2>0, <2>3, SMTT(30)
    <3>. QED BY <1>1, <1>5, <1>6, <3>1
  <2>. QED BY <2>1, <2>2, <2>3 DEF Tooled
<1>9. ASSUME NEW i \in DOMAIN p, p[i].dependsOn # {}
      PROVE  Len(p) = 2 /\ p[1].joinKeys # <<>>
  <2>1. Len(p) = 2
    <3>. SUFFICES ASSUME Len(p) = 1 PROVE FALSE
      BY <1>1, <1>6
    <3>0. Len(route) = 1 /\ DOMAIN route = {1}
      BY <1>1, <1>6
    <3>1. DOMAIN given = {1} /\ q[i] = 1
      BY <1>1, <1>6, <3>0
    <3>2. StrictIds(given) \ {given[1].id} = {}
      BY <3>1 DEF StrictIds
    <3>. QED BY <1>4, <1>7, <1>9, <3>1, <3>2
  <2>2. items[i].dependsOn # {} /\ i \in 1 .. 2 /\ Len(items) = 2 /\ 1 \in DOMAIN p
    <3>1. Len(route) = 2 /\ i \in 1 .. Len(route)
      BY <1>6, <2>1
    <3>2. 1 \in DOMAIN p /\ Len(items) = 2
      BY <1>6, <3>1
    <3>3. items[i].dependsOn = p[i].dependsOn
      BY <1>6, <1>7, ZenonT(30)
    <3>. QED BY <1>9, <3>1, <3>2, <3>3
  <2>3. items[1].joinKeys # <<>>
    BY <1>4, <2>2 DEF strict_JoinKeysAgree
  <2>. QED BY <1>7, <2>1, <2>2, <2>3
<1>10. ASSUME qty = 0, Stated(route) PROVE Stated(p)
  <2>. SUFFICES ASSUME NEW n \in Numbers, Question.numbers[n] > entity_numbers(n)
                PROVE  \E i \in DOMAIN p : p[i].numbers[n] > 0
    BY DEF Stated
  <2>1. PICK j \in DOMAIN route : route[j].numbers[n] > 0
    BY <1>10 DEF Stated
  <2>2. Question.numbers[n] > 0
    <3>1. entity_numbers(n) \in Nat
      BY EntityNumbers
    <3>2. Question.numbers[n] \in Nat
      BY QuestionAssumption
    <3>. QED BY <3>1, <3>2
  <2>3. j \in DOMAIN given /\ given[j].numbers[n] > 0
    BY <1>1, <1>3, <1>10, <2>1, <2>2
  <2>4. PICK i \in DOMAIN q : q[i] = j
    BY <1>5, <2>3 DEF Range1
  <2>5. i \in DOMAIN p /\ p[i].numbers[n] > 0
    BY <1>1, <1>5, <1>6, <1>7, <2>3, <2>4
  <2>. QED BY <2>5
<1>. QED BY <1>8, <1>9, <1>10 DEF PlanOk

LEMMA InitPlans == Init => Plans
BY DEF Init, StrictInit, Plans

PlanStages == {"execute", "gather", "compose", "returned"}

\* Most steps touch neither route nor plan.
LEMMA PlansKept ==
  ASSUME Plans, UNCHANGED <<entity, qty, route, plan, planned, ptask>>,
         spc' = "plan" => spc = "plan",
         spc' \in PlanStages => spc \in PlanStages
  PROVE  Plans'
<1>1. (Stated(route)' <=> Stated(route)) /\ (Stated(plan)' <=> Stated(plan))
  BY DEF Stated, entity_numbers
<1>2. \A i \in DOMAIN route : PlannedOk(route[i].tool)' <=> PlannedOk(route[i].tool)
  <2>. SUFFICES ASSUME NEW i \in DOMAIN route
                PROVE  PlannedOk(route[i].tool)' <=> PlannedOk(route[i].tool)
    OBVIOUS
  <2>. QED BY DEF PlannedOk, RoutePlace
<1>3. (RouteOk(route)' <=> RouteOk(route)) /\ (PlanOk(plan)' <=> PlanOk(plan))
  BY DEF RouteOk, PlanOk, Tooled
<1>. QED BY <1>1, <1>2, <1>3 DEF Plans, PlanStages

\* An accepted route keeps every number no name explains.
LEMMA RoutePlans ==
  ASSUME Plans, Tasks, Resolving, StrictRoute PROVE Plans'
<1>1. PICK doc \in RouteDocs :
        LET items == StrictRouteItems(doc) IN
        IF items # Rejected
          THEN route' = items /\ qty' = doc.qty /\ spc' = "plan" /\ tries' = 0
          ELSE /\ tries' = tries + 1
               /\ spc' = IF tries = 1 THEN "raised" ELSE "route"
               /\ UNCHANGED <<route, qty>>
  BY DEF StrictRoute
<1>2. UNCHANGED <<entity, ptask, planned, plan>> /\ spc = "route"
  BY DEF StrictRoute
<1>3. CASE StrictRouteItems(doc) = Rejected
  <2>1. UNCHANGED <<route, qty>> /\ spc' \in {"raised", "route"}
    BY <1>1, <1>3
  <2>. QED BY <1>2, <2>1, PlansKept DEF PlanStages
<1>4. CASE StrictRouteItems(doc) # Rejected
  <2>. DEFINE parsed == strict_parse_route(doc, Question.quantities, tries > 0)
  <2>1. /\ route' = parsed /\ parsed # Rejected /\ spc' = "plan"
        /\ numeric_conditions_kept(Question.numbers, [n \in Numbers |-> entity_numbers(n)], parsed)
    BY <1>1, <1>4 DEF StrictRouteItems
  <2>2. RouteOk(route')
    BY <2>1, RouteParsed
  <2>3. Stated(route)'
    <3>. SUFFICES ASSUME NEW n \in Numbers, Question.numbers[n] > entity_numbers(n)'
                  PROVE  \E i \in DOMAIN route' : route'[i].numbers[n] > 0
      BY DEF Stated
    <3>1. entity_numbers(n)' = entity_numbers(n)
      BY <1>2 DEF entity_numbers
    <3>2. Question.numbers[n] <= entity_numbers(n) + Planned(route', n)
      BY <2>1 DEF numeric_conditions_kept
    <3>3. Planned(route', n) # 0
      <4>1. entity_numbers(n) \in Nat
        BY EntityNumbers DEF Resolving
      <4>2. Question.numbers[n] \in Nat
        BY QuestionAssumption
      <4>. QED BY <3>1, <3>2, <4>1, <4>2
    <3>. QED BY <2>2, <3>3, PlannedSomewhere
  <2>4. \A i \in DOMAIN route' : ptask'[route'[i].tool] # "done"
    <3>1. \A t \in ToolNames : ptask[t] = "idle"
      BY <1>2 DEF Tasks
    <3>. QED BY <1>2, <2>2, <3>1 DEF RouteOk, Tooled
  <2>. QED BY <1>2, <2>1, <2>2, <2>3, <2>4 DEF Plans
<1>. QED BY <1>3, <1>4

LEMMA NodePlans ==
  ASSUME Plans, Tasks, Resolving, StrictNode PROVE Plans'
<1>1. CASE StrictResolveEntity
  <2>1. spc = "resolve" /\ spc' \in {"route", "raised"} /\ planned' = planned
    BY <1>1 DEF StrictResolveEntity
  <2>. QED BY <2>1 DEF Plans
<1>2. CASE StrictRoute
  BY <1>2, RoutePlans
<1>3. CASE StrictCallRaises
  BY <1>3, PlansKept DEF StrictCallRaises, PlanStages
<1>4. CASE StrictPlanStarts
  <2>1. UNCHANGED <<entity, qty, route, plan, planned, spc>> /\ spc = "plan"
    BY <1>4 DEF StrictPlanStarts
  <2>2. \A t \in ToolNames : ptask'[t] = "done" => ptask[t] = "done"
    BY <1>4 DEF StrictPlanStarts
  <2>3. Stated(route)' <=> Stated(route)
    BY <2>1 DEF Stated, entity_numbers
  <2>4. \A i \in DOMAIN route : PlannedOk(route[i].tool)' <=> PlannedOk(route[i].tool)
    <3>. SUFFICES ASSUME NEW i \in DOMAIN route
                  PROVE  PlannedOk(route[i].tool)' <=> PlannedOk(route[i].tool)
      OBVIOUS
    <3>. QED BY <2>1 DEF PlannedOk, RoutePlace
  <2>5. RouteOk(route)' <=> RouteOk(route)
    BY <2>1
  <2>6. \A i \in DOMAIN route : route[i].tool \in ToolNames
    BY <2>1 DEF Plans, RouteOk, Tooled
  <2>. QED BY <2>1, <2>2, <2>3, <2>4, <2>5, <2>6 DEF Plans
<1>5. CASE StrictPlanEnds
  <2>. DEFINE items == strict_validate_subqueries(
                         [i \in DOMAIN route |-> planned[route[i].tool]])
  <2>1. /\ spc = "plan" /\ entity' = entity /\ qty' = qty
        /\ \A i \in DOMAIN route : ptask[route[i].tool] = "done"
        /\ DOMAIN planned' = ToolNames
    BY <1>5 DEF StrictPlanEnds
  <2>2. CASE spc' = "raised"
    BY <2>1, <2>2 DEF Plans
  <2>3. CASE spc' # "raised"
    <3>1. /\ items # Rejected /\ spc' = "execute"
          /\ plan' = [i \in DOMAIN items |-> [items[i] EXCEPT !.outputs = {}]]
      BY <1>5, <2>3 DEF StrictPlanEnds
    <3>2. /\ RouteOk(route) /\ (qty = 0 => Stated(route))
          /\ \A i \in DOMAIN route : PlannedOk(route[i].tool)
      BY <2>1 DEF Plans
    <3>3. PlanOk(plan') /\ (qty = 0 /\ Stated(route) => Stated(plan'))
      <4>. HIDE DEF items
      <4>. QED BY <3>1, <3>2, PlanValidated DEF items, Resolving
    <3>4. Stated(plan') <=> Stated(plan)'
      BY <2>1 DEF Stated, entity_numbers
    <3>. QED BY <2>1, <3>1, <3>2, <3>3, <3>4 DEF Plans
  <2>. QED BY <2>2, <2>3
<1>6. CASE StrictStartWave
  BY <1>6, PlansKept DEF StrictStartWave, PlanStages
<1>7. CASE StrictMergeWave
  BY <1>7, PlansKept DEF StrictMergeWave, PlanStages
<1>8. CASE StrictExecuteEnds
  BY <1>8, PlansKept DEF StrictExecuteEnds, PlanStages
<1>9. CASE StrictCompose
  BY <1>9, PlansKept DEF StrictCompose, PlanStages
<1>. QED BY <1>1, <1>2, <1>3, <1>4, <1>5, <1>6, <1>7, <1>8, <1>9 DEF StrictNode

\* A rewritten item has the numbers of the item, or those of the question.
LEMMA Rewritten ==
  ASSUME NEW r, "numbers" \in DOMAIN r, qty = 0, NEW item \in rewritten(r)
  PROVE  item.numbers \in {r.numbers, Question.numbers}
<1>. DEFINE own == [r EXCEPT !.numbers = Question.numbers, !.filters = Question.filters]
<1>1. own.numbers = Question.numbers
  OBVIOUS
<1>2. item = r \/ item = own
  <2>. HIDE DEF own
  <2>. QED BY DEF rewritten, own
<1>. HIDE DEF own
<1>. QED BY <1>1, <1>2

LEMMA OnePlanned ==
  ASSUME Plans, Tasks, NEW t \in ToolNames, StrictPlanOneReturns(t)
  PROVE  Plans'
<1>. DEFINE r == route[RoutePlace(t)]
<1>1. /\ spc = "plan" /\ UNCHANGED <<spc, entity, qty, route, plan>>
      /\ ptask' = [ptask EXCEPT ![t] = "done"]
  BY DEF StrictPlanOneReturns
<1>2. PICK selected \in StrictSelections(t), item \in rewritten(r) :
        planned' = [planned EXCEPT ![t] =
         [id |-> r.id, tool |-> t, dependsOn |-> r.dependsOn, joinKeys |-> r.joinKeys,
          bindings |-> r.bindings, numbers |-> item.numbers, filters |-> item.filters,
          outputs |-> strict_with_required_outputs(route, r, selected)]]
  BY DEF StrictPlanOneReturns
<1>3. RouteOk(route) /\ (qty = 0 => Stated(route)) /\ DOMAIN planned = ToolNames
  BY <1>1 DEF Plans
<1>4. RouteOk(route)' /\ (Stated(route)' <=> Stated(route))
  BY <1>1, <1>3 DEF Stated, entity_numbers
<1>5. DOMAIN planned' = ToolNames
  BY <1>2, <1>3
<1>6. ASSUME NEW i \in DOMAIN route, route[i].tool = t PROVE PlannedOk(route[i].tool)'
  <2>. DEFINE p == planned'[t]
  <2>1. /\ DOMAIN p = ItemFields /\ p.tool = t /\ p.numbers = item.numbers
    BY <1>2, <1>3 DEF ItemFields
  <2>2. RoutePlace(t) = i
    BY <1>3, <1>6, PlacesUnique DEF RouteOk, RoutePlace
  <2>3. qty = 0 => item.numbers \in {r.numbers, Question.numbers}
    <3>1. "numbers" \in DOMAIN r
      BY <1>3, <2>2 DEF RouteOk
    <3>. HIDE DEF r
    <3>. QED BY <3>1, Rewritten
  <2>4. RoutePlace(t)' = RoutePlace(t)
    BY <1>1 DEF RoutePlace
  <2>. QED BY <1>1, <1>6, <2>1, <2>3, <2>4 DEF PlannedOk
<1>7. ASSUME NEW i \in DOMAIN route, route[i].tool # t, ptask[route[i].tool] = "done"
      PROVE  PlannedOk(route[i].tool)'
  <2>1. PlannedOk(route[i].tool) /\ route[i].tool \in ToolNames
    BY <1>1, <1>3, <1>7 DEF Plans, RouteOk, Tooled
  <2>2. planned'[route[i].tool] = planned[route[i].tool]
    BY <1>2, <1>3, <1>7, <2>1
  <2>3. RoutePlace(route[i].tool)' = RoutePlace(route[i].tool)
    BY <1>1 DEF RoutePlace
  <2>. QED BY <1>1, <2>1, <2>2, <2>3 DEF PlannedOk
<1>8. \A i \in DOMAIN route : ptask'[route[i].tool] = "done" => PlannedOk(route[i].tool)'
  <2>1. ptask \in [ToolNames -> PlanTaskStates] /\ \A i \in DOMAIN route : route[i].tool \in ToolNames
    BY <1>3 DEF Tasks, RouteOk, Tooled
  <2>. QED BY <1>1, <1>6, <1>7, <2>1
<1>. QED BY <1>1, <1>3, <1>4, <1>5, <1>8 DEF Plans

LEMMA TaskPlans ==
  ASSUME Plans, Tasks, NEW t \in ToolNames, StrictTask(t) PROVE Plans'
<1>1. CASE StrictPlanOneReturns(t)
  BY <1>1, OnePlanned
<1>2. CASE StrictPlanOneFails(t)
  <2>1. spc = "plan" /\ UNCHANGED <<entity, qty, route, plan, planned>> /\ spc' \in {"plan", "raised"}
    BY <1>2 DEF StrictPlanOneFails
  <2>2. \A u \in ToolNames : ptask'[u] = "done" => ptask[u] = "done"
    BY <1>2 DEF StrictPlanOneFails, Tasks
  <2>3. Stated(route)' <=> Stated(route)
    BY <2>1 DEF Stated, entity_numbers
  <2>4. \A i \in DOMAIN route : PlannedOk(route[i].tool)' <=> PlannedOk(route[i].tool)
    <3>. SUFFICES ASSUME NEW i \in DOMAIN route
                  PROVE  PlannedOk(route[i].tool)' <=> PlannedOk(route[i].tool)
      OBVIOUS
    <3>. QED BY <2>1 DEF PlannedOk, RoutePlace
  <2>5. RouteOk(route)' <=> RouteOk(route)
    BY <2>1
  <2>6. \A i \in DOMAIN route : route[i].tool \in ToolNames
    BY <2>1 DEF Plans, RouteOk, Tooled
  <2>. QED BY <2>1, <2>2, <2>3, <2>4, <2>5, <2>6 DEF Plans
<1>3. CASE StrictSkips(t) \/ StrictAgentStep(t) \/ StrictToolsStep(t) \/ StrictAgentDone(t)
           \/ StrictAgentRaises(t)
  BY <1>3, PlansKept DEF StrictSkips, StrictReturns, StrictAgentStep, StrictToolsStep,
       StrictAgentDone, StrictAgentRaises, PlanStages
<1>4. CASE StrictOrphanEnds(t)
  <2>1. spc \in {"off", "raised"} /\ spc' = spc /\ planned' = planned
    BY <1>4 DEF StrictOrphanEnds
  <2>. QED BY <2>1 DEF Plans
<1>. QED BY <1>1, <1>2, <1>3, <1>4 DEF StrictTask

LEMMA NextPlans == Plans /\ Tasks /\ Resolving /\ [Next]_vars => Plans'
<1>. SUFFICES ASSUME Plans, Tasks, Resolving, [Next]_vars PROVE Plans'
  OBVIOUS
<1>1. CASE StrictStarts
  <2>1. spc' = "resolve" /\ planned' = planned
    BY <1>1 DEF StrictStarts
  <2>. QED BY <2>1 DEF Plans
<1>2. CASE StrictRejected \/ StrictRaised \/ StrictTimeout
  BY <1>2 DEF StrictRejected, StrictRaised, StrictTimeout, StrictForgotten, Plans
<1>3. CASE StrictStep
  BY <1>3, NodePlans DEF StrictStep
<1>4. CASE \E t \in ToolNames : StrictTaskStep(t)
  BY <1>4, TaskPlans DEF StrictTaskStep
<1>5. CASE UNCHANGED svars
  BY <1>5, PlansKept DEF svars
<1>6. CASE guard_request \/ classify_topic \/ StrictUnavailable \/ StrictAccepted
           \/ SecondPathNode \/ SecondPathRaises \/ generate_answer \/ UNCHANGED vars
  BY <1>5, <1>6 DEF guard_request, classify_topic, StrictUnavailable, StrictAccepted,
       SecondPathNode, SecondPathRaises, generate_answer, vars
<1>. QED BY <1>1, <1>2, <1>3, <1>4, <1>6 DEF Next

-----------------------------------------------------------------------------
(***************************************************************************)
(* execute_plan.                                                           *)
(***************************************************************************)

\* An agent that has rows is done, and its query carries all its filters.
AgentOk(a, filters) ==
  /\ DOMAIN a = DOMAIN strict_initial_state
  /\ a.result \in {"none", "empty", "rows"}
  /\ a.result = "rows" => a.pc = "done" /\ filters \subseteq a.query.enforced

\* Rows come from such an agent; only a dependent subquery is empty without one.
OutcomeOk(o, filters, dependent) ==
  /\ o.result \in {"none", "empty", "rows"}
  /\ o.result = "rows" => o.invoked /\ filters \subseteq o.enforced
  /\ o.result = "empty" => o.invoked \/ dependent

Executed ==
  /\ DOMAIN agent = ToolNames /\ DOMAIN outcomes = ToolNames
  /\ \A t \in ToolNames : /\ AgentOk(agent[t], StrictFilters(t))
                          /\ OutcomeOk(outcomes[t], StrictFilters(t), StrictDependsOn(t) # {})
  /\ spc \in {"off", "resolve", "route", "plan"} =>
       \A t \in ToolNames : agent[t].result = "none" /\ outcomes[t].result = "none"

LEMMA InitialAgent ==
  /\ \A f : AgentOk(strict_initial_state, f) /\ strict_initial_state.result = "none"
  /\ \A f, d : OutcomeOk(NoSummary, f, d) /\ NoSummary.result = "none"
BY DEF AgentOk, OutcomeOk, strict_initial_state, NoSummary

LEMMA InitExecuted == Init => Executed
BY InitialAgent, ZenonT(30) DEF Init, StrictInit, Executed

LEMMA AgentAnswers ==
  ASSUME NEW a, NEW f, NEW q, AgentOk(a, f), a.pc = "agent"
  PROVE  AgentOk(strict_agent(a, q), f)
BY DEF AgentOk, strict_agent, strict_initial_state

\* Node tools ends with rows only if no condition of the question is missing.
LEMMA AgentExecutes ==
  ASSUME NEW a, NEW f, AgentOk(a, f)
  PROVE  AgentOk(strict_tools(a, f), f)
<1>. DEFINE error == strict_first_error(a.query, f)
            after == IF error # "none" THEN strict_failure(a, error)
                     ELSE IF a.query.execution = "empty" THEN strict_empty(a)
                     ELSE strict_success(a)
<1>0. DOMAIN a = {"pc", "query", "attempt_count", "erred", "error", "retryable", "result",
                  "truncated", "empty_retried", "empty_reason"}
  BY DEF AgentOk, strict_initial_state
<1>1. error = "none" => f \subseteq a.query.enforced
  <2>1. missing_numeric_filters(f, a.query) # {} => error # "none"
    BY DEF strict_first_error
  <2>. HIDE DEF error
  <2>. QED BY <2>1 DEF missing_numeric_filters
<1>. HIDE DEF error
<1>2. CASE error # "none"
  <2>1. after = strict_failure(a, error)
    BY <1>2
  <2>2. DOMAIN after = DOMAIN a /\ after.result = "none"
    BY <1>0, <2>1 DEF strict_failure
  <2>3. strict_tools(a, f) = [after EXCEPT !.pc = strict_should_retry(after)]
    BY DEF strict_tools, error
  <2>. HIDE DEF after
  <2>. QED BY <1>0, <2>2, <2>3 DEF AgentOk, strict_initial_state
<1>3. CASE error = "none" /\ a.query.execution = "empty"
  <2>1. after = strict_empty(a)
    BY <1>3
  <2>2. DOMAIN after = DOMAIN a /\ after.result = "empty"
    BY <1>0, <2>1 DEF strict_empty
  <2>3. strict_tools(a, f) = [after EXCEPT !.pc = strict_should_retry(after)]
    BY DEF strict_tools, error
  <2>. HIDE DEF after
  <2>. QED BY <1>0, <2>2, <2>3 DEF AgentOk, strict_initial_state
<1>4. CASE error = "none" /\ a.query.execution # "empty"
  <2>1. after = strict_success(a)
    BY <1>4
  <2>2. /\ DOMAIN after = DOMAIN a /\ after.result = "rows" /\ after.error = "none"
        /\ after.query = a.query
    BY <1>0, <2>1 DEF strict_success
  <2>3. strict_tools(a, f) = [after EXCEPT !.pc = strict_should_retry(after)]
    BY DEF strict_tools, error
  <2>4. strict_should_retry(after) = "done"
    BY <2>2 DEF strict_should_retry
  <2>. HIDE DEF after
  <2>. QED BY <1>0, <1>1, <1>4, <2>2, <2>3, <2>4 DEF AgentOk, strict_initial_state
<1>. QED BY <1>2, <1>3, <1>4

\* With the plan, what is asked of the agents stays the same.
LEMMA SamePlan ==
  ASSUME plan' = plan, NEW t
  PROVE  StrictFilters(t)' = StrictFilters(t) /\ StrictDependsOn(t)' = StrictDependsOn(t)
BY DEF StrictFilters, StrictDependsOn, PlanPlace

LEMMA ExecutedKept ==
  ASSUME Executed, UNCHANGED <<plan, agent, outcomes>>,
         spc' \in {"off", "resolve", "route", "plan"} =>
           spc \in {"off", "resolve", "route", "plan"}
  PROVE  Executed'
<1>1. ASSUME NEW t \in ToolNames
      PROVE  /\ AgentOk(agent[t], StrictFilters(t))'
             /\ OutcomeOk(outcomes[t], StrictFilters(t), StrictDependsOn(t) # {})'
  <2>1. /\ AgentOk(agent[t], StrictFilters(t))
        /\ OutcomeOk(outcomes[t], StrictFilters(t), StrictDependsOn(t) # {})
    BY DEF Executed
  <2>2. StrictFilters(t)' = StrictFilters(t) /\ StrictDependsOn(t)' = StrictDependsOn(t)
    BY SamePlan
  <2>. QED BY <2>1, <2>2
<1>. QED BY <1>1 DEF Executed

\* g is f but for its value at t.
Becomes(f, g, t, v) ==
  DOMAIN g = ToolNames /\ \A u \in ToolNames : g[u] = IF u = t THEN v ELSE f[u]

\* One agent moves, one outcome comes in.
LEMMA ExecutedOne ==
  ASSUME Executed, plan' = plan, NEW t \in ToolNames, NEW a, NEW o,
         Becomes(agent, agent', t, a), Becomes(outcomes, outcomes', t, o),
         AgentOk(a, StrictFilters(t)),
         OutcomeOk(o, StrictFilters(t), StrictDependsOn(t) # {}),
         spc' \notin {"off", "resolve", "route", "plan"}
  PROVE  Executed'
<1>1. ASSUME NEW u \in ToolNames
      PROVE  /\ AgentOk(agent[u], StrictFilters(u))'
             /\ OutcomeOk(outcomes[u], StrictFilters(u), StrictDependsOn(u) # {})'
  <2>1. /\ AgentOk(agent'[u], StrictFilters(u))
        /\ OutcomeOk(outcomes'[u], StrictFilters(u), StrictDependsOn(u) # {})
    BY DEF Executed, Becomes
  <2>2. StrictFilters(u)' = StrictFilters(u) /\ StrictDependsOn(u)' = StrictDependsOn(u)
    BY SamePlan
  <2>. QED BY <2>1, <2>2
<1>2. DOMAIN agent' = ToolNames /\ DOMAIN outcomes' = ToolNames
  BY DEF Becomes
<1>. QED BY <1>1, <1>2 DEF Executed

LEMMA TaskExecuted ==
  ASSUME Executed, NEW t \in ToolNames, StrictTask(t) PROVE Executed'
<1>. DEFINE ok(a, o) == /\ AgentOk(a, StrictFilters(t))
                        /\ OutcomeOk(o, StrictFilters(t), StrictDependsOn(t) # {})
<1>0. /\ ok(agent[t], outcomes[t]) /\ DOMAIN agent = ToolNames /\ DOMAIN outcomes = ToolNames
      /\ Becomes(agent, agent, t, agent[t]) /\ Becomes(outcomes, outcomes, t, outcomes[t])
  BY DEF Executed, Becomes
<1>1. CASE StrictPlanOneReturns(t) \/ StrictPlanOneFails(t) \/ StrictAgentRaises(t)
           \/ StrictOrphanEnds(t)
  BY <1>1, ExecutedKept DEF StrictPlanOneReturns, StrictPlanOneFails, StrictAgentRaises,
       StrictOrphanEnds
<1>2. CASE StrictSkips(t)
  <2>. DEFINE failed_ == {d \in StrictDependsOn(t) : outcomes[d].failed}
              empty == {d \in StrictDependsOn(t) : outcomes[d].result = "empty"}
              o == CASE failed_ # {} -> strict_dependency_failure
                     [] empty # {} -> strict_dependency_empty(empty)
                     [] OTHER -> strict_input_binding_failure
  <2>1. /\ spc' = "gather" /\ plan' = plan /\ agent' = agent
        /\ outcomes' = [outcomes EXCEPT ![t] = o] /\ StrictDependsOn(t) # {}
    BY <1>2 DEF StrictSkips, StrictReturns
  <2>2. o.result \in {"none", "empty"}
    <3>1. strict_dependency_failure.result = "none" /\ strict_input_binding_failure.result = "none"
      BY DEF strict_dependency_failure, strict_input_binding_failure, NoSummary
    <3>2. strict_dependency_empty(empty).result = "empty"
      BY DEF strict_dependency_empty, NoSummary
    <3>3. \/ o = strict_dependency_failure \/ o = strict_dependency_empty(empty)
          \/ o = strict_input_binding_failure
      <4>. HIDE DEF failed_, empty
      <4>. QED OBVIOUS
    <3>. HIDE DEF o, empty
    <3>. QED BY <3>1, <3>2, <3>3
  <2>. HIDE DEF o
  <2>3. ok(agent[t], o)
    BY <1>0, <2>1, <2>2 DEF OutcomeOk
  <2>4. Becomes(agent, agent', t, agent[t]) /\ Becomes(outcomes, outcomes', t, o)
    BY <1>0, <2>1 DEF Becomes
  <2>. QED BY <2>1, <2>3, <2>4, ExecutedOne
<1>3. CASE StrictAgentStep(t)
  <2>1. PICK q \in StrictQueries(t) : agent' = [agent EXCEPT ![t] = strict_agent(agent[t], q)]
    BY <1>3 DEF StrictAgentStep
  <2>2. spc' = "gather" /\ plan' = plan /\ outcomes' = outcomes /\ agent[t].pc = "agent"
    BY <1>3 DEF StrictAgentStep
  <2>3. ok(strict_agent(agent[t], q), outcomes[t])
    BY <1>0, <2>2, AgentAnswers
  <2>4. /\ Becomes(agent, agent', t, strict_agent(agent[t], q))
        /\ Becomes(outcomes, outcomes', t, outcomes[t])
    BY <1>0, <2>1, <2>2 DEF Becomes
  <2>. QED BY <2>2, <2>3, <2>4, ExecutedOne
<1>4. CASE StrictToolsStep(t)
  <2>1. /\ agent' = [agent EXCEPT ![t] = strict_tools(agent[t], StrictFilters(t))]
        /\ spc' = "gather" /\ plan' = plan /\ outcomes' = outcomes
    BY <1>4 DEF StrictToolsStep
  <2>2. ok(strict_tools(agent[t], StrictFilters(t)), outcomes[t])
    BY <1>0, AgentExecutes
  <2>3. /\ Becomes(agent, agent', t, strict_tools(agent[t], StrictFilters(t)))
        /\ Becomes(outcomes, outcomes', t, outcomes[t])
    BY <1>0, <2>1 DEF Becomes
  <2>. QED BY <2>1, <2>2, <2>3, ExecutedOne
<1>5. CASE StrictAgentDone(t)
  <2>1. /\ agent' = [agent EXCEPT ![t] = strict_initial_state]
        /\ outcomes' = [outcomes EXCEPT ![t] = strict_result_summary(t)]
        /\ spc' = "gather" /\ plan' = plan
    BY <1>5 DEF StrictAgentDone, StrictReturns
  <2>2. /\ strict_result_summary(t).result = agent[t].result
        /\ strict_result_summary(t).invoked
        /\ strict_result_summary(t).enforced = agent[t].query.enforced
    BY DEF strict_result_summary
  <2>3. ok(strict_initial_state, strict_result_summary(t))
    BY <1>0, <2>2, InitialAgent DEF AgentOk, OutcomeOk
  <2>4. /\ Becomes(agent, agent', t, strict_initial_state)
        /\ Becomes(outcomes, outcomes', t, strict_result_summary(t))
    BY <1>0, <2>1 DEF Becomes
  <2>. QED BY <2>1, <2>3, <2>4, ExecutedOne
<1>. QED BY <1>1, <1>2, <1>3, <1>4, <1>5 DEF StrictTask

LEMMA NodeExecuted ==
  ASSUME Executed, StrictNode PROVE Executed'
<1>1. CASE StrictPlanEnds
  <2>1. /\ UNCHANGED <<agent, outcomes>> /\ spc' \in {"execute", "raised"}
        /\ \A t \in ToolNames : agent[t].result = "none" /\ outcomes[t].result = "none"
    BY <1>1 DEF StrictPlanEnds, Executed
  <2>2. ASSUME NEW t \in ToolNames
        PROVE  /\ AgentOk(agent[t], StrictFilters(t))'
               /\ OutcomeOk(outcomes[t], StrictFilters(t), StrictDependsOn(t) # {})'
    BY <2>1 DEF Executed, AgentOk, OutcomeOk
  <2>. QED BY <2>1, <2>2 DEF Executed
<1>2. CASE StrictResolveEntity
  BY <1>2, ExecutedKept DEF StrictResolveEntity
<1>3. CASE StrictRoute
  BY <1>3, ExecutedKept DEF StrictRoute
<1>4. CASE StrictCallRaises \/ StrictPlanStarts \/ StrictExecuteEnds \/ StrictCompose
  BY <1>4, ExecutedKept DEF StrictCallRaises, StrictPlanStarts, StrictExecuteEnds, StrictCompose
<1>5. CASE StrictStartWave
  BY <1>5, ExecutedKept DEF StrictStartWave
<1>6. CASE StrictMergeWave
  BY <1>6, ExecutedKept DEF StrictMergeWave
<1>. QED BY <1>1, <1>2, <1>3, <1>4, <1>5, <1>6 DEF StrictNode

LEMMA NextExecuted == Executed /\ [Next]_vars => Executed'
<1>. SUFFICES ASSUME Executed, [Next]_vars PROVE Executed'
  OBVIOUS
<1>1. CASE StrictStarts
  BY <1>1, ExecutedKept DEF StrictStarts
<1>2. CASE StrictRejected \/ StrictRaised \/ StrictTimeout
  <2>1. /\ agent' = [t \in ToolNames |-> strict_initial_state]
        /\ outcomes' = [t \in ToolNames |-> NoSummary]
    BY <1>2 DEF StrictRejected, StrictRaised, StrictTimeout, StrictForgotten
  <2>. QED BY <2>1, InitialAgent DEF Executed
<1>3. CASE StrictStep
  BY <1>3, NodeExecuted DEF StrictStep
<1>4. CASE \E t \in ToolNames : StrictTaskStep(t)
  BY <1>4, TaskExecuted DEF StrictTaskStep
<1>5. CASE UNCHANGED svars
  BY <1>5, ExecutedKept DEF svars
<1>6. CASE guard_request \/ classify_topic \/ StrictUnavailable \/ StrictAccepted
           \/ SecondPathNode \/ SecondPathRaises \/ generate_answer \/ UNCHANGED vars
  BY <1>5, <1>6 DEF guard_request, classify_topic, StrictUnavailable, StrictAccepted,
       SecondPathNode, SecondPathRaises, generate_answer, vars
<1>. QED BY <1>1, <1>2, <1>3, <1>4, <1>6 DEF Next

-----------------------------------------------------------------------------
(***************************************************************************)
(* compose_results and the decision.                                       *)
(***************************************************************************)

\* What was composed was composed from the outcomes, and is not touched again;
\* an accepted attempt is one there is no reason to reject.
Decided ==
  /\ composed # NoComposed => spc = "returned" /\ composed \in StrictCompositions
  /\ strategy = "strict" => /\ pc \in {"generate_answer", "done", "raised"}
                            /\ rejection_reason = "none"
                            /\ result = composed.rows

LEMMA InitDecided == Init => Decided
BY DEF Init, StrictInit, Decided

LEMMA SameCompositions ==
  ASSUME UNCHANGED <<plan, outcomes, qty>>
  PROVE  StrictCompositions' = StrictCompositions
BY DEF StrictCompositions, StrictMode

LEMMA PathDecided ==
  ASSUME Decided, strategy # "strict", UNCHANGED ovars,
         StrictNode \/ \E t \in ToolNames : StrictTask(t)
  PROVE  Decided'
<1>1. CASE StrictCompose
  <2>1. UNCHANGED <<plan, outcomes, qty>> /\ composed' \in StrictCompositions /\ spc' = "returned"
    BY <1>1 DEF StrictCompose
  <2>. QED BY <2>1, SameCompositions DEF Decided, ovars
<1>2. CASE ~StrictCompose
  <2>1. composed' = composed /\ spc # "returned"
    <3>1. CASE StrictNode
      BY <1>2, <3>1 DEF StrictNode, StrictResolveEntity, StrictRoute, StrictCallRaises,
           StrictPlanStarts, StrictPlanEnds, StrictStartWave, StrictMergeWave, StrictExecuteEnds
    <3>2. CASE \E t \in ToolNames : StrictTask(t)
      BY <3>2 DEF StrictTask, StrictPlanOneReturns, StrictPlanOneFails, StrictSkips,
         StrictReturns, StrictAgentStep, StrictToolsStep, StrictAgentDone,
         StrictAgentRaises, StrictOrphanEnds
    <3>. QED BY <3>1, <3>2
  <2>. QED BY <2>1 DEF Decided, ovars
<1>. QED BY <1>1, <1>2

\* Nothing composed is a reason to reject.
LEMMA RejectedNothing == rejection_reason = "none" => composed # NoComposed
BY DEF rejection_reason, NoComposed

LEMMA NextDecided == Decided /\ Origins /\ Tasks /\ [Next]_vars => Decided'
<1>. SUFFICES ASSUME Decided, Origins, Tasks, [Next]_vars PROVE Decided'
  OBVIOUS
<1>0. UNCHANGED svars => /\ rejection_reason' = rejection_reason
                         /\ StrictCompositions' = StrictCompositions
                         /\ UNCHANGED <<spc, composed>>
  BY SameCompositions DEF rejection_reason, svars
<1>1. CASE StrictStarts
  <2>1. composed = NoComposed /\ composed' = composed /\ strategy' = strategy /\ strategy # "strict"
    BY <1>1 DEF StrictStarts, ovars, Decided, Origins
  <2>. QED BY <2>1 DEF Decided
<1>2. CASE StrictRejected \/ StrictRaised \/ StrictTimeout
  BY <1>2 DEF StrictRejected, StrictRaised, StrictTimeout, StrictForgotten, Fallback, Decided
<1>3. CASE StrictStep
  <2>1. strategy # "strict"
    BY <1>3 DEF StrictStep, Origins
  <2>. QED BY <1>3, <2>1, PathDecided DEF StrictStep
<1>4. CASE \E t \in ToolNames : StrictTaskStep(t)
  <2>1. CASE strategy # "strict"
    BY <1>4, <2>1, PathDecided DEF StrictTaskStep
  <2>2. CASE strategy = "strict"
    <3>1. spc = "returned"
      BY <2>2, RejectedNothing DEF Decided
    <3>. QED BY <1>4, <3>1 DEF StrictTaskStep, StrictTask, StrictPlanOneReturns,
           StrictPlanOneFails, StrictSkips, StrictAgentStep, StrictToolsStep,
           StrictAgentDone, StrictAgentRaises, StrictOrphanEnds
  <2>. QED BY <2>1, <2>2
<1>5. CASE StrictAccepted
  <2>1. UNCHANGED svars /\ rejection_reason = "none" /\ pc' = "generate_answer"
        /\ result' = composed.rows
    BY <1>5 DEF StrictAccepted
  <2>. QED BY <1>0, <2>1 DEF Decided
<1>6. CASE guard_request \/ classify_topic \/ StrictUnavailable
  <2>1. UNCHANGED svars /\ strategy' # "strict"
    BY <1>6 DEF guard_request, classify_topic, StrictUnavailable, Fallback, Origins
  <2>. QED BY <1>0, <2>1 DEF Decided
<1>7. CASE SecondPathNode \/ SecondPathRaises
  <2>1. UNCHANGED svars /\ strategy' = strategy
    BY <1>7 DEF SecondPathNode, SecondPathRaises
  <2>2. pc \in DOMAIN SecondPath
    BY <1>7 DEF SecondPathNode, SecondPathRaises, SecondPath
  <2>. QED BY <1>0, <2>1, <2>2 DEF Decided, Origins
<1>8. CASE generate_answer \/ UNCHANGED vars
  <2>1. UNCHANGED <<svars, strategy, result>> /\ (pc' = pc \/ pc' \in {"done", "raised"})
    BY <1>8 DEF generate_answer, vars, ovars
  <2>. QED BY <1>0, <2>1 DEF Decided
<1>. QED BY <1>1, <1>2, <1>3, <1>4, <1>5, <1>6, <1>7, <1>8 DEF Next

\* All of it together.
OInv == Origins /\ Tasks /\ Resolving /\ Plans /\ Executed /\ Decided

\* The invariant the theorems about accepted attempts rest on.
THEOREM OrchestratorInvariant == FairSpec => []OInv
<1>1. Init => OInv
  BY InitOrigins, InitTasks, InitResolving, InitPlans, InitExecuted, InitDecided DEF OInv
<1>2. OInv /\ [Next]_vars => OInv'
  BY NextOrigins, NextTasks, NextResolving, NextPlans, NextExecuted, NextDecided DEF OInv
<1>. QED BY <1>1, <1>2, FairIsSafe, PTL DEF SafeSpec

\* Sources none of which failed or is cut off, not all empty.
LEMMA SourcesOk ==
  ASSUME Executed, PlanOk(plan),
         \A s \in {outcomes[plan[i].tool] : i \in DOMAIN plan} :
           ~s.failed /\ s.result # "none" /\ ~s.truncated,
         \E s \in {outcomes[plan[i].tool] : i \in DOMAIN plan} : s.result # "empty"
  PROVE  /\ \A i \in DOMAIN plan :
              LET s == outcomes[plan[i].tool] IN ~s.failed /\ ~s.truncated /\ s.result # "none"
         /\ \E i \in DOMAIN plan : outcomes[plan[i].tool].result = "rows"
<1>1. \A i \in DOMAIN plan : outcomes[plan[i].tool].result \in {"none", "empty", "rows"}
  BY DEF Executed, OutcomeOk, PlanOk, Tooled
<1>. QED BY <1>1

\* What an accepted attempt was composed from.
LEMMA AcceptedSources ==
  ASSUME OInv, strategy = "strict"
  PROVE  /\ result = "rows" /\ ~composed.truncated
         /\ \A i \in DOMAIN plan :
              LET s == outcomes[plan[i].tool] IN ~s.failed /\ ~s.truncated /\ s.result # "none"
         /\ \E i \in DOMAIN plan : outcomes[plan[i].tool].result = "rows"
         /\ StrictMode = "joined" /\ qty = 0 =>
              \A i \in DOMAIN plan : outcomes[plan[i].tool].result # "empty"
         /\ PlanOk(plan) /\ (qty = 0 => Stated(plan))
<1>. DEFINE sources == {outcomes[plan[i].tool] : i \in DOMAIN plan}
            anyfailed == \E s \in sources : s.failed \/ s.result = "none"
            cut == \E s \in sources : s.truncated
            someempty == \E s \in sources : s.result = "empty"
            allempty == \A s \in sources : s.result = "empty"
            failure(t) == [error |-> TRUE, truncated |-> t, rows |-> "empty"]
            success(t, r) == [error |-> FALSE, truncated |-> t, rows |-> r]
<1>1. /\ ~composed.error /\ composed.rows \notin {"none", "empty"} /\ ~composed.truncated
      /\ result = composed.rows
  BY DEF OInv, Decided, rejection_reason
<1>2. composed \in StrictCompositions /\ spc = "returned"
  BY <1>1, RejectedNothing DEF OInv, Decided
<1>3. PlanOk(plan) /\ (qty = 0 => Stated(plan))
  BY <1>2 DEF OInv, Plans
<1>4. ~anyfailed
  <2>. SUFFICES ASSUME anyfailed PROVE FALSE
    OBVIOUS
  <2>1. StrictCompositions = {failure(FALSE)}
    BY DEF StrictCompositions
  <2>. QED BY <1>1, <1>2, <2>1
<1>. HIDE DEF anyfailed
<1>5. CASE StrictMode \in {"single", "separate"}
  <2>1. composed = success(cut, IF allempty THEN "empty" ELSE "rows")
    BY <1>2, <1>4, <1>5 DEF StrictCompositions, anyfailed
  <2>2. ~cut /\ ~allempty /\ composed.rows = "rows"
    <3>. HIDE DEF cut, allempty
    <3>. QED BY <1>1, <2>1
  <2>3. /\ \A i \in DOMAIN plan :
             LET s == outcomes[plan[i].tool] IN ~s.failed /\ ~s.truncated /\ s.result # "none"
        /\ \E i \in DOMAIN plan : outcomes[plan[i].tool].result = "rows"
    BY <1>3, <1>4, <2>2, SourcesOk DEF anyfailed, OInv
  <2>. QED BY <1>1, <1>3, <1>5, <2>2, <2>3
<1>6. CASE StrictMode \notin {"single", "separate"}
  <2>1. ~cut
    <3>. SUFFICES ASSUME cut PROVE FALSE
      OBVIOUS
    <3>1. StrictCompositions = {failure(TRUE)}
      BY <1>4, <1>6 DEF StrictCompositions, anyfailed
    <3>. QED BY <1>1, <1>2, <3>1
  <2>2. ~(someempty /\ (qty = 0 \/ allempty))
    <3>. SUFFICES ASSUME someempty /\ (qty = 0 \/ allempty) PROVE FALSE
      OBVIOUS
    <3>1. StrictCompositions = {success(FALSE, "empty"), failure(FALSE)}
      BY <1>4, <1>6, <2>1 DEF StrictCompositions, anyfailed
    <3>. QED BY <1>1, <1>2, <3>1
  <2>3. composed.rows = "rows"
    <3>1. composed \in {failure(FALSE), success(FALSE, "empty"), success(FALSE, "rows"),
                        success(TRUE, "rows")}
      BY <1>2, <1>4, <1>6, <2>1, <2>2 DEF StrictCompositions, anyfailed
    <3>. QED BY <1>1, <3>1
  <2>4. ~allempty
    <3>1. outcomes[plan[1].tool] \in sources
      BY <1>3 DEF PlanOk, Tooled
    <3>. QED BY <2>2, <3>1
  <2>5. /\ \A i \in DOMAIN plan :
             LET s == outcomes[plan[i].tool] IN ~s.failed /\ ~s.truncated /\ s.result # "none"
        /\ \E i \in DOMAIN plan : outcomes[plan[i].tool].result = "rows"
    BY <1>3, <1>4, <2>1, <2>4, SourcesOk DEF anyfailed, OInv
  <2>6. qty = 0 => \A i \in DOMAIN plan : outcomes[plan[i].tool].result # "empty"
    BY <2>2
  <2>. QED BY <1>1, <1>3, <2>3, <2>5, <2>6
<1>. QED BY <1>5, <1>6

LEMMA AcceptedIsComplete == OInv => AcceptedComplete
BY AcceptedSources DEF AcceptedComplete

\* An accepted strict attempt is complete: every subquery of its plan was
\* executed and none failed or was cut off, and rows came out of it
\* (rejection_reason, compose_results).
THEOREM AcceptedCompleteCorrect == FairSpec => []AcceptedComplete
BY OrchestratorInvariant, AcceptedIsComplete, PTL

LEMMA AcceptedHasNumbers == OInv => NumbersReachAgents
<1>. SUFFICES ASSUME OInv, strategy = "strict"
              PROVE  /\ qty = 0 =>
                         \A n \in Numbers : Question.numbers[n] > entity_numbers(n) =>
                           \E i \in DOMAIN plan : /\ plan[i].numbers[n] > 0
                                                 /\ outcomes[plan[i].tool].invoked
                     /\ \A i \in DOMAIN plan :
                         outcomes[plan[i].tool].result = "rows" =>
                           plan[i].filters \subseteq outcomes[plan[i].tool].enforced
  BY DEF NumbersReachAgents
<1>1. /\ \A i \in DOMAIN plan : outcomes[plan[i].tool].result # "none"
      /\ StrictMode = "joined" /\ qty = 0 =>
           \A i \in DOMAIN plan : outcomes[plan[i].tool].result # "empty"
      /\ PlanOk(plan) /\ (qty = 0 => Stated(plan))
  BY AcceptedSources
<1>2. \A i \in DOMAIN plan : PlanPlace(plan[i].tool) = i
  BY <1>1, PlacesUnique DEF PlanOk, PlanPlace
<1>3. \A i \in DOMAIN plan :
        /\ plan[i].tool \in ToolNames
        /\ OutcomeOk(outcomes[plan[i].tool], plan[i].filters, StrictDependsOn(plan[i].tool) # {})
  BY <1>1, <1>2 DEF OInv, Executed, StrictFilters, PlanOk, Tooled
<1>4. ASSUME qty = 0, NEW i \in DOMAIN plan PROVE outcomes[plan[i].tool].invoked
  <2>1. CASE plan[i].dependsOn = {}
    <3>1. StrictDependsOn(plan[i].tool) = {}
      BY <1>2, <2>1 DEF StrictDependsOn
    <3>. QED BY <1>1, <1>3, <3>1 DEF OutcomeOk
  <2>2. CASE plan[i].dependsOn # {}
    <3>1. StrictMode = "joined"
      BY <1>1, <2>2 DEF PlanOk, StrictMode
    <3>. QED BY <1>1, <1>3, <1>4, <3>1 DEF OutcomeOk
  <2>. QED BY <2>1, <2>2
<1>5. ASSUME qty = 0, NEW n \in Numbers, Question.numbers[n] > entity_numbers(n)
      PROVE  \E i \in DOMAIN plan : plan[i].numbers[n] > 0 /\ outcomes[plan[i].tool].invoked
  <2>1. PICK i \in DOMAIN plan : plan[i].numbers[n] > 0
    BY <1>1, <1>5 DEF Stated
  <2>. QED BY <1>4, <1>5, <2>1
<1>. QED BY <1>3, <1>5 DEF OutcomeOk

\* No number of the question gets lost on the way to an accepted answer, for
\* every question, route and plan (route_query's check, the filters check of the
\* agent, compose_results).
THEOREM NumbersReachAgentsCorrect == FairSpec => []NumbersReachAgents
BY OrchestratorInvariant, AcceptedHasNumbers, PTL
=============================================================================
