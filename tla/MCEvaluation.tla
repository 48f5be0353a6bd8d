---------------------------- MODULE MCEvaluation ----------------------------
(***************************************************************************)
(* Evaluation with two cases: one question of the relational source, whose *)
(* contract has no composed Gold, and one that needs the graph first, then *)
(* the relational source over its rows, and a composed Gold.  Every trial  *)
(* may go wrong in its plan or in its data, in orchestrator or in source   *)
(* mode, and in each such way.                                             *)
(***************************************************************************)
EXTENDS Evaluation, TLC

Sub(id, tool, deps, joins, outputs, bindings, numbers) ==
  [id |-> id, tool |-> tool, deps |-> deps, joins |-> joins, outputs |-> outputs,
   bindings |-> bindings, numbers |-> numbers, close |-> TRUE]

NoBindings == [k \in {} |-> <<>>]
Stock == Sub("s1", "sql", <<>>, <<>>, <<"qty">>, NoBindings, {10})
Parts == Sub("g1", "graph", <<>>, <<"part">>, <<"part", "name">>, NoBindings, {})
PartStock == Sub("s1", "sql", <<"g1">>, <<"part">>, <<"part", "qty">>,
                 [part |-> <<"g1", "part">>], {10})

MCContracts ==
  [simple |-> [route |-> "SQL", entities |-> <<[kind |-> "material"]>>, tools |-> {"sql"},
               subs |-> <<Stock>>, numbers |-> {10}, final |-> NoFinal, full |-> TRUE],
   hybrid |-> [route |-> "HYBRID", entities |-> <<[kind |-> "part"]>>,
               tools |-> {"sql", "graph"}, subs |-> <<Parts, PartStock>>, numbers |-> {10},
               final |-> [mode |-> "join", transform |-> "top", rows |-> "gold"],
               full |-> TRUE]]

MCManifest == <<"simple", "hybrid">>
(* Nothing tells one accepted snapshot from another.                       *)
SnapshotSymmetry == Permutations(Snapshots)

ThreeRuns == <<1, 2, 3>>

----------------------------------------------------------------------------
(* What may become of a plan: ids of the model's own, a dependency,        *)
(* an output, a binding or a number lost, a step lost, doubled or added.   *)
Renamed(subs) ==
  LET other(id) == IF id = "s1" THEN "q2" ELSE "q1" IN
  [i \in DOMAIN subs |->
     [subs[i] EXCEPT !.id = other(@),
                     !.deps = [k \in DOMAIN @ |-> other(@[k])],
                     !.bindings = [k \in DOMAIN @ |-> <<other(@[k][1]), @[k][2]>>]]]

Last(subs, change(_)) == [subs EXCEPT ![Len(subs)] = change(@)]

Plans(subs) ==
  {subs, Renamed(subs), [i \in DOMAIN subs |-> subs[Len(subs) + 1 - i]], <<>>, SubSeq(subs, 1, Len(subs) - 1),
   Append(subs, subs[Len(subs)]), Append(subs, [subs[1] EXCEPT !.id = "x"]),
   [subs EXCEPT ![1].id = "x"],
   Last(subs, LAMBDA s : [s EXCEPT !.deps = <<>>]),
   Last(subs, LAMBDA s : [s EXCEPT !.joins = <<>>]),
   Last(subs, LAMBDA s : [s EXCEPT !.outputs = SubSeq(@, 1, Len(@) - 1)]),
   Last(subs, LAMBDA s : [s EXCEPT !.outputs = Append(@, "extra")]),
   Last(subs, LAMBDA s : [s EXCEPT !.bindings = NoBindings]),
   Last(subs, LAMBDA s : [s EXCEPT !.numbers = {}]),
   Last(subs, LAMBDA s : [s EXCEPT !.close = FALSE]),
   Last(subs, LAMBDA s : [s EXCEPT !.tool = "graph"])}

(* The draft has the steps of the model's answer, in the order they are    *)
(* executed; the question of a single step is the user's own again.        *)
Normalizes(draft, raw) ==
  LET steps(s) == {<<s[i].id, s[i].tool, s[i].deps>> : i \in DOMAIN s} IN
  Len(draft) = Len(raw) /\ steps(draft) = steps(raw)

(* The plan has the steps of the draft, with outputs and bindings of its   *)
(* own.                                                                    *)
Completes(subs, draft) ==
  /\ Len(subs) = Len(draft)
  /\ \A i \in DOMAIN subs : \A f \in {"id", "tool", "deps"} : subs[i][f] = draft[i][f]

(* The tool plan names the tools of the draft.                             *)
ToolsOf(draft) == SelectSeq(<<"graph", "sql">>,
                            LAMBDA t : \E i \in DOMAIN draft : draft[i].tool = t)

Source(rows, attempts) == [query |-> TRUE, rows |-> rows, attempts |-> attempts]

Sources ==
  {NoSource, Source("gold", <<"ok">>), Source("gold", <<"empty", "ok">>),
   Source("gold", <<"unsafe", "ok">>), Source("other", <<"failed", "ok">>),
   Source("broken", <<"missing alias", "missing alias">>),
   Source("error", <<"failed", "failed">>), Source("error", <<"unsafe", "unsafe">>),
   [query |-> FALSE, rows |-> "gold", attempts |-> <<>>]}

Composed(rows) == [mode |-> "join", transform |-> "top", rows |-> rows, whole |-> TRUE]

Composeds ==
  {NoComposed, [Composed("gold") EXCEPT !.whole = FALSE],
   [Composed("gold") EXCEPT !.mode = "single"],
   [Composed("gold") EXCEPT !.transform = NoTransform]}
  \cup {Composed(r) : r \in {"gold", "other", "broken", "error"}}

Candidates == {"gold", "other", "broken", "unsafe", "invalid", "timeout", "failing",
               "unreachable"}

Good(c) ==
  LET k == MCContracts[c] IN
  [entity |-> k.entities, tools |-> IF c = "simple" THEN <<"sql">> ELSE <<"graph", "sql">>,
   raw |-> k.subs, draft |-> k.subs, subs |-> k.subs,
   transform |-> IF k.final = NoFinal THEN NoTransform ELSE k.final.transform,
   results |-> [t \in {"sql", "graph"} |-> Source("gold", <<"ok">>)],
   composed |-> Composed("gold"),
   candidate |-> [t \in {"sql", "graph"} |-> "gold"], raised |-> FALSE]

ObservationsOf(c) ==
  LET g == Good(c) k == MCContracts[c] IN
  {[g EXCEPT !.raised = TRUE], [g EXCEPT !.entity = <<>>],
   [g EXCEPT !.entity = <<[kind |-> "plant"]>>],
   [g EXCEPT !.entity = <<[kind |-> g.entity[1].kind, name |-> "n"]>>]}
  \cup {[g EXCEPT !.tools = t] : t \in {<<>>, <<"sql">>, <<"graph">>, <<"sql", "sql">>}}
  \cup {[g EXCEPT !.transform = t] : t \in {NoTransform, "top"}}
  \cup {[g EXCEPT !.raw = p[1], !.draft = p[2], !.subs = p[3], !.tools = ToolsOf(p[2])] :
          p \in {q \in Plans(k.subs) \X Plans(k.subs) \X Plans(k.subs) :
                  Normalizes(q[2], q[1]) /\ Completes(q[3], q[2])}}
  \cup {[g EXCEPT !.results = [sql |-> a, graph |-> b], !.composed = m] :
          a, b \in Sources, m \in Composeds}
  \cup {[g EXCEPT !.candidate = [sql |-> a, graph |-> b]] : a, b \in Candidates}

MCObservations == [c \in {"simple", "hybrid"} |-> ObservationsOf(c)]
============================================================================
