--------------------------- MODULE MCOrchestrator ---------------------------
(***************************************************************************)
(* Orchestrator for a question with one number, stated as a condition and  *)
(* once more in the name of an entity, which may be similar to names that  *)
(* exist, or confirmed; and for routes of one or two items with every      *)
(* combination of dependencies, join keys, transforms and kept numbers.    *)
(***************************************************************************)
EXTENDS Orchestrator

MCAliases == [sql |-> {"componentId", "stock"}, graph |-> {"componentId", "depth"}]
MCTransformOutputs == MCAliases
MCShared == {"componentId"}

MCQuestion == [numbers |-> [n \in {"58"} |-> 2], filters |-> {"58"}, quantities |-> {5}]

Frame == <<"product", 1>>
Wheel == <<"product", 2>>
Maker == <<"supplier", 3>>

MCNamed ==
  [e \in {Frame, Wheel, Maker} |-> [n \in {"58"} |-> IF e = Frame THEN 1 ELSE 0]]

\* What the model extracts for one name, and what the database has for it.
MCNames ==
  [kind : {"name"}, type : {"product"}, found : {{}, {Frame}},
   candidates : {{}, {Wheel}, {Frame, Wheel}}, descriptor : BOOLEAN, fragment : BOOLEAN]

MCSupplier ==
  [kind |-> "name", type |-> "supplier", found |-> {Maker}, candidates |-> {},
   descriptor |-> FALSE, fragment |-> FALSE]

MCSkipped == [MCSupplier EXCEPT !.kind = "skipped"]

MCReadings ==
  [confirmed : {{}, {Frame}}, rows : {{Frame, Maker}, {Wheel, Maker}},
   tool_calls : BOOLEAN,
   extractions : {<<>>, <<MCSkipped>>} \cup {<<x>> : x \in MCNames}
                   \cup {<<x, MCSupplier>> : x \in MCNames},
   category : {{}, {Frame}}, relation : {{}, {Frame, Wheel}}, leading : {{}, {Frame}}]

\* How a subquery's question treats the number: dropped, mentioned, a condition.
MCItem(id, tool, on, joined, alias, number) ==
  [id |-> id, tool |-> tool, dependsOn |-> on,
   joinKeys |-> IF joined THEN <<"componentId">> ELSE <<>>,
   bindings |-> {<<d, alias, TRUE>> : d \in on},
   numbers |-> [n \in {"58"} |-> IF number = "dropped" THEN 0 ELSE 1],
   filters |-> IF number = "condition" THEN {"58"} ELSE {}]

MCSingles ==
  {[tool_plan |-> <<t>>, qty |-> 0,
    items |-> <<MCItem("a", t, {}, FALSE, "componentId", x)>>] :
     t \in ToolNames, x \in {"dropped", "mentioned", "condition"}}

\* The first item is a; the second depends on it or not, or they are in a cycle.
\* The order of independent items is of no consequence.
MCPairs ==
  {[tool_plan |-> <<o[2], o[3]>>, qty |-> q,
    items |-> <<MCItem("a", o[2], IF o[1] = "cycle" THEN {"b"} ELSE {}, j,
                       "componentId", x[1]),
                MCItem("b", o[3], IF o[1] = "none" THEN {} ELSE {"a"}, k, alias, x[2])>>] :
     o \in {<<"none", "sql", "graph">>, <<"on a", "sql", "graph">>,
            <<"on a", "graph", "sql">>, <<"on a", "sql", "sql">>,
            <<"cycle", "graph", "sql">>},
     q \in {0, 5, 7}, j \in BOOLEAN, k \in BOOLEAN, alias \in {"componentId", "stock"},
     x \in {<<"dropped", "dropped">>, <<"condition", "dropped">>,
            <<"dropped", "mentioned">>}}

MCRouteDocs == MCSingles \cup MCPairs
=============================================================================
