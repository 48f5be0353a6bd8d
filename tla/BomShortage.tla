---------------------------- MODULE BomShortage ----------------------------
(***************************************************************************)
(* orchestrator/bom_shortage.py: the shortage of every purchased component *)
(* of one finished product, from the paths of its bill of materials and    *)
(* the stock of its components.                                            *)
(*                                                                         *)
(* A GRAPH row is [finished, component, cname, depth, path, quantities,    *)
(* supplier, sname] and a SQL row [component, makeFlag, actualStock].      *)
(* Names stand for themselves; 0 is null.  Stock and production quantity   *)
(* are counted in units of 1 / Quantum of the smallest amount that is      *)
(* shown.                                                                  *)
(***************************************************************************)
EXTENDS Ordering, SequencesExt

CONSTANT Quantum

ASSUME QuantumAssumption == Quantum \in Nat \ {0}

\* _normalized: ROUND_HALF_EVEN to a multiple of the quantum.
normalized(v) ==
  LET low == v \div Quantum
      rest == 2 * (v % Quantum)
  IN  IF rest > Quantum \/ (rest = Quantum /\ low % 2 = 1) THEN low + 1 ELSE low

\* path_required: the production quantity times all quantities of a path.
Times(x, quantities) ==
  LET upTo[n \in 0 .. Len(quantities)] == IF n = 0 THEN x ELSE upTo[n - 1] * quantities[n]
  IN  upTo[Len(quantities)]

\* The checks of one GRAPH row.
graph_row_valid(row) ==
  /\ row.depth >= 1
  /\ \A i \in DOMAIN row.quantities : row.quantities[i] > 0
  /\ Len(row.path) = Len(row.quantities) + 1
  /\ row.depth = Len(row.quantities)
  /\ row.path[1] = row.finished /\ row.path[Len(row.path)] = row.component
  /\ (row.supplier = 0) = (row.sname = 0)

NoComponents == [c \in {} |-> 0]

\* f[x] = y of a dict.
put(f, x, y) == [z \in (DOMAIN f) \cup {x} |-> IF z = x THEN y ELSE f[z]]

setdefault(f, x, y) == IF x \in DOMAIN f THEN f ELSE put(f, x, y)

\* What the loop over the GRAPH rows has collected: components, in the order in
\* which they were met, the name of every supplier, the finished products.
NothingRead ==
  [ok |-> TRUE, components |-> NoComponents, names |-> NoComponents, finished |-> {}]

\* Mutant: paths are not told apart, every row of a component adds to it.
add_path_PerRow(paths, row, production) ==
  put(paths, Append(row.path, Cardinality(DOMAIN paths)), Times(production, row.quantities))

\* component["paths"].setdefault(path_key, path_required)
add_path(paths, row, production) ==
  setdefault(paths, row.path, Times(production, row.quantities))

\* One round of the loop over the GRAPH rows.
read_graph_row(acc, row, production) ==
  LET known == acc.components
      component ==
        IF row.component \in DOMAIN known THEN known[row.component]
        ELSE [finished |-> row.finished, cname |-> row.cname,
              paths |-> NoComponents, quantities |-> NoComponents, suppliers |-> {}]
      seen == component.quantities
      agrees ==
        /\ graph_row_valid(row)
        /\ row.supplier \in DOMAIN acc.names => acc.names[row.supplier] = row.sname
        /\ component.finished = row.finished /\ component.cname = row.cname
        /\ row.path \in DOMAIN seen => seen[row.path] = row.quantities
      grown ==
        [component EXCEPT
           !.quantities = setdefault(@, row.path, row.quantities),
           !.paths = add_path(@, row, production),
           !.suppliers = IF row.supplier = 0 THEN @ ELSE @ \cup {row.supplier}]
  IN  IF ~acc.ok \/ ~agrees THEN [acc EXCEPT !.ok = FALSE]
      ELSE [ok |-> TRUE, components |-> put(known, row.component, grown),
            names |-> setdefault(acc.names, row.supplier, row.sname),
            finished |-> acc.finished \cup {row.finished}]

\* The loop over the GRAPH rows.
read_graph(graph, production) ==
  LET upTo[n \in 0 .. Len(graph)] ==
        IF n = 0 THEN NothingRead ELSE read_graph_row(upTo[n - 1], graph[n], production)
  IN  upTo[Len(graph)]

\* The loop over the SQL rows: one row per component, exactly the components of
\* the GRAPH rows.
sql_rows_valid(sql, components) ==
  /\ Cardinality({sql[i].component : i \in DOMAIN sql}) = Len(sql)
  /\ {sql[i].component : i \in DOMAIN sql} = components

Total(f) == FoldFunction(LAMBDA a, b : a + b, 0, f)

\* The rows of the result; not ok where the code raises ValueError.
calculate_bom_shortages(graph, sql, production) ==
  LET read == read_graph(graph, production)
      stock(c) == CHOOSE r \in ToSet(sql) : r.component = c
      required(c) == Total(read.components[c].paths)
      short == {c \in DOMAIN read.components :
                  ~stock(c).makeFlag /\ required(c) > stock(c).actualStock}
      row(c) == [component |-> c, cname |-> read.components[c].cname,
                 requiredQty |-> normalized(required(c)),
                 actualStock |-> normalized(stock(c).actualStock),
                 shortageQty |-> normalized(required(c) - stock(c).actualStock),
                 suppliers |-> read.components[c].suppliers]
      rows == {row(c) : c \in short}
      before == {p \in rows \X rows :
                   \/ p[1].shortageQty > p[2].shortageQty
                   \/ p[1].shortageQty = p[2].shortageQty /\ p[1].component < p[2].component}
  IN  IF /\ read.ok /\ Cardinality(read.finished) <= 1
         /\ sql_rows_valid(sql, DOMAIN read.components)
        THEN [ok |-> TRUE, rows |-> InOrder(rows, before)]
        ELSE [ok |-> FALSE, rows |-> <<>>]

-----------------------------------------------------------------------------
(* The same without the loop, for the set of GRAPH rows.                   *)

Bill(graph, c) == {g \in graph : g.component = c}

\* Every distinct path of a component counts once.
RequiredFor(graph, c, production) ==
  Total([p \in {g.path : g \in Bill(graph, c)} |->
           Times(production, (CHOOSE g \in Bill(graph, c) : g.path = p).quantities)])

ShortIn(graph, sql, production) ==
  {s \in sql : ~s.makeFlag /\ RequiredFor(graph, s.component, production) > s.actualStock}
=============================================================================
