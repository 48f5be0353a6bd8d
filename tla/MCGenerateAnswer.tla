-------------------------- MODULE MCGenerateAnswer --------------------------
(***************************************************************************)
(* GenerateAnswer for every small result of one or two sources: joins with *)
(* null, missing, foreign and repeated keys and conflicting fields,        *)
(* sections of up to three rows of four lengths, bills of materials with  *)
(* two components, several paths and suppliers, and every failure.         *)
(***************************************************************************)
EXTENDS GenerateAnswer

\* Rows of the first and of the second source of a join.
MCLeft == [k : {0, 1, 2}, a : {1, 2}]
MCRight == [k : {0, 1, 3}, a : {1, 2}] \cup [k : {1, 2}, b : {3}] \cup [b : {3}]

MCRowChars(row) == IF "a" \in DOMAIN row THEN 2 * row.a - 1 ELSE 4

UpTo(n, S) == BoundedSeq(S, n)

\* What a tool leaves behind: rows, possibly cut off, no rows, or an error.
Complete(rows) ==
  [rows |-> rows, error |-> FALSE, truncated |-> FALSE,
   empty_reason |-> IF rows = <<>> THEN "NO_DATA" ELSE "none"]
MCCut == [Complete(<<[k |-> 1, a |-> 1]>>) EXCEPT !.truncated = TRUE]
MCUnsure == [Complete(<<>>) EXCEPT !.empty_reason = "INCONCLUSIVE"]
MCOdd == {MCCut, MCUnsure, [Complete(<<>>) EXCEPT !.error = TRUE],
          [Complete(<<>>) EXCEPT !.empty_reason = "none"]}

MCJoins ==
  [ids : {<<"x", "y">>}, joinKeys : {{"k"}}, qty : {0}]

MCSourcesOf(L, R) == {<<l, r>> : l \in L, r \in R}

MCJoined ==
  [failure : {"none"}, plan : MCJoins,
   sources : MCSourcesOf({Complete(s) : s \in UpTo(2, MCLeft)},
                         {Complete(s) : s \in UpTo(2, MCRight)})
             \cup MCSourcesOf({Complete(s) : s \in UpTo(3, [k : {1}, a : {1}])},
                              {Complete(s) : s \in UpTo(2, [k : {1}, b : {3}])})
             \cup MCSourcesOf(MCOdd, MCOdd \cup {Complete(<<[k |-> 1, b |-> 3]>>)})]

MCSections == [k : {1}, a : {1, 2, 3, 4}]

MCSeparate ==
  [failure : {"none"}, plan : [ids : {<<"x", "y">>}, joinKeys : {{}}, qty : {0}],
   sources : MCSourcesOf({Complete(s) : s \in UpTo(3, MCSections)},
                         {Complete(s) : s \in UpTo(2, MCSections)})
             \cup MCSourcesOf({Complete(s) : s \in UpTo(2, MCSections)},
                              {Complete(s) : s \in UpTo(3, [k : {1}, a : {1, 2}])})
             \cup MCSourcesOf(MCOdd, MCOdd \cup {Complete(<<[k |-> 2, a |-> 2]>>)})]

MCSingle ==
  [failure : {"none"}, plan : [ids : {<<"x">>}, joinKeys : {{}}, qty : {0}],
   sources : {<<s>> : s \in {Complete(t) : t \in UpTo(3, MCSections)} \cup MCOdd}]

\* Guards and planning leave no plan; execution a plan whose sources failed.
MCFailed ==
  [failure : {"user_correctable", "internal", "infrastructure"},
   plan : [ids : {<<>>, <<"x">>}, joinKeys : {{}}, qty : {0}],
   sources : {<<[Complete(<<>>) EXCEPT !.error = TRUE]>>}]

Path(component, path, quantities, supplier, sname) ==
  [finished |-> 1, component |-> component, cname |-> component,
   depth |-> Len(quantities), path |-> path, quantities |-> quantities,
   supplier |-> supplier, sname |-> sname]

MCPaths ==
  {Path(2, <<1, 2>>, <<1>>, 0, 0), Path(2, <<1, 2>>, <<1>>, 7, 1),
   Path(2, <<1, 2>>, <<2>>, 8, 2), Path(2, <<1, 3, 2>>, <<2, 2>>, 7, 1),
   Path(2, <<1, 3, 2>>, <<2, 2>>, 8, 1), Path(3, <<1, 3>>, <<2>>, 7, 2),
   Path(3, <<3, 1>>, <<2>>, 0, 0)}

MCStock == [component : {2, 3}, makeFlag : {FALSE}, actualStock : {1, 5}]
             \cup [component : {2, 3}, makeFlag : {TRUE}, actualStock : {1}]

MCBom ==
  [failure : {"none"}, plan : [ids : {<<"x", "y">>}, joinKeys : {{"component"}}, qty : {3}],
   sources : MCSourcesOf({Complete(g) : g \in UpTo(3, MCPaths)},
                         {Complete(s) : s \in UpTo(2, MCStock)})]

MCInputs == MCJoined \cup MCSeparate \cup MCSingle \cup MCFailed \cup MCBom
=============================================================================
