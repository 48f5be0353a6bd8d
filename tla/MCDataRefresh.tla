--------------------------- MODULE MCDataRefresh ---------------------------
(***************************************************************************)
(* Jobs over five dumps (whole, of fewer tables than the live database,    *)
(* cut inside a table, without the fixture rows, no dump at all) and seven *)
(* extractions: good ones and one for each check of validate_before_write  *)
(* and for the fixtures.                                                   *)
(***************************************************************************)
EXTENDS DataRefresh, TLC

CONSTANTS j1, j2, c1, g1

Dump(declared, batches) == [declared |-> declared, batches |-> batches]
MCDumps ==
  { Dump({"a", "b"}, <<{"a"}, {"b", "row"}>>),
    Dump({"a"}, <<{"a", "row"}>>),
    Dump({"a", "b"}, <<{"a", "row"}>>),
    Dump({"a", "b"}, <<{"a", "b"}>>),
    Dump({}, <<>>) }
MCFixtures == {"row"}
MCLive == {"a", "b", "row"}

Rel(k, f, t) == [key |-> k, from |-> f, to |-> t]
Rows(nodes, rels) == [nodes |-> nodes, rels |-> rels]
Good == Rows(<<"p", "q">>, <<Rel("k", "p", "q")>>)
MCExtracts ==
  { Good, Rows(<<>>, <<Rel("k", "p", "q")>>), Rows(<<"p", "q">>, <<>>),
    Rows(<<"p", NoName>>, <<Rel("k", "p", "p")>>),
    Rows(<<"p", "p">>, <<Rel("k", "p", "p")>>),
    Rows(<<"p", "r">>, <<Rel("k", "p", "q")>>),
    Rows(<<"p">>, <<Rel("k", "p", "p")>>) }
MCFixtureNodes == {"p", "q"}

JobSymmetry == Permutations(Jobs)
============================================================================
