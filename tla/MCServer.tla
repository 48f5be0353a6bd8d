------------------------------ MODULE MCServer ------------------------------
(***************************************************************************)
(* Three servers on one database: one of a release with two migrations     *)
(* whose reader account is an administrator, one of the next release, and  *)
(* one of a branch that edited the second migration into SQL that is       *)
(* refused.                                                                *)
(***************************************************************************)
EXTENDS Server

F(name, sha256) == [name |-> name, sha256 |-> sha256]

MCFiles ==
  [admin |-> <<F("0001", "a"), F("0002", "b")>>,
   next |-> <<F("0001", "a"), F("0002", "b"), F("0003", "c")>>,
   branch |-> <<F("0001", "a"), F("0002", "x"), F("0003", "c")>>]

MCStarts == [admin |-> 1, next |-> 2, branch |-> 1]
============================================================================
