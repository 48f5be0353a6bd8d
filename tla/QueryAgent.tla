----------------------------- MODULE QueryAgent -----------------------------
(***************************************************************************)
(* What a query agent promises to the plan that calls it: it makes a       *)
(* bounded number of attempts and then either returns a summary from       *)
(* AgentOutcomes or raises.  RetryAgent implements this specification;     *)
(* ExecutePlan is written against it.                                      *)
(***************************************************************************)
EXTENDS QueryOutcomes

CONSTANT Tool

VARIABLES phase, spent, outcome

vars == <<phase, spent, outcome>>

Init ==
  /\ phase = "running"
  /\ spent = 0
  /\ outcome = NoOutcome

Attempt ==
  /\ phase = "running"
  /\ spent < MaxAttempts
  /\ spent' = spent + 1
  /\ UNCHANGED <<phase, outcome>>

Return ==
  /\ phase = "running"
  /\ spent > 0
  /\ outcome' \in AgentOutcomes(Tool, spent)
  /\ phase' = "done"
  /\ UNCHANGED spent

Raise ==
  /\ phase = "running"
  /\ phase' = "raised"
  /\ UNCHANGED <<spent, outcome>>

Next == Attempt \/ Return \/ Raise

SafeSpec == Init /\ [][Next]_vars

Spec == SafeSpec /\ WF_vars(Return \/ Raise)
=============================================================================
