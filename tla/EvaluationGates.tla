-------------------------- MODULE EvaluationGates --------------------------
(***************************************************************************)
(* What is concluded from the records of an evaluation                     *)
(* (backend/evaluation/gates.py, reporting.py, stability_policy.py).  A    *)
(* record is [case, run, status] with status PASS, FAIL or ERROR; an       *)
(* artifact has the records of its job, its options and whether an         *)
(* infrastructure error was met.                                           *)
(***************************************************************************)
EXTENDS Naturals, Sequences, FiniteSets

CONSTANTS
  ExpectedCases,  \* EXPECTED_CASE_COUNT, 90
  ExpectedRuns,   \* EXPECTED_RUNS, <<1, 2, 3>>
  NoPolicy, NoRatchet

CasesOf(records) == {records[i].case : i \in DOMAIN records}
Trials(records, c) == {i \in DOMAIN records : records[i].case = c}
Statuses(records, c) == {records[i].status : i \in Trials(records, c)}
Failures(records, c) == Cardinality({i \in Trials(records, c) : records[i].status # "PASS"})
RunsOf(records, c) ==
  LET of == SelectSeq(records, LAMBDA r : r.case = c) IN [i \in DOMAIN of |-> of[i].run]

(* What is kept of an artifact as a ratchet baseline; a case passed when   *)
(* every record of it did.                                                 *)
_load_ratchet_baseline(a) ==
  [dirty |-> a.dirty, model |-> a.model, snapshot |-> a.snapshot, mode |-> a.mode,
   cases |-> CasesOf(a.records),
   passed |-> {c \in CasesOf(a.records) : Statuses(a.records, c) = {"PASS"}}]

(* _classify, for a case without ERROR.                                    *)
Outcome(statuses) ==
  IF statuses = {"PASS"} THEN "CONSISTENT_PASS"
  ELSE IF statuses = {"FAIL"} THEN "CONSISTENT_FAIL"
  ELSE "VARIABLE"

(* build_stability_policy raises unless the artifact is a clean, complete  *)
(* run of every case three times on the production graph.                  *)
PolicyPossible(a) ==
  /\ a.kind = "run"
  /\ Len(a.records) = ExpectedCases * Len(ExpectedRuns)
  /\ ~a.dirty
  /\ a.mode = "orchestrator"
  /\ \A i \in DOMAIN a.records : a.records[i].status # "ERROR"
  /\ Cardinality(CasesOf(a.records)) = ExpectedCases
  /\ \A c \in CasesOf(a.records) : RunsOf(a.records, c) = ExpectedRuns

build_stability_policy(a) ==
  [model |-> a.model, snapshot |-> a.snapshot, mode |-> a.mode,
   cases |-> [c \in CasesOf(a.records) |-> Outcome(Statuses(a.records, c))]]

(* The part of build_summary that decides whether the policy and the       *)
(* ratchet baseline may be compared with this run at all.                  *)
PolicyErrors(run, policy) ==
  \/ run.dirty
  \/ policy.model # run.model \/ policy.snapshot # run.snapshot
  \/ policy.mode # run.mode
  \/ DOMAIN policy.cases # CasesOf(run.records)

RatchetErrors(run, ratchet) ==
  \/ ratchet.dirty
  \/ ratchet.mode # "orchestrator"
  \/ ratchet.model # run.model \/ ratchet.snapshot # run.snapshot
  \/ ratchet.cases # CasesOf(run.records)

(* Mutant: a recovered case may be lost again.                             *)
Regressed_policy(records, c, baseline, ratcheted) ==
  \/ "ERROR" \in Statuses(records, c)
  \/ baseline = "CONSISTENT_PASS" /\ Failures(records, c) > 0
  \/ baseline = "VARIABLE" /\ Cardinality(Trials(records, c)) >= 3
     /\ Failures(records, c) = Cardinality(Trials(records, c))

(* Whether a case's trials are a regression from its baseline outcome.     *)
Regressed(records, c, baseline, ratcheted) ==
  \/ "ERROR" \in Statuses(records, c)
  \/ baseline = "CONSISTENT_PASS" /\ Failures(records, c) > 0
  \/ baseline = "VARIABLE" /\ Cardinality(Trials(records, c)) >= 3
     /\ Failures(records, c) = Cardinality(Trials(records, c))
  \/ ratcheted /\ Failures(records, c) > 0

build_change_regression_gate(run, policy, ratchet) ==
  LET baseline(c) == IF c \in DOMAIN policy.cases THEN policy.cases[c] ELSE "none"
      ratcheted == IF ratchet = NoRatchet THEN {} ELSE ratchet.passed
      cases == CasesOf(run.records) IN
  IF policy = NoPolicy THEN "NOT_EVALUATED"
  ELSE IF \/ PolicyErrors(run, policy)
          \/ ratchet # NoRatchet /\ RatchetErrors(run, ratchet)
          \/ \E c \in cases : Regressed(run.records, c, baseline(c), c \in ratcheted)
       THEN "FAIL"
  ELSE IF \E c \in cases : /\ baseline(c) = "VARIABLE" /\ Failures(run.records, c) > 0
                           /\ Cardinality(Trials(run.records, c)) < 3
       THEN "RERUN_REQUIRED"
  ELSE "PASS"
============================================================================
