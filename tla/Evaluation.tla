----------------------------- MODULE Evaluation -----------------------------
(***************************************************************************)
(* `python -m evaluation`: configuration, connections, the loop over cases *)
(* and runs, the artifact it leaves (backend/evaluation/cli.py, runner.py, *)
(* reporting.py), and the use made of artifacts: a stability policy is     *)
(* built from one, and a candidate whose change gate passed becomes the    *)
(* ratchet baseline of the next (queries/evaluation/README.md).            *)
(***************************************************************************)
EXTENDS EvaluationScores, EvaluationGates

CONSTANTS
  Contracts,      \* case -> its contract
  Manifest,       \* the cases, in the manifest's order
  Observations,   \* case -> what a trial of it may show
  RunCounts,      \* values of --runs
  Snapshots,      \* states of the databases that pass the manifest's checks
  BadSnapshot,    \* one that does not
  Models,
  MaxJobs,        \* bound: evaluations started
  NoJob, NoArtifact

Cases == Elems(Manifest)
Modes == {"orchestrator", "source"}

(* argparse reads --runs as an integer; a negative one is refused like 0.  *)
ASSUME RunsAssumption == RunCounts \subseteq Nat

ASSUME ManifestAssumption == Manifest \in Seq(Cases)

(* load_manifest refuses a contract without steps, with an id used twice,  *)
(* or with other tools than its steps'.                                    *)
ASSUME ContractsAssumption ==
  \A c \in Cases :
    LET k == Contracts[c] IN
    /\ k.subs \in Seq(Elems(k.subs)) /\ k.subs # <<>>
    /\ \A i, j \in DOMAIN k.subs : k.subs[i].id = k.subs[j].id => i = j
    /\ k.tools = {k.subs[i].tool : i \in DOMAIN k.subs}

(* route_query orders and checks the steps the model drafted, plan_outputs *)
(* adds outputs to them: neither renames a step or gives it another tool.  *)
ASSUME ObservationsAssumption ==
  \A c \in Cases : \A o \in Observations[c] :
    /\ \A steps \in {o.raw, o.draft, o.subs} : steps \in Seq(Elems(steps))
    /\ \A s \in Elems(o.draft) \cup Elems(o.subs) :
         \E r \in Elems(o.raw) : r.id = s.id /\ r.tool = s.tool

VARIABLES
  data,      \* the snapshot the databases hold
  job,       \* the evaluation that runs
  jobs,      \* how many were started
  sound,     \* every trial that passed so far was right
  artifact,  \* evaluation.json in the output directory of the last job
  policy,    \* stability_policy.json
  ratchet    \* what _load_ratchet_baseline reads of the last accepted artifact

evaluationVars == <<data, job, jobs, sound, artifact, policy, ratchet>>

EvaluationInit ==
  /\ data \in Snapshots
  /\ job = NoJob /\ jobs = 0 /\ sound = TRUE
  /\ artifact = NoArtifact /\ policy = NoPolicy /\ ratchet = NoRatchet

----------------------------------------------------------------------------
(* main, until the loop.                                                   *)

(* _select_cases by --suite, --ids and --routes: any part of the manifest, *)
(* in its order.                                                           *)
Selected(ids) ==
  LET at == {p \in DOMAIN Manifest : Manifest[p] \in ids} IN
  [k \in 1 .. Cardinality(at) |->
     Manifest[CHOOSE p \in at : Cardinality({q \in at : q <= p}) = k]]

_select_cases == {Selected(ids) : ids \in SUBSET Cases}

Written(kind, j, records, infra, gate) ==
  [kind |-> kind, records |-> records, selected |-> j.selected, runs |-> j.runs,
   dirty |-> j.dirty, mode |-> j.mode, model |-> j.model, snapshot |-> j.snapshot,
   compared |-> j.compared, infra |-> infra, gate |-> gate]

(* _error_artifacts: whatever was open is closed, an artifact without      *)
(* records is written, and the exit status is 2.                           *)
Abort(j) ==
  /\ artifact' = Written("error", j, <<>>, TRUE, "NOT_EVALUATED")
  /\ job' = NoJob

(* A selection without cases and --runs below 1 are refused, and so is a   *)
(* manifest, policy or baseline that cannot be read, or a missing setting. *)
Start(selected, runs, mode, gold, dirty, model, compared) ==
  LET j == [pc |-> "connect", selected |-> selected, runs |-> runs, mode |-> mode,
            gold |-> gold, dirty |-> dirty, model |-> model, snapshot |-> BadSnapshot,
            compared |-> compared, records |-> <<>>, at |-> 1, run |-> 1] IN
  /\ job = NoJob /\ jobs < MaxJobs
  /\ compared => ratchet # NoRatchet
  /\ gold => mode = "source" /\ ~compared
  /\ jobs' = jobs + 1
  /\ \/ Abort(j)
     \/ selected # <<>> /\ runs >= 1 /\ job' = j /\ artifact' = NoArtifact
  /\ UNCHANGED <<data, sound, policy, ratchet>>

(* Databases, pool and reader are opened, in this order; the finally       *)
(* closes them again when a later one fails.                               *)
Connect ==
  /\ job # NoJob /\ job.pc = "connect"
  /\ \/ Abort(job)
     \/ job' = [job EXCEPT !.pc = "snapshot"] /\ UNCHANGED artifact
  /\ UNCHANGED <<data, jobs, sound, policy, ratchet>>

(* The databases are compared with the manifest.                           *)
validate_snapshot ==
  /\ job # NoJob /\ job.pc = "snapshot"
  /\ IF data = BadSnapshot
     THEN Abort(job)
     ELSE job' = [job EXCEPT !.pc = "trials", !.snapshot = data] /\ UNCHANGED artifact
  /\ UNCHANGED <<data, jobs, sound, policy, ratchet>>

----------------------------------------------------------------------------
(* run and validate_gold.                                                  *)

(* The two loops: over the selected cases, and over the runs of each.      *)
Repeats(j) == IF j.gold THEN 1 ELSE j.runs
TrialLeft(j) == j.at <= Len(j.selected)
CaseAt(j) == j.selected[j.at]

Record(j, status) ==
  [j EXCEPT !.records = Append(@, [case |-> CaseAt(j), run |-> j.run, status |-> status]),
            !.at = IF j.run = Repeats(j) THEN @ + 1 ELSE @,
            !.run = IF j.run = Repeats(j) THEN 1 ELSE @ + 1]

(* What the contract asks of a right answer, said without the checks:      *)
(* right entities, the right sources, a plan that gives each of them what  *)
(* the others need, every source's rows the Gold's and, in orchestrator    *)
(* mode, the composed rows too.                                            *)
Right(mode, contract, o) ==
  /\ ~o.raised
  /\ entity_matches(contract.entities, o.entity)
  /\ Elems(o.tools) = contract.tools
  /\ \A e \in Elems(contract.subs) : \E a \in Elems(o.subs) :
       a.tool = e.tool /\ Elems(e.outputs) \subseteq Elems(a.outputs)
       /\ DOMAIN a.bindings = DOMAIN e.bindings
  /\ \A t \in contract.tools :
       IF mode = "source" THEN o.candidate[t] = "gold"
       ELSE o.results[t] # NoSource /\ o.results[t].rows = "gold"
  /\ mode = "orchestrator" =>
       /\ o.composed # NoComposed /\ o.composed.rows # "error"
       /\ contract.final # NoFinal =>
            /\ o.composed.rows = "gold" /\ o.composed.whole
            /\ o.composed.transform = contract.final.transform

StatusOf(score) == IF score.error THEN "ERROR" ELSE IF score.pass THEN "PASS" ELSE "FAIL"

(* What a trial of a case can be recorded as, and whether the answer was   *)
(* right when it was.                                                      *)
Verdicts ==
  [m \in Modes |-> [c \in Cases |->
     {[status |-> StatusOf(_evaluate_case(m, Contracts[c], o)),
       right |-> Right(m, Contracts[c], o)] : o \in Observations[c]}]]

(* run: an InfrastructureError of one trial is recorded and the loop goes  *)
(* on with the next.                                                       *)
Trial(verdict) ==
  /\ job # NoJob /\ job.pc = "trials" /\ ~job.gold /\ TrialLeft(job)
  /\ verdict \in Verdicts[job.mode][CaseAt(job)]
  /\ job' = Record(job, verdict.status)
  /\ sound' = (sound /\ (verdict.status = "PASS" => verdict.right))
  /\ UNCHANGED <<data, jobs, artifact, policy, ratchet>>

(* Any other exception of a trial leaves run with the records made so far; *)
(* main ends as after an abort.                                            *)
TrialRaises ==
  /\ job # NoJob /\ job.pc = "trials" /\ ~job.gold /\ TrialLeft(job)
  /\ Abort(job)
  /\ UNCHANGED <<data, jobs, sound, policy, ratchet>>

(* validate_gold executes and composes the Gold of a case; whatever is     *)
(* wrong with it ends the job.                                             *)
GoldTrial ==
  /\ job # NoJob /\ job.pc = "trials" /\ job.gold /\ TrialLeft(job)
  /\ \/ Abort(job)
     \/ job' = Record(job, "GOLD_VALIDATED") /\ UNCHANGED artifact
  /\ UNCHANGED <<data, jobs, sound, policy, ratchet>>

(* Mutant: the flag is that of the last trial.                             *)
InfrastructureError_last(records) ==
  records # <<>> /\ records[Len(records)].status = "ERROR"

InfrastructureError(records) == \E i \in DOMAIN records : records[i].status = "ERROR"

(* build_summary and write_artifacts.                                      *)
Finish ==
  /\ job # NoJob /\ job.pc = "trials" /\ ~TrialLeft(job)
  /\ artifact' = Written(IF job.gold THEN "gold" ELSE "run", job, job.records,
       InfrastructureError(job.records),
       IF job.gold THEN "NOT_EVALUATED"
       ELSE build_change_regression_gate(job, policy,
              IF job.compared THEN ratchet ELSE NoRatchet))
  /\ job' = NoJob
  /\ UNCHANGED <<data, jobs, sound, policy, ratchet>>

----------------------------------------------------------------------------
(* Between evaluations.                                                    *)

write_stability_policy ==
  /\ job = NoJob /\ artifact # NoArtifact /\ PolicyPossible(artifact)
  /\ policy' = build_stability_policy(artifact)
  /\ UNCHANGED <<data, job, jobs, sound, artifact, ratchet>>

(* Which artifact is the next --ratchet-baseline is the developers' choice *)
(* and no code checks it: here they take one that passed the gate and was  *)
(* compared with the last accepted one, if there is one.                   *)
Accept ==
  /\ job = NoJob /\ artifact # NoArtifact /\ artifact.kind = "run"
  /\ artifact.gate = "PASS" /\ (artifact.compared \/ ratchet = NoRatchet)
  /\ ratchet' = _load_ratchet_baseline(artifact)
  /\ UNCHANGED <<data, job, jobs, sound, artifact, policy>>

(* The databases are refreshed between evaluations.                        *)
Refresh ==
  /\ job = NoJob /\ jobs < MaxJobs
  /\ data' \in (Snapshots \cup {BadSnapshot}) \ {data}
  /\ UNCHANGED <<job, jobs, sound, artifact, policy, ratchet>>

EvaluationNext ==
  \/ \E s \in _select_cases, n \in RunCounts, m \in Modes,
        gold, dirty, compared \in BOOLEAN, model \in Models :
       Start(s, n, m, gold, dirty, model, compared)
  \/ Connect \/ validate_snapshot
  \/ \E status \in {"PASS", "FAIL", "ERROR"}, right \in BOOLEAN :
       Trial([status |-> status, right |-> right])
  \/ TrialRaises \/ GoldTrial \/ Finish
  \/ write_stability_policy \/ Accept \/ Refresh

EvaluationSpec == EvaluationInit /\ [][EvaluationNext]_evaluationVars

----------------------------------------------------------------------------
(* A trial passes only when the answer was right: sources, plan and every  *)
(* row the contract has a Gold for.  The verdict goes through ids matched  *)
(* by tool, checks that may not have been reached and a chain of stages,   *)
(* none of which may turn "not reached" into a pass                        *)
(* (runner.py, _evaluate_case_orchestrator, _evaluate_subqueries).         *)
PassMeansRight == sound

(* An evaluation.json that reports no infrastructure error has exactly one *)
(* record for every selected case and run, and none of them an ERROR; a    *)
(* job that could not connect, or whose Gold is wrong, never leaves a      *)
(* partial list behind (runner.py, run; cli.py, main).                     *)
ArtifactComplete ==
  artifact # NoArtifact /\ ~artifact.infra =>
    LET repeats == IF artifact.kind = "gold" THEN 1 ELSE artifact.runs
        at(c, n) == {i \in DOMAIN artifact.records :
                       artifact.records[i].case = c /\ artifact.records[i].run = n} IN
    /\ Len(artifact.records) = Len(artifact.selected) * repeats
    /\ \A c \in Elems(artifact.selected), n \in 1 .. repeats :
         /\ at(c, n) # {}
         /\ \A i \in at(c, n) : artifact.records[i].status # "ERROR"

(* The ratchet turns one way: over any sequence of accepted candidates, on *)
(* whatever selections, runs, dirty trees and refreshed databases they     *)
(* were tried, a case all of whose trials passed in one still passes all   *)
(* its trials in the next, and every accepted candidate was a clean run of *)
(* the production graph over every case of the policy                      *)
(* (gates.py, build_change_regression_gate; reporting.py, build_summary).  *)
RatchetTurnsOneWay ==
  [][ ratchet' # ratchet =>
        /\ ratchet # NoRatchet => ratchet.passed \subseteq ratchet'.passed
        /\ ~ratchet'.dirty /\ ratchet'.mode = "orchestrator"
        /\ ratchet'.cases = DOMAIN policy.cases
        /\ \A c \in DOMAIN policy.cases :
             policy.cases[c] = "CONSISTENT_PASS" => c \in ratchet'.passed ]_evaluationVars
============================================================================
