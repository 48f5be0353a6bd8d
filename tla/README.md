# Verification of text2cypher-manufacturing

TLA+ models of the query pipeline and of the services around it, with the TLC
runs that check them on small instances and the TLAPS proofs that hold for every
instance. The reference is the code under `src/`; every definition that models code
names its lines in `PROJECT.json` (`map`).

## 1. The system and its parts

A user asks a question about a manufacturing database in natural language. The
server (FastAPI, LangGraph) decides which databases to ask (PostgreSQL, Neo4j), has a
model write the queries, checks and runs them, combines the rows and words an answer.

```
POST /chat -> guard_request -> classify_topic -> strict_query --accepted--------------.
                                                    | fallback                         v
                              resolve_entity -> route_query -> plan_outputs     generate_answer
                                                    -> execute_plan -> compose_results ^
           -> response cleaned -> conversation_history (write) -> query_failure_reviews (write)

lifespan: migrations, pools, drivers      etl/: restore PostgreSQL -> build the graph -> promote
evaluation/: trials against contracts -> artifact -> stability policy, regression gate
```

| Part | State it keeps | Operations | Interaction | What is hard | Modules |
|---|---|---|---|---|---|
| Query agent (`subgraphs/retry_agent.py`, one each for SQL and Cypher) | attempt counter, last outcome, attempts, diagnostics, feedback | `agent`, `tools` (guard, contract, execute, invariant), `should_retry` | invoked by `execute_plan` | one budget for many kinds of failure; state of earlier attempts; agreement of what is recorded with what is done | QueryFailures, QueryOutcomes, QueryAgent, RetryAgent |
| Planning (`planning.py`, `route_query`, `plan_outputs`) | route, plan, repair counters | model call, validation, repair; concurrent `plan_one` | writes the plan `execute_plan` runs | repairs that undo each other; exceptions nobody maps; tasks left behind | Planning, PlanQuery |
| Plan execution (`execute_plan`) | pending, outcomes, merged output | waves of ready subqueries | awaits agents with `gather` | interleavings of agents, failures and empty results that propagate, an agent that raises | ExecutionPlans, ExecutePlan |
| Entity resolution (`resolve_entity`, `Dashboard.tsx`) | picks, lookups, reads of the tables | validate picks, extract, exact and similar reads, judge | a dialog of several requests with the user | tables change between reads and rounds; several names, some resolved | Ordering, LiteralNames, ResolveEntity |
| Strict attempt (`strict_query/`, an older copy of the whole pipeline with rules of its own) | a state of its own | all nodes, in one graph node with a timeout | first node after the topic check | cut off anywhere, tasks left behind, what may be accepted | StrictPlanning, StrictAgent, StrictResolve, StrictQuery |
| Orchestrator graph, guard, topic (`graph.py`, `nodes/strict_query.py`) | pipeline state | routing between nodes | all nodes | timeout and isolation of the first attempt | Orchestrator |
| Composition, BOM shortage (`composition.py`, `bom_shortage.py`) | none | join, sections, shortages | reads `execute_plan`'s results | nulls, duplicates and conflicts in a join; several paths and suppliers; rounding | BomShortage, Composition |
| Answer generation (`generate_answer.py`, `answer_limits.py`) | attempts, audit log | two model calls, grounding check, fallback | reads the composition | budgets shared by sections, partial answers, what is logged | AnswerLimits, GenerateAnswer |
| Chat API (`api/chat.py`) | response | run, clean, save, review, answer | writes both tables | lost acknowledgements, deletions in between, crashes | Chat |
| History and failure reviews (`core/history.py`, `core/query_failure_reviews.py`) | two tables | save, delete with cascade, open, read, update | chat handler, admins | optimistic locking, reads after commit | FailureReviews |
| Start-up, pools, migrations (`main.py`, `core/`) | pools, drivers, log, migration table, advisory lock | open, verify, migrate, close | before and after every request | failures half way, several servers and releases, the lock released before the commit | Server |
| ETL (`etl/`) | databases and their names, the default graph | restore, swap, extract, load, promote, the two retries | replaces what the application reads | jobs killed anywhere, two jobs at once, partly filled databases | PostgresRestore, Neo4jSync, DataRefresh |
| Evaluation (`backend/evaluation/`) | records, artifact, policy, ratchet | trials, scores, gates | runs the production graph, or its parts | checks not reached, partial artifacts, a baseline that moves | EvaluationContracts, EvaluationScores, EvaluationGates, Evaluation |
| Guards, catalogs, executors, model calls, auth, observability, dashboard, frontend | | | | see `PROJECT.json`, `components`, and section 5 | |

What makes each part correct is stated below with its module; what can go wrong, line
by line, is the list `hazards` of `PROJECT.json`.

## 2. The modules

### QueryFailures, QueryOutcomes
The vocabulary: tools, failure kinds, stages and codes, `make_query_failure`, and what
an agent can return. `MaxAttempts` (`MAX_ATTEMPTS`, 3 in the code) is assumed to be a
positive natural.

### RetryAgent (one run of the query agent)
One state per point of `retry_agent.py` where control can go elsewhere. `Agent` models
`agent`, `ToolsFail`, `ToolsEmptyRetry`, `ToolsEmptyAccept` and `ToolsSucceed` the
returns of `tools` (what guard, contract, database and invariant say is chosen from
the issue codes the code can produce), `should_retry` the edge. The variables are the
fields of `RetryAgentState`, and the history variable `executed`.
Properties: the budget (`BudgetKept`), at most one retry of an empty result
(`EmptyRetriedOnce`), an outcome that does not contradict itself (`OutcomeConsistent`),
diagnostics whose retryScheduled flag, computed apart from the edge, agrees with what the
run then did (`RetryScheduledKept`), and `AttemptsTold`: what the run says of its attempts (NO_DATA or INCONCLUSIVE, what was
recovered, which queries were executed, the feedback for the next one) is true of them.
`QueryAgent` is the abstract contract: nothing is returned early, and a retryable
failure only with the budget spent. `ImplementsQueryAgent` shows that RetryAgent
implements it, including that every run ends.

### Planning, ExecutionPlans, PlanQuery (from question to plan)
`Planning` holds the validations of `planning.py` as predicates and functions on
sequences of subqueries; `PlanQuery` the two nodes: the model's document (any of
`RouteDrafts`), validation, one repair, then `plan_one` for each subquery, concurrent
if the subqueries are independent. `ExecutionPlans` is the set of plans
`execute_plan` can run; `PlanExecutable` says that planning ends in that set, and
ExecutePlan starts from it. `AcceptedRouteSound`: an accepted route gets through
planning, to the sources the question's wording asks for.

### ExecutePlan (the plan is run)
Waves: `StartWave` takes the ready subqueries, each `ExecuteSubquery` is one agent
(returning what `QueryAgent` allows, or raising), `MergeWave` folds the results in plan
order, `Finish` returns. After an agent raised, the other one may still be running:
it is modelled until it ends. `WavesSound`: no agent runs on missing or empty input,
empty results are handed on with their reason, every outcome is merged once, and no
wave is stuck. `ReportedFailure`: the reported failure is the most severe original one,
whatever the order of returns.

### Ordering, LiteralNames, ResolveEntity (who the question is about)
`Ordering` lists finite sets in an order and picks positions of a sequence: the sorts
and the lists without repetition of the nodes. `LiteralNames` is the greedy choice of
the longest database names spelled out in the question. `ResolveEntity` is the node and
the dialog: the client submits, the node checks the picks sent along, extracts names,
reads exact and then similar names, each read a step between which a row may appear or
vanish, and returns entities, asks the user to choose, or reports that there is no such
entity. Texts are reduced to spans, similarity to a relation. Two ghost variables,
`ever` and `always`, remember which rows were there at some time, or all the time,
during the request. `NamesSettled`: every extracted name is accounted for, the user is
asked about the first open one, and an answer settles it. `PicksSound`: a pick is
neither dropped nor returned once its entity is gone. `LiteralsAsSpecified` compares the
greedy loops with a definition without loops (`SelectedAsSpecified`), for all small sets
of names.

### StrictPlanning, StrictAgent, StrictResolve, StrictQuery (the strict attempt)
The snapshot pipeline differs from the current one where it matters: bindings carry
derived names, missing join keys are restored in the second attempt, every number of
the question must survive into a subquery and every stated condition into the query,
there is no result invariant and there are no diagnostics, and a merely similar name is
never taken. `StrictPlanning` and `StrictResolve` are functions of what the model and
the database say, `StrictAgent` operators on the agent's state. `StrictQuery` runs them:
the nodes one after the other, the tasks of each `gather` interleaved, and orphans that
run on after a sibling raised.

### Orchestrator (one request)
The graph: guard, topic classifier (which fails open), the strict attempt in full, which
a timeout may cancel at any of its points, the acceptance check, the nodes of the second
path, `generate_answer`. That nothing of a refused attempt reaches the second path needs
no property: the strict graph runs on a state of its own, of which `strict_query` copies
keys only when it accepts. Properties: `AcceptedComplete`, `NumbersReachAgents` (an
accepted answer lost no number of the question on the way), `NothingLeftRunning` (tasks
outlive the attempt only after one of them raised), `NoGuessedEntity`, and
`RequestEnds`.

### BomShortage, Composition, AnswerLimits, GenerateAnswer (from results to answer)
The pure parts are operators: the shortage of a bill of materials over its distinct
paths, `_compose_joined` with nulls and conflicts, the sections, and the turns in which
sections share rows and characters of the prompt. `GenerateAnswer` is the control around
them: composition (whose pairs are listed with `Ordering`), fixed answers, at most two
model calls, the grounding check, rendering that may fail, the fallback, the caveat and
the audit line. `compose_results` is defined for plans that planning accepts; its errors
for more than two subqueries, join keys that differ, a negative row limit and a
transformation that is refused are left out, and no property speaks of such plans. The
properties compare with definitions that know no order:
`JoinComplete`; `BomAsSpecified` (each distinct path of a component counts once, a
purchased component is listed iff it is short, with all its suppliers and the largest
shortage first, and rows that disagree about a path are an error); `SharesFair`; and
`PartialTold` (an answer from part of the rows says so, whoever cut them) and
`AnswerVouched` (only values that were read are quoted; one audit line at most, and it
is true).

### FailureReviews (the two tables)
`conversation_history` and `query_failure_reviews` with the foreign key's cascade;
actions for saving, deleting, opening a review, `get_failure_review`,
`update_failure_review` (the commit and the re-read are separate steps) and a server
that restarts. `seen` is what is on each admin's screen. `ReviewsSound`: the version
identifies the content, `resolved_at` follows the status, no review without its
conversation. `NoLostUpdate`: an accepted change is made to what its admin saw.

### Chat (the handler, composed with the tables)
EXTENDS FailureReviews: each request runs the handler between whose awaits the other
requests, the admins and deletions act. A write can fail before or after its commit;
the server can crash. `FailuresHandled`: failed queries are hidden (where one tool
failed) and reviewed. `AnswerDelivered`: the answer reaches the user whatever the two
writes do. The steps that touch the tables are the actions of FailureReviews, so its
`ReviewsSound` and `NoLostUpdate` are asked of the whole.

### Server (start and stop)
`lifespan` as the sequence of its awaits for each of several servers, of the same or of
different releases, on one database. Each step may fail, a connection may be lost, the
process may die. The transaction of `apply_migrations` is kept as what it has written
and not yet committed: the SELECT opens a transaction, so `conn.transaction()` is a
savepoint of it, and the advisory lock is released before the commit. PostgreSQL's
unique index is the wait in `Execute`. Properties: `ServingReady`, `SchemaIsPrefix`,
`DriversReleased`.

### PostgresRestore, Neo4jSync, DataRefresh (the ETL)
A job of either script is a sequence of steps over databases that have a name and a
content: batches of the dump, validation, the query for idle connections, their
termination, the two RENAMEs in one transaction; extraction, validation, load,
validation, STOP DATABASE, the new default. `DataRefresh` lets jobs, `--retry-swap` and
`--retry-promote`, kills, a pool connection and a graph session interleave. A dump may
declare and hold anything, and a retry may name anything: the code asks only whether the
database exists, so half-filled databases, those of other jobs, earlier live ones and
the live or default one itself are all retried. Two history variables, `verified` and
`restoredAs`, follow a database through the RENAMEs: the tables step 3 found in it, and
the name under which the live one was swapped in.
* `LiveComplete`: what is in service is complete, or it never passed the checks and an
  operator's retry has named it. The jobs never put such a database in service of their
  own accord.
* `DefaultRuns`: the default graph runs, unless the promotion that stopped it is between
  its two commands or was killed there (`DefaultKeptRunning`), or a `--retry-promote`
  made a database that was stopped the default.
* `NothingDropped`: a database keeps name and content until it is swapped in, and the old
  live one is kept whole.

### EvaluationContracts, EvaluationScores, EvaluationGates, Evaluation
The contract of a question, the chain of checks that scores a trial in orchestrator and
in source mode, and the gates, as operators; `Evaluation` is the command: configuration,
preflight, the loop over cases and runs, infrastructure errors and exceptions that leave
a trial, the artifact, a policy built from one artifact, and a baseline that an accepted
candidate replaces. `Accept` is the developers' discipline: that the next baseline is a
candidate the gate passed is asked of them, no code checks it, and `RatchetTurnsOneWay`
is about developers who keep to it.
Properties: `PassMeansRight`, `ArtifactComplete`, `RatchetTurnsOneWay`.

## 3. The runs

| Run | Instance | Shows |
|---|---|---|
| `retry_graph` | the Cypher agent, whose outcomes include those of the SQL agent, 3 attempts | the properties of RetryAgent, termination, refinement of QueryAgent |
| `plan_query` | two sources, three aliases, all routes of one or two subqueries and one of three | planning ends in executable plans or in errors the API maps |
| `execute_plan` | every plan validation lets through, 3 attempts | the properties of execution under every order of agents |
| `resolve_entity` | three rows, four names, four questions, seven extractions, two picks, one change of the tables; for literals every set of up to three matches in four characters | the properties of ResolveEntity and LiteralNames |
| `orchestrator` | one number in the question, three entities, all readings and routes of one or two items built from them, 2 attempts | the properties of Orchestrator, an attempt cut off at every point |
| `answer` | joins of up to two rows a side (three with equal keys), sections of up to three rows of four lengths, bills of three paths over two components, every failure | the properties of GenerateAnswer |
| `chat` | one request, two admins, one user, all sorts of results, versions to 3 | cleaning, reviews, delivery, no lost update |
| `chat_hidden` (violation) | | of two failed tools only one is cleaned |
| `server` | three servers: one whose reader account may write, one of the next release (started twice), one of a branch with an edited and failing migration | the properties of Server |
| `data_refresh` | two jobs of either kind, five dumps (one of fewer tables than the live database), seven extractions, retries of any name, a pool connection, a graph session, time stamps that can collide | the properties of DataRefresh |
| `promote_again` (violation) | as above, a promotion repeated | the default database is left stopped |
| `evaluation` | two questions, three runs, three evaluations, two snapshots and a bad one | the properties of Evaluation |

Bounds. Three attempts is the code's own constant, and enough for every order of
failure, empty result and success around the single empty retry; the strict agent, which
is interleaved with everything else, gets two, the fewest with a retry. Two subqueries
is the code's limit (one per source); the three-item route checks its refusal. Two admins
are what a conflict needs, version 3 lets an admin be two changes behind, and requests
share nothing but the tables, whose rows are their own; the proofs cover any number of
both. Two picks are the fewest with which picks can interfere, one change of the tables
can fall between any two reads. Three matches allow chains of overlaps. Two rows a side
are what a repeated or conflicting key needs; budgets of four rows and six characters
let either run out first. Three servers are two releases and a failing one at the same
time; `MaxStarts` lets one come back. Two ETL jobs are what a race needs, and the proofs
cover any number; `MaxNow` = 1 lets two jobs choose the same time stamp. `MaxJobs` = 3 evaluations are a policy's
source, a baseline and a candidate. Symmetry is used for ETL jobs and snapshots, in runs
without liveness properties. The runs say `CHECK_DEADLOCK FALSE` where the modelled
thing ends (a run of an agent, a plan, an answered request, jobs, stopped servers).

Fairness. RetryAgent, PlanQuery and ExecutePlan assume that a step of the event loop
that can be taken is taken, and that an awaited call returns or raises: the model
client and both drivers have timeouts. There is weak fairness per agent, none between
agents. Chat assumes it of the handler only; admins, deletions and crashes are
not fair. Orchestrator assumes nothing of the strict attempt's own steps: they may hang,
and `asyncio.timeout` is what ends them (its `StrictTimeout` stays enabled, hence weak
fairness); the nodes outside the attempt are fair as above. GenerateAnswer assumes that
its two calls return. ResolveEntity, FailureReviews, Server, DataRefresh and Evaluation
are checked for safety only: their users need never come back, a script may be killed.

### Findings
* `FailuresHidden` (`chat_hidden`): if both tools of a hybrid plan fail, only the
  preferred one's queries, errors and attempts are removed from response and history.
* `DefaultKeptRunning` (`promote_again`): `--retry-promote` of a database that already is the
  default stops it and starts nothing.

Met while modelling, and part of the models: the retry agent's graph does raise when
generation fails, so an agent can be left running beside the raised request
(ExecutePlan). A user who means one entity by two names is asked for the second one
again, because confirmed entities are deduplicated without the name they are for
(ResolveEntity; `FreshAnswerSettles` says which answers settle). The pids of idle
connections are read before they are terminated, so a connection that has become busy
meanwhile is cut too (PostgresRestore). The start of a second server can fail on a
migration the first one commits between its SELECT and its SQL; it succeeds when
repeated (Server). A pool that was opened stays open when the next one cannot be
(Server; the process ends then).

The scripts' own descriptions promise more than their retries keep. `postgres_restore.py`
says (lines 18-20, and 277 of `retry_swap`) that a database takes the live name only once
it is restored and validated, and `structured_mvp_load.py` (lines 4-7) that a database is
promoted only if it passed. A job keeps to that, but `--retry-swap` and `--retry-promote`
ask only whether the database exists (lines 290 and 158), so a restore that was killed
half way, or is still being filled by another job between two batches, can be put in
service by naming it. A mistyped name is not needed for it: PostgreSQL databases are
named after the second they are created in, so once one was swapped in within that
second its name may belong to another job's unfinished one. `LiveComplete` says exactly
how far the promise goes, and is proved without assumptions about who retries what.

Met while proving: `SharesFair` used to say that a section with two rows less than another
has no more rows, or none that fits. That is not so: `_truncate_sections` gives a first
row even if it alone exceeds the budget and closes the section with it, whatever its next
row measures. The lengths of the run were too few to show it; with four of them TLC finds
the case, and the statement now has it.

## 4. The proofs

Safety, for every value of the constants. The provers have no induction over data;
where a definition recurs (a loop over a plan, the rounds of an order) the induction is
done by hand, on the least element of a set of naturals (`SetInduction` of
PlanningProofs, and again in OperationsProofs and NodeProofs, whose components share no
module with it), and the recursive function is shown to exist before it is used.

`RetryAgentProofs`, for every positive `MaxAttempts` and either tool. The invariant
`IInv` is TypeOK with `Phase`: the budget, that `agent` is only entered with an attempt
left, that every later point has made one, and that `tools` has a query to run. Without
the second the budget is not inductive (`agent` counts before anything looks at the
limit), and without the last two the types of diagnostics and attempts are not. On top
of it `Settled` relates the control point to result, error, failure and empty_reason, so
that OutcomeConsistent survives the edge `should_retry`; `EmptyOnce` adds to
EmptyRetriedOnce that no diagnostic of an empty result scheduled a retry while
`empty_retried` is unset; `Scheduled` relates the attempt number and the scheduled flag
of each diagnostic to the attempt counter and the control point. `Told` adds to
AttemptsTold what holds at the points in between: the reason of an empty result is that
of the attempts so far, and feedback is that of the last attempt whenever the model is
about to be asked. `Summarised` says that what execute_plan will read is a summary of
the contract's kind. Theorems: `RetryAgentInvariant`, `TypeCorrect`, `Budget`,
`OutcomeCorrect`, `EmptyResultRetriedOnce`, `RetryScheduledCorrect`,
`AttemptsToldCorrect`, and `ImplementsContract`: initial states map to initial states of
QueryAgent and every step to a step of it or a stutter. Its fairness stays with TLC.

`PlanningProofs`, for lists of every length. `TopologicalOrderSound`: the rounds of
`_topological_order` number distinct items, each after its dependencies, and stop only
at items that wait for one another. `OrderedSound` is what validators need of it: an
accepted order is a permutation, a refused list has a cycle.

`PlanQueryProofs`, for every catalog and every set of routes the model may answer with.
`PlanInv`: during plan_outputs the route is `RouteSound` (one or two items, distinct ids
and tools, in the order of their dependencies, every join key and bound alias owned by
its source), a task runs only for a source of the route, and a task that finished has
planned what the others need of it. NeededOutputsPlanned speaks of the end only and is
not inductive; that `validate_subqueries` cannot refuse the items needs all three, since
it asks of outputs what route_query asked of the catalog, and orders the items a second
time. Theorems: `PlanQueryInvariant`, `PlanExecutableCorrect`, `NeededOutputsCorrect`,
`AcceptedRouteCorrect`.

`ExecutePlanProofs`, for every positive `MaxAttempts`. `EInv` is `Waves` (what is
merged, ready and pending partition the plan, and dependencies of what is not pending
are merged), `Fed` (each outcome, merged or only returned, fits those of its
dependencies) and `Merging` (the output is the fold of the merged outcomes in plan
order). ReportedFailure needs the last: two waves merge one after the other and the
preferred failure of the first must still win. Theorems: `ExecutePlanInvariant`,
`WavesCorrect`, `ReportedFailureCorrect`.

`OrchestratorProofs`, for every question, every set of readings and route documents and
every number of attempts. `OInv` has six parts:
* `Origins`: the second path runs only after the attempt was turned down.
* `Tasks`: where tasks of either gather can be running. NothingLeftRunning says nothing
  of the inside of the attempt, from which it is left at any point.
* `Resolving`: what is read is one of the readings. From it NoGuessedEntity.
* `Plans`: routes and plans have one item, or two for different tools, and a number of
  the question that no name explains stays in one of their items' questions, although
  plan_one may replace a question by the original one.
* `Executed`: what an agent or an outcome says of its rows (invoked, conditions
  enforced), for running agents too.
* `Decided`: an accepted attempt has no reason to be rejected, and what was composed was
  composed from the outcomes.

Theorems: `NothingLeftRunningCorrect`, `NoGuessedEntityCorrect` (an
action property), `OrchestratorInvariant`, `AcceptedCompleteCorrect`,
`NumbersReachAgentsCorrect`.

`ChatProofs`, for every set of requests, users, admins, contents and pipeline results
and every `MaxVersion`.
* The tables. `VersionIdentifiesContent` is not inductive alone: a deleted
  conversation's review could, as far as it says, come back at version 1 with another
  content. `ReviewInv` joins to it the types, ReviewHasConversation,
  ResolvedAtMatchesStatus and `SeenReviewGone`: a review that an admin has seen and that
  is gone went with its conversation. Theorems: `ReviewInvariant`, `ReviewsAttached`,
  `ResolvedAt`, `ReviewsCorrect`, and `LostUpdateFree`, the action property
  NoLostUpdate, from the invariant.
* The handler. `HandlerInv` says that a handler about to save has its user's name and a
  response the table has room for; with it every step of the application is a step of
  `ReviewNext` or leaves the tables alone (`ChatUsesStore`). `ChatKeepsReviewsSound` and
  `ChatLosesNoUpdate` follow from the theorems about the tables.
* Failures. `FailureInv` says at each point of the handler how response, conversation
  and review relate to the result the pipeline returned (`HandledAt`); a request is
  touched by its own handler, by a deletion or by an admin, and each case is shown
  separately. Theorem: `FailuresHandledCorrect`.

`OperationsProofs` is about the three programs around the requests. The first is Server,
for any number of servers and any lists of migrations with `FilesAssumption` (the i-th
migrations of two releases have the same name, files are only added at the end). Two
invariants:
* `Held`: what a server holds at each step of `lifespan`. `DriversReleased` speaks of
  stopped servers only and says nothing of the way there: on the way up a server holds
  exactly what it has opened, on the way down what is left behind each finally block was
  refused by its own close. Every action is shown to be one of `Moves`, and each of those
  to keep `Held`.
* `Migrated`: what each open transaction has written, up to the index it looks at, is
  recorded there or committed; no two open transactions, and none and the committed rows,
  have a row in common (`Apart`); and SchemaIsPrefix. Without `Apart` a commit could
  overwrite a row of another release, since the lock no longer protects it.

Theorems: `ResourcesHeld`, `DriversGivenBack`, `MigrationsApplied`, `NoGapInSchema`,
`ServingIsReady`.

The second is DataRefresh, for any number of jobs, dumps and extractions.
* `Databases`: which names exist, that a restore works on a name it made itself unless
  it is a retry, and that it keeps the old live database under a name of another kind.
  From it NothingDropped: a RENAME finds its target free.
* `Connections`: nobody is connected to a database that lost its name, and a restore to
  no database but its own. PostgreSQL refuses to rename a database in use; this is why a
  batch is never written to a database that meanwhile is another one.
* `Checked`: a verified database holds what it was verified for; a restore about to swap
  has verified the database of that name and shares it with no other, *or* a
  `--retry-swap` took that name away. The alternative is what makes it inductive without
  a word about names used twice: only a swap frees a name, and a job's own swap ends it.
* `Graphs`: every graph that passed validation is exactly what one extraction produced,
  the graph a job is filling is a part of its rows, and the default passed or was
  promoted by hand.
* `Claims`: only what was the default is ever stopped, and a database is promoted by the
  one job that created it or by a `--retry-promote`. This is what makes the job that
  stopped the default the one DefaultRuns speaks of.

`LiveCompleteCorrect` and `DefaultRunsCorrect` have no hypothesis but the assumptions on
the constants. Theorems: `DatabasesInvariant`, `NothingDroppedCorrect`,
`CheckedInvariant`, `GraphsInvariant`, `LiveCompleteCorrect`, `DefaultRunsCorrect`.

The third is Evaluation, for every manifest, every contract, whatever the trials observe
and any number of runs and evaluations.
* `JobInv`: the records of a running job are those of every case before the current one
  and of its earlier runs, each once. ArtifactComplete speaks of the finished artifact
  only; it follows because Finish writes what both loops have recorded.
* `GateInv`: what the gate found of the artifact it passed still holds of the policy and
  the baseline as they are, so that Accept, a later step, cannot lose a passing case.
  From it the action property RatchetTurnsOneWay.
* `JobCases` (a job evaluates cases of the manifest) and the verdict. A passing trial is
  followed back through its checks: the mapping of expected to planned steps, a loop over
  the contract, sends each step to the one of its id, or else to one of its tool
  (`MappingSound`); every step is planned with its own tool (`PlanServes`); and its rows
  are the Gold's, by the loop of source mode (`ScoresSound`) or, in orchestrator mode, by
  the first stage that failed, which is none (`NoStageFailed`).

Theorems: `ArtifactsComplete`, `RatchetOneWay`, `PassesAreRight`.

`NodeProofs` is about two nodes of the graph. The first is ResolveEntity, for every
finite set of entities, every relation of similarity, every question and extraction, and
any number of picks and of changes of the tables. `RequestInv` has five parts:
* `RequestTypes`;
* `ViewsSound`: what was there all the time is there, and what is there was there once;
* `PicksChecked`: every pick looked up so far was accepted if its entity stayed, or an
  earlier one with the same entity was;
* `TypesRead`: what was read of a type is, for every name asked for, all that stayed and
  nothing that was never there;
* `LookupsSearched`: the names still open are those of the model, and after the literals
  those not inside one; one that was searched for has candidates if anything like it
  stayed.

The outcome is judged from these (`JudgedRight`) and stays right while the tables change
afterwards. What makes NamesSettled hard is that names leave the list in three ways
(found, picked, contained in a literal), and that the first one left must be the first
open one of the question: `InOrderLists` and `PickLists` (a sorted set lists each element
once, a picked sequence keeps the order) carry that.

Of the names found literally, `LiteralsAreRight` shows for any finite set of matches
what LiteralsAsSpecified checks for small ones. The greedy loop keeps a span exactly if
no span kept before overlaps it (`GreedyKeeps`, by induction over the spans in the order
they are tried), and only one set of spans has that property (`KeepsOne`, on the first
span two such sets would differ in), so the set the reference chooses is the loop's.
Theorems: `PicksAreSound`, `NamesAreSettled`, `LiteralsAreRight`.

The second is GenerateAnswer, for results of any length, any lengths of rows and any
budgets.
* The turns. `TurnsTaken` is the invariant of the loop in `_truncate_sections`: after n
  rounds and part of the next, a section that still gets rows has had one in each of its
  turns, and one that is closed has a reason (`Stopped`): no rows left, a next row that
  does not fit, or a first row that was too long. SharesFair holds of the result of the
  loop and is not itself preserved by a turn.
* The composition. `Shapes` names the forms a result has; `PairsAre` shows that the pairs
  of a join are met once each, `JoinIsRight` that a join without error has all of them,
  that they agree on their common fields and that no row of the second source is lost;
  `ShortagesListed` that the rows of a bill are a list. `ResultSound` says that a result
  holds only values that were read and is marked as cut off if a source was.
* The bill of materials. `ReadUpTo` is the invariant of the loop over the GRAPH rows:
  after n rows without a conflict each component met has collected (`Collected`) the
  distinct paths of its rows with their products, all its suppliers and one reading of
  each path. So the paths a requirement is summed over are a function of the set of rows
  alone (`RequiredIs`), and no argument about the order of a sum is needed; that sums
  and products are integers (`TotalInt`, `TimesInt`) is an induction by hand over the
  terms of the library's fold. `OneStock` says that a component has one row of stock,
  `ShortagesRight` that the list has every short component once and in order.
* The control. `AnswerInv`: what was composed is the composition of the input
  (`ComposedRight`), an answer from rows comes from a result without error
  (`AnsweredFrom`), nothing is answered or logged before (`Unanswered`), and caveat,
  values and audit line fit what was answered (`AnswerTold`, `AuditTold`).

Theorems: `AnswersVouched`, `PartialIsTold`, `SharesAreFair`, `JoinsAreComplete`,
`BillsAreRight`.

Assumptions are the ones on the constants, evaluated by TLC in the runs:
`MaxAttemptsAssumption`, `MaxAttemptsNat` and `ToolAssumption` (the budget, the agent's
tool), `CatalogAssumption` (what the catalog loader checks), `RouteDraftsAssumption`,
`RouteDocsAssumption`, `QuestionAssumption` and `ReadingsAssumption` (the shape of what
parsers return), `ReviewAssumption` and `ChatAssumption` (the types of the tables),
`PipelineAssumption` (a result has the failure of one of its failed tools, if any: what
ReportedFailure of ExecutePlan establishes), `FilesAssumption`, `ClockAssumption`,
`ActorsAssumption` (a job is not a pool connection), `LiveAssumption` (the fixtures are
in the live database at first; nothing is assumed of a dump), `ExtractsAssumption` (rows
come in sequences, the first graph passed the checks), `NamesAssumption` (how often a
number occurs in a name is a natural number), `RunsAssumption` and
`ManifestAssumption` (the shape of the options), `ContractsAssumption` (what
`load_manifest` refuses: a contract without steps, an id used twice, other tools than
its steps'), `ObservationsAssumption` (`route_query` and `plan_outputs` keep the ids and
tools of drafted steps), `ResolveAssumption` (tables are finite, spans lie inside the
question, the model extracts at most `MaxLookups` names), `LimitsAssumption` and
`RowLimitAssumption` (budgets are not negative: `_configured_limit` and the row limit's
check refuse others), `InputsAssumption` (one or two subqueries, which is what
composition accepts, each with a result; a transformation joins two, whose identifiers
and amounts are numbers: `_identifier` and `_decimal` raise on others) and
`QuantumAssumption` (the smallest amount shown is not zero).

Only model-checked is liveness (the fairness of `ImplementsQueryAgent`, `PlanningEnds`,
`ExecutionEnds`, `AnswerDelivered`, `RequestEnds`), which is out of the prover's reach.
`LiteralsAsSpecified` itself ranges over the small sets of names its run enumerates;
the theorem is about the formula it applies to each of them.

## 5. What is not modelled, and the plan

Texts are not: prompts, patterns of the request guard, parsers of SQL and Cypher,
wording and layout of answers, the Markdown report of an evaluation. Guards and
contracts appear as decisions. The semantic and output catalogs and `entity_types.py`
build static configuration. The executors and model calls are single calls into drivers
whose outcomes the agents take as choices. Authentication checks a signed cookie and
keeps no state. Observability and metrics influence nothing else. The dashboard and
entity API only read. The similarity score is a relation, so the order of candidates is
not modelled. Of the frontend only the clarification dialog and the review screen are.

Left to do: the two hazards that have no property yet (see their notes).
