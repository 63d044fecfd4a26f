# Formal models of lexstab

lexstab measures how stable language models are when the same task is worded differently. It
authors and reviews a benchmark, freezes it, runs a matrix of cells against model providers,
scores the cells, computes tables and comparisons, and gates releases on them. Its claims rest on
bookkeeping: no cell lost, no answer paid for twice, no unreviewed or edited data in a frozen
benchmark, no score that says something the simulator does not, no comparison over other cells
than it names. These modules model that bookkeeping in TLA+. TLC checks them on small instances;
for the components up to the score of a cell TLAPS proves the safety properties for every size.

`PROJECT.json` maps every definition to the source lines it stands for and lists the components,
runs, hazards, theorems and, for each checked property, a mutation of the code that breaks it.

## 1. Inventory of the system

| Component (source) | State it keeps | Operations | What is hard | Properties that make it correct |
|---|---|---|---|---|
| Run preparation (`run.py`, `config.py`) | run directory, manifest, context | `required_model_roles`, `build_run_context`, `write_run_manifest`, seal of the held-out split | two commands under one run id; roles and cells derived separately from one configuration | one owner of a directory; an adapter for every role a cell calls |
| Matrix (`matrix.py`) | none | `select_cases`, `_validate_explicit_requests`, `expand_matrix` | eight tracks overlap; defaults of absent lists | no cell twice; requests asked for are in it |
| Run executor (`run.py`) | thread pool, stop event, results in memory; `cell-results.jsonl`, `invocations.jsonl`, `run-summary.json` | `execute_run`, `_run_one`, `_write_result`, `summarize_run_health` | threads against the stop event; results out of order; kill between files | every cell has one row; failures are bounded by the pool; the summary names the cause; it ends |
| Providers (`providers/`) | attempt log shared by threads | `invoke`, `_call_once` of each backend | retry counting; several words for one outcome; exceptions that lose records | bounded attempts, each on record; a healthy run has every paid call on record |
| Evaluation (`evaluate.py`) | `metrics.json` | `evaluate_run` | files of a live or killed run are read at different moments | a run that passes is complete and clean; a verdict is never improved by looking again |
| Cell execution (`runner.py`, `graphs/`) | result, simulator, shared context, turn | `run_cell` and the flow of each of some thirty conditions | any model answer at any stage; failures after a decision; the clarification loop | one call at most; acts on grounded intents only |
| Grounding (`canonical.py`) | none | `enforce_grounding` | judged anew with every user answer | entity and arguments come from what was said |
| Support simulator (`simulators/`, `dataset/domain/operations.json`) | entity records, events | `call_tool` | checks and effects share a mutable scope; Python's number types | a rejected call leaves nothing behind |
| Evaluators (`evaluators/`) | score records | `expected_outcome`, `score_cell`, `_first_divergences` | two judges (call and state) of one cell; elicitations change their gold | scores do not contradict each other |
| Metrics (`metrics/aggregate.py`) | tables | headline rows, robustness, comparisons, ladder, ablations, persistence, elicitation, warnings | selections of cells stated more than once; cells without a value; which comparisons may be read as causal | every table is of the cells it names, and tables add up |
| Statistics (`metrics/statistics.py`) | none | bootstrap, exact tests, false discovery rate, equivalence | ends of intervals, ties, repetitions that count as cases | intervals stay among the cases; exact tests are exact |
| Release gate (`regression.py`) | threshold report | `check_run_thresholds`, promotion of baselines and regression cases | gates that have nothing to look at | a run that passes never acted unasked and is complete |
| Composition (`compose.py`) | output directory | `compose_track_repair` | a base run that is still writing or was killed; two commands | a composite is whole, and nothing failed is in it |
| Discovery (`discovery.py`) | checkpoint, candidates, summary | `discover_renderings` | resume after a kill, a limit or an error, with other sizes | reused answers are not paid again; candidates and COMPLETE agree with the checkpoint |
| Rendering review (`discovery.py`) | approved, rejected and candidate files | `review_rendering_candidates` | replacing the active rendering; kills between files | at most one active rendering, never lost |
| Requests (`authoring.py`) | approved, rejected and candidate files | `author_requests`, `add_human_request`, `review_candidates` | supersession by id; kills between files | no request lost, no decision undone |
| Freezing and loading (`freeze.py`, `artifacts.py`) | frozen files, manifest | `freeze_benchmark`, `FrozenBenchmark` | edits and kills around a freeze or a load; the override | what loads is valid and what was frozen |
| Replication (`replication.py`, `cli.py`) | paths of a version, candidate and configuration outputs | `scaffold_rmi_replication`, `author_rmi_variants` | seven renames and their roll-back; two commands at once | a receipt means a whole version; a refusal leaves nothing |
| Schemas, interfaces, prompts; red team; cross-model reports; reporting; tracing; side experiments; mock provider | files for readers | declarative validation, formatting, export | | |

How they interact. Authoring and discovery write candidate files; reviews move candidates to the
approved corpora; a freeze copies those and hashes them; a run loads a frozen benchmark, expands the
matrix and gives the cells to the pool; a cell calls providers through `_invoke` and a simulator
of its own; the main thread appends results to the files of the run; a composition joins two runs;
evaluation reads those files and the frozen labels; the tables are functions of the score
records, and the gate reads the tables. Shared state is therefore of two kinds: memory shared by the
threads of one run (the stop event, the attempt log), and files shared by commands over time, where
the other process is a kill, an edit by a person, a second command, or a reader that comes too early.

## 2. Modules

| Module | Models | Builds on |
|---|---|---|
| `RunHealth` | `summarize_run_health`: the status and the verdict on a run's rows and records | |
| `ExecuteRun` | `execute_run`: workers take cells, check the stop event, complete or fail; the main thread appends rows, then call records, then the summary; the process may be killed | `RunHealth` |
| `RunLedger` | abstract specification: what a run promises to readers of its files | `RunHealth` |
| `RunEvaluation` | evaluations that read the files of a finished, live or killed run | `ExecuteRun` |
| `Matrix` | case and request selection, `expand_matrix` with its eight tracks; operators | |
| `RunSetup` | commands that prepare a run: roles, context, seal, directory, manifest; kills | `Matrix` |
| `Transport` | `invoke` with retries and the shared attempt log, the three HTTP backends, the caller `_invoke` and the handlers of `_run_one` | `RunHealth` |
| `Invocations` | abstract specification: what the provider layer promises a cell | |
| `Compose` | `compose_track_repair` file by file, beside the base run | `RunHealth` |
| `Discovery` | discovery sessions over one checkpoint | |
| `Rows` | what a filtering comprehension keeps of the rows of a file | |
| `RequestReview` | authoring, correction and review of requests | `Rows` |
| `RenderingReview` | candidates of discovery and their review | `Rows` |
| `Freeze` | freezes, loads, edits | `RenderingReview` |
| `Replication` | scaffolding of a version by seven commits, authoring of its variants | |
| `Simulator` | `call_tool`, conditions, effects, argument checks; all as operators | |
| `SupportDomain` | the eight operation contracts | `Simulator` |
| `Cell` | one cell of any kind: its stages, every answer a model may give, grounding, the elicitation loop | `Simulator` |
| `Scoring` | the deterministic score of a cell over its simulator | `Cell` |
| `Scores` | the score record of any result, as far as the metrics read it: labels, contrast, divergence, clarification outcome | |
| `Statistics` | rates as exact fractions, bootstrap intervals under given draws, McNemar, the sign test, the false discovery rate, equivalence | |
| `Inference` | a comparison that grows cell by cell, bootstrapped with any draws, and its family | `Statistics` |
| `Metrics` | a run that is scored cell by cell, the headline, clarification, adequacy and robustness tables | `Scores`, `Statistics` |
| `Comparisons` | paired comparisons, ladder, ablations, rendering contrasts, persistence, elicitation, and the gate on interpretation | `Metrics` |
| `ReleaseGate` | `check_run_thresholds` at any point of an evaluation | `Comparisons` |
| `Transport_proofs`, `RunSetup_proofs`, `Compose_proofs`, `Replication_proofs`, `Scoring_proofs` | theorems on the module of that name and what it builds on | |
| `Evaluation_proofs` | theorems on `ExecuteRun`, on `RunEvaluation`, on `Comparisons` and `ReleaseGate` with what they compute from, and on `Inference` | |
| `Authoring_proofs` | theorems on `Discovery` and on `RequestReview` | |
| `Freeze_proofs` | theorems on `RenderingReview` and on `Freeze` | |

State and actions follow the code:

- **ExecuteRun.** `next` is the queue of `pool.map`, `at` and `cell` what each thread is doing,
  `result` the results in memory, `rows` and `traced` the files. `Start` reads the event and the
  later `FailCall`/`RaiseStop` set it, as two steps, because another thread can run in between.
  `AppendRow` takes results in submission order. With `Concurrency = 1` the code has no pool and
  cell k + 1 starts after cell k is written; `Dequeue` has that guard. A cell outcome is what the
  executor and the summary tell apart: ok, length, provider, harness, aborted. `ranBy` is a
  history variable.
- **RunEvaluation.** One action for each file that is read, since the run may append between them.
  `EveryVerdictIsOfOneMoment` is about the verdict, healthy or not. The status beside it need not be of
  any moment: an evaluation that read the rows before a harness failure was appended, and the call
  records after a later cell was cut off, reports `length_terminated`, which the run at no moment was.
- **Transport.** One thread per cell; `Begin`, an attempt that fails or is replied to, the sleep
  (`Retry`), and `Conclude`, which makes the record and returns or raises. What a provider sends is a
  status and, for 200, whether the body is whole, blank, cut at the token limit or unreadable. An
  unreadable body raises past `invoke` (`Raise`) and the cell loses its records. `paid` is a
  history variable. The number of invocations of a cell is bounded by `MaxCalls`.
- **RunSetup.** A context is built in one step (nobody edits configuration during a command); the
  seal, the exclusive `mkdir` and the manifest are steps of their own, and commands with the same
  run id interleave between them. A configuration is a record with the lists of each track,
  `Absent` where the key is missing. `Invokes` gives the roles a cell's flow may call, by the parts of
  `runner.py` that call them.
- **Compose.** One action for each file that is read and written; the base run goes on appending
  rows and calls meanwhile, ends, or is killed.
- **Replication.** `Move` renames the next of the seven commits or fails, `RollBack` takes one back;
  a kill may come before any. A wording is abstracted to what the acceptance tests read in it.
- **Discovery.** One action for each iteration step of the loops (reuse, invoke, record), and one
  for each file that is written: a provider error is recorded (`Record`) before its summary is written
  (`EndInterrupted`). A kill is possible before any step and within a write:
  `jsonl_append` then leaves a damaged last line, `jsonl_write` a truncated file.
- **RequestReview, RenderingReview.** A review decides in memory and then writes its files one
  after the other (approved, rejected, candidates); kills come between them or within one.
- **Freeze.** Read and validate the sources, write each frozen file, validate the prompts, write
  the manifest; a load verifies all hashes and then reads again. Edits of sources may fall anywhere.
- **Cell.** `Kinds` and `IsCell` are the cells `expand_matrix` makes by default; `Plan` turns the
  kind of a cell into a list of stages and there is one action for each stage, which ends the cell
  (`Return`) wherever the code returns early. A model may answer anything from the sets `Calls`,
  `Intents` and the questions, something unreadable, or fail (`ProviderFails`). Prompts are not
  modelled; a text is the set of the values that can be read in it, which is all that grounding
  (`Anchored`, `Grounded`, `Derived`) asks of a text. The elicitation loop adds one turn's stages
  at a time; the scripted user is `MatchAnswer`, where a key is the set of its parts, so that a
  combined key can be matched by its parts or be named as such. A value carries its Python type, because `==`,
  `isinstance` and JSON Schema treat booleans, integers, floats and digit strings differently.
- **Metrics, Comparisons, ReleaseGate.** `matrix` is the plan of the run with the results each cell
  may have, `scores` the records so far. `Score` adds the next one, so the tables, which are
  operators over `scores`, are looked at after any number of cells: that is what an evaluation
  of a live or killed run sees. A rate is an exact fraction. The gates read the ends of bootstrap
  intervals: for the two cases of each plan, with every draw equally often, they are the least and
  the greatest mean of a case (`LowEnd`, `HighEnd`). In `Scores` the semantic role of a request
  stands for its labels, and every case has the gold decision ACT. The gate
  `unresolved_without_action_rate` is of the specialised ones, which all have a minimum in the code:
  a dialogue that is resolved lowers that rate.

A definition whose comment begins with "Mutation", or that stands before another one with the same
name and a suffix (`...Early`, `...ById`, `...Anew`), is a plausible bug in the code; no specification
uses it. `PROJECT.json` says which property must notice it.

## 3. Runs

| Run | Instance | What it shows |
|---|---|---|
| `run` | 3 cells, 2 threads, evaluations at any moment, kills | failures bounded by the pool; every cell accounted for and every skip explained; refinement of `RunLedger` with its liveness; a run that passes the gate is complete and clean; a verdict is that of one moment though the files are read one after the other; a bad verdict stays bad |
| `sessions` | 2 operations, up to 3 samples, limit 2, 4 rows, 1 kill | the checkpoint stays well formed; candidates, COMPLETE and the operations given up agree with it; paid answers are kept; a session ends |
| `commands` | 2 candidate files, 3 requests, 1 kill | no request is lost; a superseded request has its replacement; decisions are not undone |
| `versions` | 1 operation, 2 models, 2 discoveries; 2 versions, one edit, override and kill | at most one active rendering, replaced but never just withdrawn; what loads is valid and is what was frozen |
| `cell` | 5 cases, all kinds of cell, turn limit 3 | a cell makes one call and a rejected one leaves no effect; executors act on grounded intents only; the judges agree; calls stay within the estimate |
| `calls` | 2 cells, 2 invocations each, 2 providers, 2 retries | each record counts the failed attempts in the log; a healthy run traced what it paid; the run is judged; refinement of `Invocations` |
| `setup` | 3 cases, 4 requests, about 90 configurations with 6 model configurations, a rival command | no cell twice; requests asked for are listed; stated roles cover the matrix; one owner per directory |
| `repair` | 3 cells in 2 tracks, 13 repair runs, 2 commands | composites are whole; nothing failed is kept; one author per output |
| `version` | 2 cases, 2 scaffolds, 1 author, 6 batches | receipts are honest; refusals and roll-backs leave nothing; outputs are sound; what is done stays |
| `tables` | a ladder of 12 cells, wordings and dialogues of 10, a baseline and candidate of 9 | every table is of the cells it names; broken cohorts are not interpreted; tables add up; passing runs are safe |
| `family` | 3 cases, 4 cells, 2 resamples; 4 tests | intervals and verdicts rest on cases; exact tests count what they say |
| `cut` | 1 cell, Anthropic | a disagreement with the documentation (section 5) |

Properties that are conjunctions name their parts: `CellsAreAccounted`, `OutputsMatchLedger`,
`CorpusIsSound`, `JudgesAgree`, `MatrixIsSound`, `OutputsAreSound`, `CohortsAgree`, `TablesAddUp`,
`PassingRunsAreSafe`, `IntervalsAreOfTheCases`, `TestsAreExact`. A type invariant that is no
property of its own is a part of one of them.

Why the bounds are enough. Two threads are what the races need: one is past the check when another
fails; with three cells one is left to be skipped and results come out of order. Two retries
distinguish the first, a middle and the last failed attempt; two cells in two threads are what the
shared log needs, and the two providers differ in retriable statuses and in the word for a cut answer.
Three samples and a limit of two let the limit be reached with and without a sample left over, and
sessions be smaller or larger than the one before; the number of sessions is unbounded. Three
requests allow a correction of a correction. Two models and two discoveries allow the replacement of
an active rendering and the collision of ids. One edit, one kill and one override can fall before,
within or after any review, freeze or load. The five cases of `cell` are one for each gold decision,
one with a derived argument and a float amount, and one whose gold call has an argument that no
record keeps; the calls include wrong types, wrong entity, wrong
tool, missing arguments and one that is accepted but not wanted; with a turn limit of three both
partial answers fit in before the last turn, and the limit is reached. `INCIDENT` and `ORDER`
operations are used by the cases of `cell`; contracts of approvals and accounts are given but no case
calls them, and what the theorems assume of contracts is evaluated for all eight. The configurations of `setup` reach every track, every kind of selection and every
refusal; a rival under the same run id, of either split, meets the command between any two steps.
The repair runs of `repair` differ from a good one in one respect each. The plans of `tables` have
for each selection of a table a cell on either side of it: roles, intent modes, packaging,
repetitions, renderings that are and are not distinct; two cases in two families with minima of two
let evidence be short by one. In `family` one case has two cells and the draws are all draws.

`CHECK_DEADLOCK FALSE` is in every configuration because each system may rest: a run, a cell or a
session is over, and the numbers of commands are bounded.

A run that passes the gate may contain a failed cell in one case, which `GatePassesCleanRunsOnly`
excepts: an evaluation of a live or killed run after the row of the last cell was appended and
before its call records were. Likewise `LoadsAreReproducible` is stated for loads no write overtakes,
`NothingFailedIsKept` for base runs that had ended when they were composed (section 5 has the killed
one), and `OneCallAndItsEffects` for contracts whose effects cannot raise once their checks have passed:
`ApplyEffect` and `Conclude` model an effect that raises, whose predecessors stay in the state, and
`EffectsAssumption` excludes it, which TLC confirms for the shipped contracts and the calls of `cell`.
`OutputsAreSound` is checked for one author: two overwrite each other (section 5).

### Fairness

- `ExecuteRun`: weak fairness of each thread and of the main thread. Threads of the pool are
  scheduled by the operating system; provider calls have time limits and a bounded number of
  retries. Nothing is assumed of `Interrupt`, nor of evaluations.
- `Transport`: weak fairness of each thread's next step and of the summary. A request has a time
  limit and a sleep ends; which of an answer or a failure comes is not assumed.
- `Discovery`: weak fairness of the steps of a session; nobody has to start or kill one.
- The other modules have safety properties only: a person decides when a command is given, and a
  command is a straight line of file operations.

## 4. Proofs

TLAPS proves the following for every value of the constants that satisfies the assumption named.

| Module (assumption) | Theorem | Says |
|---|---|---|
| `Evaluation_proofs` (`RunAssumption`: at least one cell and one thread) | `TypeCorrect` | `TypeOK` of the run is invariant |
| | `FailuresAreBounded` | at most `Concurrency` cells are spent on a failing provider |
| | `NothingIsDropped`, `SkippedCellsAreExplained`, `EveryCellIsAccounted` | a finished run has one row for each cell with its outcome; a skipped cell has a recorded failure behind it, which the summary names |
| | `SequentialRunStops` | without a pool nothing is executed after the first failure |
| | `RefinesLedger` | every behaviour implements `RunLedger` (its safety part) |
| | `EvaluationsOnlyRead` | for the run, evaluations are invisible |
| | `EvaluationTypeCorrect`, `GateIsSound`, `VerdictsAreOfOneMoment`, `VerdictsStay` | the four properties of evaluations in run `run` |
| `Evaluation_proofs` (`MetricsAssumption`, `GateAssumption`: see below) | `ScoresAreOfResults` | an evaluation has scored the first cells of the plan, each from a result that cell could have |
| | `TheTablesAddUp` | what two tables say of the same cells adds up, whatever the cells did |
| | `TheCohortsAgree` | rows that are computed apart are of the same cells; a comparison overwrites no score and takes in none it must leave out |
| | `BrokenCohortsAreWithheld` | no comparison that may be read as causal rests on a cohort with a broken response, in runs where one falls short of the minimum (`OneIsTooMany`) |
| | `PassingRunsMayBeReliedOn` | the conclusions of `PassingRunsAreSafe` from a report without failures, in such runs with one condition of the baseline in a track (`OneBaseline`) |
| `Evaluation_proofs` (`InferenceAssumption`: see below) | `IntervalsRestOnCases` | whatever is paired and drawn, an interval is in order and among the means of the cases, and a verdict beyond the margin has a case of its own sign |
| | `TestsCountExactly` | the exact p-value counts the ways the discordant pairs could have fallen; repeated cells change no sign test; the two halves of the correction are one rule |
| `Transport_proofs` (`TransportAssumption`: at least one invocation, known providers) | `TypeCorrect`, `RetriesAreLogged`, `FailuresEndCells`, `HealthyRunsAreTraced`, `VerdictsAreFinal` | types; records and log agree; no call behind a failure; paid calls of a healthy run are on record; a published verdict stays |
| | `RefinesInvocations` | every behaviour implements `Invocations` |
| `RunSetup_proofs` (`MatrixAssumption`, `SetupAssumption`) | `TypeCorrect`, `OneOwner`, `ManifestsStay`, `EligibleRunsAreNotMocked` | types; one owner of a directory; a manifest is final; eligible runs have real providers |
| | `RolesCoverTheMatrix` | `required_model_roles` covers every cell of `expand_matrix`, if the lists of a configuration hold conditions of their own track (`WellPlaced`, which nothing enforces: run configurations have no schema) |
| | `MatricesAreSound` | no cell of a matrix twice, no accepted request left out, if what a configuration has under `architectures` in the two tracks that take requests is a list, as it is in YAML, or absent (`Listing`) |
| | `ComparedCellsAreApart` | outside elicitation no two cells of a matrix are of one condition on one request of one case, if no condition is listed by two tracks |
| `Compose_proofs` (`ComposeAssumption`: base runs start empty; the calls of a repair run stand behind its rows, which `_write_result` of an ended run guarantees) | `TypeCorrect`, `CompositesAreWhole`, `FailuresAreRefused`, `OutputsAreOwned` | types and the three properties of run `repair` |
| `Replication_proofs` (the seed is valid; batches are finite; the two kinds of command are different) | `TypeCorrect`, `ReceiptsAreHonest`, `RefusalsAreClean`, `DoneStays`, `CandidatesFit` | types and the properties of run `version` that hold with any number of authors |
| | `LoneAuthorsAreSound` | with one author (`OneAuthor`) its two outputs are there together or not at all, and fit the version: two overwrite each other (section 5) |
| `Authoring_proofs` (`DiscoveryAssumption`: finitely many operations, positive limits) | `LedgerStaysWellFormed` | the samples of an operation are a prefix, none is answered twice, nothing is asked behind the limit of invalid answers |
| | `OutputsStayTrue`, `PaidAnswersStay` | candidates and the summary say what the checkpoint says, and no operation is given up short of the limit of invalid answers; a kill loses at most one paid answer |
| `Authoring_proofs` (`ReviewAssumption`: corrections by hand have a candidate file) | `RequestsStayFiled` | the strengthening of the two below, for any number of files, rows and kills |
| | `NoRequestIsLost` | a request that was written is in a file, and in one only but for a copy for each killed review; a superseded one has its replacement; unless a kill cut a file short |
| | `DecisionsStand` | approved rows stay where they are, a superseded one is never active again, and rejected ones stay rejected, until a kill cuts a file short |
| `Freeze_proofs` (`RenderingAssumption`: finitely many operations; `FreezeAssumption`: only versions that exist have domains of their own) | `FilesAlwaysFit`, `OneActive` | the files of the rendering reviews fit; at most one rendering of an operation is active |
| | `ActiveIsKept` | the active rendering of an operation is replaced and never just withdrawn, but by a kill within a write |
| | `LoadsReproduce`, `VersionsStay` | what loads of a version is what was first frozen; a version that has a manifest changes only under the override |
| | `BenchmarksAreValidated`, `LoadedIsValid` | the rows of every frozen file were valid requests and active renderings when they were taken; a benchmark that loads has one active rendering of an operation at most, and a valid domain unless somebody edited it during the freeze |
| `Scoring_proofs` (`IntentsAssumption`: an intent has the four fields of its schema; `EffectsAssumption`: effects can be applied once no check objects; `MaxTurnsAssumption`; for the last row `ContractsAssumption`, `CasesAssumption`: see below) | `CallsBounded` | a cell of any kind makes no more calls than the dry run's table estimates for it, and an elicitation at most three in each turn begun |
| | `CellsActLast`, `ActsAtMostOnce` | the simulator is untouched until the one call a cell ends with, and a rejected call leaves it so |
| | `OnlyGroundedIntents` | an executor behind the canonical boundary acts on an intent that the request, the context or the answers support |
| | `JudgesNeverDisagree` | an action where none was wanted is never a correct decision too, and a cell whose provider failed is never correct (`ScoresNeverDisagree`); a cell that was to act and left the expected state has made the expected call (`StatesTellCalls`) |

Hardly any of these is inductive. Each proof module defines strengthenings (`IInv` where there is
one), which are typed first and then preserved by every action:

- **ExecuteRun.** `WorkersHoldCells` (a busy thread holds a dequeued cell that has no result, and
  no two hold the same one), `FailuresStopWorkers` (a failed cell has set the event, and the thread
  that ran it, `ranBy`, is idle or about to skip, so failed cells map injectively to threads) and
  `FilesRecordResults` (row i is the result of cell i, call records trail by at most one cell, the
  summary is that of all results). The bound on failures is a cardinality argument over that
  injection; the refinement takes each step to a ledger step or a stutter.
- **RunEvaluation.** The invariant of the executor, and `EInv`: what an evaluation has read are
  prefixes of the files as they are now, because files only grow (`FilesOnlyGrow`) and a summary
  stands beside all rows (`SummariesAreExact`). A verdict is then that of the moment the rows were
  read, when the calls read are no more than theirs or show nothing more, and of the moment the
  calls were read otherwise; with a summary it is that of the end (`MomentOfVerdict`).
- **Comparisons, ReleaseGate.** `ScoresInv` is the whole state: each score is the record of a result
  of its cell. The rest is about operators over it. A rate is a count over a group of cells; the
  observations a table sums are a function to 0 and 1, so their sum is the number of its ones
  (`SumOfBits`, again by a least set at which the claim fails, `Rows` has the same argument), and what
  adds up is a partition of finite sets. The worst accuracy of a wording exists because comparing
  fractions orders them and a finite set has a minimum (`Minimal`, `ExtremeQuotients`). A side of a
  comparison has no two cells with one key because its selector is never one of an elicitation
  (`GatedAreSingle`) and the plan has none outside (`IsPlan`). A case mean above the lower end of an
  interval bounds a drop from the mean of the baseline (`SmallerFallsBehind`, `EndsBoundTheMeans`).
  `ReportInv` carries what a report concludes to the states after it, in which nothing is scored.
- **Inference.** `InferenceInv`: an interval is that of the paired cells over some resamples, and the
  correction that of the p-values so far. The rest is about operators. Sums over finite sets are taken
  one element at a time (`Sums`, `SumsExist`, `SumsCompare`), so the mean of a resample is between
  those of its extreme cases; an order statistic exists and grows with its position
  (`SortedIsPlaced`, `SortedIsOrdered`), and the position of the lower end is not behind that of the
  upper. A binomial coefficient counts the parts of a size: the function the library defines by
  recursion is the factorial (`Factorials`), and the parts of a set obey Pascal's rule (`LayersSplit`,
  `LayersAreCounted`). Complements map the few onto the many, which overlap only when they are all
  (`McNemarIsExact`). Cells and a copy of them sum to twice the sum (`SumOfCopies`). Names can be ranked
  (`RanksExist`), and whatever the order of equal ones, a rank is rejected exactly when its adjusted
  value is at most the level (`RanksAreCorrected`). Where a recursion over a finite set is meant, the
  argument is that of a smallest set at which the claim fails (`ByElements`, `BySmaller`).
- **Transport.** For each cell: its counter stands within the limit, its answered calls are the
  recorded ones but for one under way, and a failure is its last record. Steps of one thread are
  invisible to the others (`ThreadsAreSeparate`); the log is then an interval of attempts for each
  invocation, whoever else appends to it. The refinement maps a reply that was paid and raised to an
  exceptional end.
- **RunSetup.** `Contexts` (a process has the roles and cells its configuration asks for) and
  `Directories` (between mkdir and the end a directory is its process's, past the seal the plan was
  seen, a manifest is of the process that made the directory). That the matrix has no cell twice
  needs no invariant but a fact of each track: two of its cells with one identity come from the same
  case, request, architecture and list entry (`Full` says what tells cells apart). A configuration
  that asks for a request out of reach was refused, so a context has them all.
- **Compose.** What the output has of rows and calls is what its owner copied from a base run that
  has only grown, and a base run that had ended when it was checked is frozen.
- **Replication.** `Standing` (a scaffold stands at the paths of the commits it has made and not
  taken back, and at no other) and `Progress` (a scaffold is done exactly when all seven are made).
  `Together` is that a lone author between its renames has put its candidates there and no other has.
- **Discovery.** `LedgerInv` (of a sample's rows only the last may be an answer, and the samples before
  it have theirs), `StreakIsOfLedger` (the session's count of invalid answers is that of the
  checkpoint, whether they were asked for now or reused) and `Done` (every sample of an operation
  has its answer), which no later row can undo. An operation that stopped at the limit has no row
  behind it; this is why a count of recorded samples is enough for the code to tell that an
  operation is complete (`SufficesIsDone`). An operation that is given up has a row short of the
  session, hence stopped at a streak that the checkpoint shows, or has no valid answer.
- **RequestReview.** `Files` (rows were written, under an id no later than their own) and `Sound`: the
  candidate files share no row (`Apart`), a superseded row has its replacement (`Replaced`), and each
  request has at least one copy and at most one more for each killed review (`Counted`). While a
  review writes, that it has some sets A to approve and R to reject in mind is part of the
  invariant (`Deciding`): what it is going to write adds each of A and R once, and what it has
  written is what a kill leaves a second copy of (`Moved`). A kill therefore raises the count by one
  and needs no case for where it fell.
- **RenderingReview, Freeze.** `ReviewInv`: ids are unique in the approved corpus, an operation has one
  active row at most, and what a review is going to write has an active row wherever the corpus has
  one. `ManifestInv` (a whole manifest without the override is the first one), `FreezeInv` (a freeze
  without the override is of a version that has no manifest) and `LoadInv` (what an undisturbed load
  has verified is what it then reads). `BenchmarkInv` follows the rows on their way: the rows taken
  are valid (`TakenInv`), so the files written from them are, whole or cut short (`FrozenInv`), so
  what a manifest lists and a load reads is (`ListedInv`); the domain only if nobody edited it
  meanwhile, which is what `disturbed` says.
- **Rows.** What `Among` keeps is, position by position, the rows of the set in their order
  (`Selection`). It is a recursive function over the rows, and the library's induction theorems take
  an operator; the proof takes a least position at which the claim fails (`WFMin` on the naturals,
  or a set of positions without one) and derives the contradiction there.
- **Scoring.** `CellInv` (the simulator is as it was unless the cell is done; what is accepted is the
  call of the result, and the state is what that call leaves), the plans of all kinds
  of cell (`EveryPlanFits`: a case analysis over the tracks, with the price of a plan by its length
  and the free stages at its front) and `Budget` (calls made and calls the stages to come may make
  stay within the estimate). `Support` is that what a resolution was grounded in stays grounded: what
  the user has said only grows. A rejected call changes nothing because no check writes and the
  effects, which are made in place, follow all checks and do not raise (`EffectsAssumption`;
  `RejectedChangesNothing`).

  That a right state means a right call goes backwards, from a state to the call that left it. The
  effects of a call are unrolled first: `AfterEffects` is a recursive function, `EffectsInOrder` says
  that there is a chain of records from one effect to the next (by `StepByStep`, an induction along a
  set that a least element refutes), and `EffectsWrite` what that chain leaves in every field: a
  literal, an argument, the clock, a number more, or what was there. So an accepted call always shows
  (`AcceptedCallShows`: it stamps its record and touches no other), hence a state unlike the initial
  one names its record (`SameEntity`). The tool follows because of any two contracts one changes what
  the other leaves alone, or they put different values into one field (`SameTool`), and every argument
  that an effect writes can be read off its field (`SameTraces`). `SameCall` puts these together;
  `ExpectedCall` is that the expected state, too, is one that an accepted call leaves.

Only model-checked:

- liveness (`SessionEnds`, `RunIsJudged`, the progress of `RunLedger`), which needs ENABLED and
  fairness and is out of the prover's reach. Every invariant and every action property that a passing run
  checks is stated by a theorem.

What the theorem on the judges assumes, and why. `ContractsAssumption` is what the eight contracts of
`operations.json` have in common (`PlainContract`: one effect for a field, each a literal, an argument,
the clock or a number more, and a stamp) and what tells them apart (`ToldApart`: a field that one
changes for certain, because it counts or because its precondition demands another value, and the
other never writes; or two literals for one field). It is no law of the contract language: a ninth
operation that closes an incident the way `close_incident` does would be indistinguishable from it,
and the two judges would then disagree. `CasesAssumption` is that the gold call of a case is accepted,
which freezing checks when it recomputes the resulting state, that a request has one of the four
semantic roles, and that no record of a case has the time stamp of the run already. TLC evaluates
both for `cell`. Two arguments leave no trace: the `reason_code` of `request_manager_review` and the
optional `topic` of `request_more_information` are written to no field. A manager review for the
wrong reason leaves the expected state and is scored `final_state_correct` without
`full_call_correct`, and the case `review` of the run reaches that. `RightStateMeansRightCall`
therefore compares the arguments that are `Traced`, and the full call where all of them are. A full
call needs every required argument of the tool, expected or not; an accepted call has them all.

What the theorems on evaluations assume, and why. `MetricsAssumption` says what a plan and a result
are, and TLC evaluates it for the plans of `tables`. `IsResult` is what `run_cell` can leave: a call
that was read is one its schema admits, and only dialogues are resolved. `IsPlan` is what
`expand_matrix` lists, if each track lists the conditions it is for: `ComparedCellsAreApart` proves
its first part of `Matrix`; the others say that a cell of the elicitation track has an intent, which
that track always sets, and that cells of one case are told the rendering of its operation.
Without the first, a score does take the place of another in a comparison. `GateAssumption` says
that the thresholds are fractions. `OneIsTooMany` and `OneBaseline` are hypotheses of the theorems
and no assumptions of the model, because the code runs without them: with a minimum of 0.99 a cohort
of a hundred cells passes with one that is broken, and of two baseline rows in a track a gate takes
the last in the order of the headline (`BaselineOf`). The code promises the rate, and the theorems say when that is a promise about each cell.
`MC_ReleaseGate` checks both for the plans of `tables`.

`InferenceAssumption` says that there is a resample, that the confidence is between 0 and 1, that the
margin and the level are fractions, that p-values are positive (what was seen is counted)
and at most 1, and that a key is a case and a number. The code takes `success_margin` from the configuration as it stands: below zero, an
interval of no difference would exceed the margin, and `IntervalsRestOnCases` says nothing of it.

## 5. Where code and documentation disagree

Each is stated by a property that the code does not have. `cut` is a run of the project; the others
are seen by putting the property, as the kind given, in place of the ones of the configuration
named, with the constants named.

| Property | Look in | What the documents say, and what the code does |
|---|---|---|
| `Transport.CutAnswersAreUnhealthy` | run `cut` | `RESULTS_GUIDE.md`: any length-terminated invocation makes a run unhealthy. `summarize_run_health` counts the word `length`; the Anthropic adapter passes on `max_tokens`, and such a run is healthy and eligible. |
| `Transport.AnsweredCallsAreRecorded` | `calls` | `providers/base.py`: `invoke` returns a complete record. A 200 whose body is no JSON raises past it, and the records of the earlier calls of that cell are lost with it. |
| `ExecuteRun.CompletedCellsAreWritten` | `run` | `RUNBOOK.md`: a completed cell is appended as soon as it finishes. With a pool it waits in memory for every earlier cell, and a kill loses it. |
| `RenderingReview.DeferredCandidatesArePreserved` (property) | `versions` | `review_rendering_candidates` promises to preserve deferred candidates. One whose id is already approved is skipped and vanishes from the candidate file. |
| `Freeze.RaisedFreezeWroteNothing` (property) | `versions` | `DECISIONS.md`: a freeze validates and then writes. Prompts are validated after the frozen files were written read-only. |
| `Scoring.ResolvedOnlyAfterAnAnswer` | `cell` | `score_cell`: an elicitation is scored against the resolved task only after the user has supplied the missing information. `run_elicitation` calls a cell resolved when it acts, even on its first turn. |
| `Scoring.UnreadableIsIncorrect` | `cell` | `extract_json_object`: whatever does not parse is scored as incorrect. An elicitation keeps the CLARIFY of the turn before when its last answer does not parse. |
| `RunSetup.ProvidersCoverTheMatrix` | `setup`, `SPECIFICATION Spec`, one process, `Configs <- MCDefaults` | `required_model_roles`: exactly the roles the matrix can invoke. An absent list is empty there and the full list in `expand_matrix`; cells then have no adapter. |
| `RunSetup.HeldOutCasesStaySealed` | the same with `MCListed` | `ANALYSIS_PLAN.md`: no held-out case is executed before the plan is frozen. The agent loop lists cases of any split. |
| `RunSetup.RequestedStimuliEnter` | the same with `MCDropped` | `matrix.py`: no pretending that a requested stimulus entered the matrix. A track that takes no requests drops it without a word. |
| `Compose.CompositesRetainNoCutAnswer` | `repair` | `RESULTS_GUIDE.md`, as for `cut`. A base run killed between its last row and its call records is composed as healthy, with a cut answer. |
| `Replication.CasesHaveDistinctMessages` | `version`, `Seed <- MCPadded` | `replication.py`: every case has a distinct message. They are compared before they are stripped. |
| `Replication.OutputsAreNotOverwritten` (property) | `version`, two authors | `DATASET_AUTHORING.md`: the command refuses to overwrite its outputs. It looks, and renames over them later. |
| `Comparisons.FailuresStayInDenominators` | `tables` | `ANALYSIS_PLAN.md`: transport failures stay in the denominators. A cell without a final state is left out of the accuracy of final states and of every comparison of them. |
| `Comparisons.GoldCellsIgnoreSourceLabels` | `tables`, `Matrices <- Contrasts` | `DECISIONS.md`: source labels of a gold cell are audit metadata. `contrast_correct` is set by them. |
| `Comparisons.RecoveriesFollowADivergence` | `tables`, `Matrices <- Askings` | `RESULTS_GUIDE.md`: what recovered had diverged at an intermediate stage. A cell that only asked counts as recovered. |
| `Comparisons.WithheldIsNotGeneralizable` | `tables`, `Matrices <- Contrasts`, both minima 1 | `aggregate.py`: a comparison with a failed cohort is descriptive only. Its scope still says generalizable. |
| `ReleaseGate.SkippedGatesAreReported` | `tables`, `Matrices <- Posts` | `regression.py`: every skipped gate is reported. The drop gates of a track without a baseline are not. |

Met on the way and not stated as a property: `block_on_benchmark_hash_mismatch` of the threshold
configuration is read by no code. The specification (line 4095) wants the rate of false actions
before resolution; of elicitations of a case with the gold decision ACT it is always zero: a dialogue
that acts is resolved, and is then scored against the resolved task, which wants an action (the row of
`ResolvedOnlyAfterAnAnswer` above; `ElicitationsAddUp`).

## 6. Not modelled, and why

- Cross-model analysis and input audit, reporting, tracing, side experiments, scripts: functions of
  finished files, or text, without state over time.
- Promotion of baselines and regression cases (`regression.py`) and the regression overlay of a
  benchmark (`freeze.py`): copies of rows under a new name, whose interest is in a composition with
  freezing that the state space of `Freeze` leaves no room for.
- Red team: proposes candidates; its file effects are those of authoring.
- Mock provider: a test double of text heuristics.
- Token, latency, cost and price tables; rounding and floating point: rates are exact fractions here.
- The contents of HTTP bodies, prompts, generated texts: they are what a model may answer, or the
  values that can be read in a text.
- Schemas and configuration parsing: declarative; the checks other parts rely on are in their modules.
- Two commands of authoring, review or discovery at the same time: an operator works at one terminal,
  and no code there locks files. (Runs, compositions and replications are modelled with rivals.)
- A benchmark's contexts, procedures, interfaces, memory and elicitation scripts are frozen by the
  same code as requests and renderings and are not repeated.
- Of a cell's score in `Scoring`, stage outputs, procedure adherence and usage; `Scores` has the
  divergence of stages.
- The seeded shuffle of the matrix: no property depends on the order.

## 7. Plan

What would come next, in order of weight:

1. Promotion and regression overlay, composed with `ReleaseGate` and `Freeze`.
2. `Transport` in place of `ProviderFails` in `Cell`.
