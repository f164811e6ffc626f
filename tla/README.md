# Specifications of EvalAI's evaluation engine

TLA+ models of the backend that runs evaluations (`src/backend/eval_triage`) and of
the MemoryAI bridge (`src/bridges/memoryai`), the TLC instances that check them and
the TLAPS proofs about them. Paths below are relative to `src/backend/eval_triage`
unless they begin with `src/`.

## The system

An evaluation *run* is a grid of cases × candidates × repeats. The HTTP API
stores a run, its *trials* and one *job* per trial in SQLite; worker processes
(`evalai worker`) claim jobs, execute trials against provider adapters, and
grade the stored outputs by further jobs; when nothing is left to do the run
gets a terminal status. There is no broker and no coordinator: every interaction
between the API and the workers goes through the database, whose writers are
serialised (`BEGIN IMMEDIATE`, `db/engine.py`). Memory scenarios run their steps
in subprocesses (bridges) that a worker process pools and talks to over pipes.
Around this core, definitions (scenarios, datasets, targets, graders) are stored
as immutable versions, and finished runs are read by people: reviews, the triage
queue, comparisons and their release decision, and exports.

| component | state it keeps | operations | interacts with | what makes it correct |
|---|---|---|---|---|
| job queue `execution/jobs.py` | rows of `jobs`: status, owner, lease, attempts, availability | enqueue, claim_next, heartbeat, complete, fail, defer, cancel_queued, recover_expired | every process, by transactions | concurrency limits, attempt budgets, no resurrection of closed jobs, nothing waits for ever |
| worker `worker.py` | slots (asyncio tasks), heartbeat tasks, last recovery | run loop, `_handle`, `_after_job`, `_reconcile` | queue, handlers | outcome recorded once; recovery of dead workers |
| trial handler `execution/trial_runner.py` | rows of `trials`, `attempts` | `_prepare`, `_execute`, `_finish` | queue, adapters, guards | evidence is kept, one attempt counts, limits, episode never replayed |
| grade handler `execution/grading.py`, `graders/` | `grading_runs`, `grades`, `trial_outcomes` | `_load`, `_grade_all`, `_persist`, create_grading_run | queue, judges | grades only over settled outputs, written once; unresolved is never a pass |
| completion `execution/finalize.py` | run and grading status | maybe_finalize, maybe_finalize_grading, reconcile_failed_jobs | all of the above | a finished run is at rest; every run finishes |
| run creation and cancellation `execution/runs.py` | `runs`, idempotency keys | validate_run, create_run, cancel_run | queue, completion | one run per request; a cancelled run ends and keeps its results |
| immutability guards, migrations `db/migrate.py`, `db/migrations` | schema revision, triggers | upgrade, downgrade | every writer (raise and roll back) | evidence is immutable |
| memory episodes `execution/episode.py`, `domain/episode.py` | records of the steps | run_episode, episode_errors | bridge client | a mutation of unknown outcome ends the episode |
| executors, tools, retry `execution/executors.py`, `sandbox.py`, `retry.py` | tool budget, transcript, attempt counter | execute_stateless, execute_agent, call_target | adapters | bounded steps; no retry of an answer |
| bridge client `adapters/memoryai` | pooled subprocesses, pipes, store ownership rows | acquire, request, release, close, gc | bridge server | answers matched to requests, no process left behind, rows true of stores |
| bridge server `src/bridges/memoryai` | stores: event log, facts | remember, assert, approve, reject, wrong, forget, rebuild, recall | bridge client | facts are what the log says |
| events and stream `execution/events.py`, `api/routes/runs.py`, `src/frontend/src/hooks/useRunEvents.ts` | event sequence, last id seen | emit, stream with resume | browser | no event is skipped or repeated |
| definitions `db/repositories.py`, `api/routes/definitions.py`, `domain/` | versions, hashes, splits | create, next version, assign splits | runs, exchange | versions are immutable and ordered, clusters stay whole |
| exchange `artifacts/exchange.py`, `execution/background.py` | archives, export and import rows | export, import | background jobs | an import is the exported project over again |
| reviews and promotion `api/routes/reviews.py` | `reviews` | create_review, promote | summaries, datasets | one review speaks for a trial; a regression case has a review |
| statistics, analysis, gate `statistics/`, `analysis/` | comparisons | summaries, triage, compare, decide | API | the gate refuses when evidence is missing |
| adapters, API routes, redaction, CLI, frontend views | – | formatting and transport | – | – |

Hard behaviours: a lease that runs out while its handler still works (so two
handlers work on one trial, or two episodes on one bridge), crashes between two
transactions of a handler or between `complete` and `_after_job`, retries and
deferrals racing with recovery, cancellation in the middle of all this, deciding
that "nothing is left to do", a mutation whose answer never came, and numbers read
while they are still being made.

## Modules

| module | models | kind |
|---|---|---|
| `Jobs` | the table operations of `execution/jobs.py` | constant operators |
| `JobQueue` | queue and worker processes with open handlers | state machine, invariants, liveness |
| `EvaluationRun` | what a run promises its user | abstract specification |
| `RunLifecycle` | one run over the queue: create, cancel, regrade, trial and grade handlers, completion | composed state machine |
| `RunProperties` | properties, fairness and refinement mappings of `RunLifecycle` | properties |
| `TrialExecution` | a trial between `_prepare` and `_finish`, and the attempt rows it leaves | state machine, invariants |
| `TargetCalls`, `ToolSandbox`, `EpisodeDsl` | one provider call with its retries; the sandboxed tools; accepted episodes | parts of `TrialExecution` |
| `BridgePool` | pool, request protocol, episode backend, server loop, ownership rows, gc | state machine, invariants, liveness |
| `MemoryStore` | one store: log, facts, actions, snapshot pages | state machine, invariants |
| `Checks`, `Verdicts` | the deterministic checks; a grade job with its graders, judge calls and pass rule | operators; state machine |
| `Reviews`, `ReleaseGate` | reviews and promotion; summaries, triage queue, comparison and gate while trials are graded | state machines |
| `Schema`, `Migrations` | tables with their keys; the two revisions and their triggers | operators; state machine |
| `Definitions`, `Exchange` | versions of definitions; export and import over them and `Schema` | state machines |
| `Measures` | the measures of `statistics/` and the splits of `domain/splits.py` against their definitions | operators over every sample |
| `RunClient` | requests with idempotency keys, validation, events and reconnecting streams | state machine |
| `MCJobQueue`, `MCRunLifecycle`, `MCTrialExecution`, `MCExchange`, `MCGate`, `MCComponents` | instances for TLC | – |
| `Selection` | `[x for x in seq if ...]`, as an operator that can be proved about | operator |
| `JobQueueProofs`, `RunLifecycleProofs`, `TrialExecutionProofs`, `BridgeProofs`, `OutcomeProofs`, `RecordProofs`, `MeasureProofs` | – | theorems; `BridgeProofs` is about `BridgePool` and `MemoryStore`, `OutcomeProofs` about `Verdicts`, `Reviews` and `ReleaseGate`, `RecordProofs` about `Definitions`, `Exchange`, `Migrations` and `RunClient` |
| `Induction` | – | lemmas on induction, folds and sums for the other proofs |

Every function of `jobs.py` and every `with db.write()` block of a handler is
one action: writers are serialised by SQLite, and between two blocks anything may
happen. Time appears only as the two comparisons the code makes: `lease` is
`lease_expires_at >= now` and `ready` is `next_available_at <= now`. Definitions
whose comment begins with "slip" are deliberate mistakes kept beside the
definition they would replace: each property is known to fail under one of them.

### Queue and runs

`JobQueue`. A slot is idle, `working` (in its handler) or `after` (between the
commit of `complete` and the end of `_after_job`). `beat` is its heartbeat task. A
handler may succeed, raise, raise `Defer` or lose its outcome (the `fail` itself
fails) at any moment. Ownership is by worker id, as in the code, so two slots of
one worker that hold the same job after a lost lease are both in the model.

`RunLifecycle`. The handlers are opened: `prepare`, `execute`, `load`, `grade`,
then `return` (last transaction committed, `complete` not yet) or `yield`
(`Defer`). `Prepare` is split by the early returns of `_prepare` in their order.
`FinishRaises` is the terminal guard of `db/migrate.py`: writing to an attempt
that was marked interrupted rolls `_finish` back and fails the job. `Finalize`
reads primed variables because the code's checks see what their transaction
wrote. The graders of a grading run are one verdict per trial. `manifest` is
the part of the frozen manifest the handlers look at; `Stage` is the stage of a trial's
primary row, which the call limit counts for single calls and leaves out for episodes
and agent runs (`UMBRELLA_STAGES`), whose calls have rows of their own. `MaxFaults` bounds how many of
the faults in `May` happen together.

`RunLifecycle` uses the operators of `Jobs`, and `UsesQueueAsSpecified` says
that each of its steps is a step of `JobQueue` (a task is `working` from its claim
to its outcome), so what is proved of `JobQueue` holds of it. `KeepsRunPromise`
says that it implements `EvaluationRun`.

### Trials

`TrialExecution` opens what `RunLifecycle` has as one choice of outcome. The trial
is alone; its environment is a provider, whose reply to each try is a success
(with the tool calls it asks for), one of four failures or an exception, and a
memory backend, of which the runner sees `ok`, an error or a timeout while the
store may have changed in each case (`applied` is the truth in the store, `sent`
what was handed over, `records` what the runner noted). An episode is a list of
steps `[id, action, candidate, store, target, context]`; texts, facts, event ids
and costs are left out, so a reference either resolves or does not, by choice. A
replay never fails to resolve a reference: repeat 0 resolved the same one.
Closing the session and preparing it may raise. `_finish` builds the attempt rows
from the calls; that it does nothing when the trial is already settled is in
`RunLifecycle`.

### Bridge and store

`BridgePool` has the two queues of each process as sequences and the one reader a
pipe may have. A request of one episode that finds another waiting on the pipe has
written its line and gets an exception (`Collided`); a timeout, a cancellation or a
foreign answer kills the process, and with it every session it holds. The server
answers lines in order and may fail or die at each. The queue gives memory jobs a
limit of one, so two tasks share a process only when a lease was lost; `overlapped`
remembers that, and `NoBridgeLeftBehind` is claimed as long as it is false: with
overlap two processes may be started for one key and `release` takes whichever the
pool has. `RowsTellTheTruth` is claimed always.

`MemoryStore` is the fake store of the bridge, event by event, with the facts the
actions maintain; `StoreMatchesLog` compares them with a replay of the log. The
first rebuild is where the two would part. `ForgetRaises` is a `forget` of a
retraction whose target is gone: it raises after the facts were changed, and the event
stays.

### Grading, analysis, people

`Checks` has every check of `graders/deterministic.py` by what it decides; a text is
the set of the phrases it contains; a fact that lacks a part is `Malformed`. `Verdicts` runs the graders of two trials side by
side, with crashes that start a job again; a judge is a way to decide (by content, by
position, tie, abstain) so that the two positions of a pairwise grade can be told
apart. A check may raise: `Defective` says of which grader on which case, and the grade is
then an error without results of its other checks. The pass rule names graders; of
several graders of one name it sees one, whichever the database lists last (`ByName`). `ReleaseGate` counts over the rows as `analysis/` does, reading the newest
grading run whatever its status, with rates as integers over a common `Scale`; the
bootstrap enters by the interval it may return. `Findings` is what a grading run may
hold of a trial: any outcome may come with the error of a grader the pass rule does not
need (bounded to the slots in `Outages`) or with a violated invariant (`Leaky`). `Designs`
is what two runs may differ in (pass rule, repeats and their mode, scenario). A policy is a
set of metrics, each with its direction, margin and whether it is required. `Measures` is checked on every sample
up to a size rather than on behaviours.

### Definitions, exchange, clients

`Definitions` stores rows whose ids are positions; `Exchange` archives them table by
table, each in any order the database may hand its rows over in (the code asks for
none), and inserts them with the foreign keys of `Schema` checked at each row; ids and
logical ids are made anew. `Migrations` applies and undoes
the two revisions on an empty and on a filled database. `RunClient` posts requests
(valid ones and one for each rule of `validate_run`) with keys, and follows a run over
a stream that fetches in batches, breaks and resumes at the last id seen.

## Runs

| run | instance | shows |
|---|---|---|
| queue | 2 workers × 2 slots, 3 jobs of one key (limits 2, 1, 2; attempts 2, 1, 2), scan limit 2, one job without handler, one that defers, one worker that may die for good | the table invariants, that settled rows stay, and that every job settles unless handlers defer for ever |
| run_faults | 1 trial, 2 workers, every fault once, cancellation; stateless or memory episode | evidence, completion, both refinements |
| run_three_trials | 3 trials of single calls or of an agent, 2 slots, the second replays the first and is compared with it, call limit 2, executions of no or three further calls, stall, cancellation | order between trials, call limit, completion |
| run_liveness | 2 trials on one slot, the second waiting for the first; any two of stall, failed transaction, lost outcome; regrade | trials settle and are graded; runs and regrades complete |
| run_cancel_stuck, run_after_stuck, run_ungraded | one trial | violations, see below |
| trial_execution | every accepted episode of 2 or 3 steps (assert in two stores, approve, forget, recall, generate with and without context), fresh or replayed, answered by backend, target or nobody; single calls; agents of 0 to 2 turns with four kinds of replies; 0 or 1 earlier attempts; 2 retries | what a trial ends with and the rows it leaves |
| trial_calls_lost | fresh episodes of 2 steps | violation, see below |
| components | the nine parts below, one at a time | one invariant or two per part |
| gate_outages | a run of 2 candidates and 3 cases in 3 clusters, one trial whose grader may fail, a policy that asks for all cases and 2 clusters | violation, see below |
| import_order | a project with one definition of each kind and up to six rows, exported and imported | violation, see below |

`components`: the models around the execution of a run share no state, so one run
checks them all. The variable `part` chooses a part in the initial state and the
variables of the others never move; the part `measures` grows a sample, the others
run their next-state relation.

| part | instance | properties |
|---|---|---|
| pool | 2 tasks, 2 processes, recycling after 2 episodes | RowsTellTheTruth, NoBridgeLeftBehind, EpisodesEnd |
| store | up to 5 events, 1 rebuild, pages of 2, with the retraction filter on | StoreMatchesLog, ProvenanceIsExact |
| verdicts | 2 trials (memory episode with and without lost snapshots, classification, agent; one compared with its peer), 4 graders of which two deterministic ones have a case their checks raise on, judge limit 2, 1 crash; a judge that goes by the content or by the position, the latter with the trial without output only | VerdictsNeedEvidence, JudgeIsAccountedFor |
| reviews | 2 trials of one cluster, 3 reviews, 3 dataset versions | ReviewsAreTraceable |
| gate | 2 runs of the same or of different pass rules, 5 trials, 2 cases of 2 clusters, one trial graded under an outage, one that may violate an invariant, one regrade by other graders; a policy with required metrics in both directions, an optional one and full coverage, and one with an optional metric only; with different pass rules the trials all have outputs, only the two runs are compared, and nothing is regraded or doubted; rates are 0 or 1 (`Scale` 1: one trial per case and candidate) | ReadyNeedsEvidence, QueueShowsEveryProblem |
| exchange | as import_order | VersionsAreHonest, ImportedIsWhole |
| migrations | both revisions, empty and filled | SchemaIsWhole |
| measures | every sample of up to 3 observations over 2 labels and a foreign answer, probabilities in halves | MeasuresAgreeWithDefinitions |
| client | 2 keys, 14 requests of which 2 are valid, 2 runs, 3 events, batches of 1, 1 broken connection | ClientsSeeTheirRun |

Bounds. Two workers (or two slots) are enough for two handlers to hold one job;
attempts of 2 are the least that allow a retry and a final failure; a scan
limit of 2 with three jobs lets the scan limit bite. Each kind of fault
(`crash`, `stall`, `raise`, `late`) happens at most once per behaviour, which
makes faults of different kinds combine (up to all four; up to two under fairness,
where a third adds only time); together with two attempts per job
this reaches failures for good. Episodes of three steps have chains of
references, a failure before and after an unrelated step, and two stores; two turns
and two retries have a first, a repeated and a last try. Five events are a fact, its
correction, a retraction and two decisions about them, around a rebuild. Six
rows leave room for a second version of two definitions or for a run. Three reviews
are a decision, one that supersedes it and one beside them.

Fairness. `WF` on claims, recovery, reconciliation and the steps of tasks: the
worker loop polls for ever, and every provider call, judge call and thread has a
timeout. A delay ends and a lease nobody renews runs out (`WF` on `BecomesReady`
and `LeaseExpires`). Faults are not fair. `QueueDrains` asks this only of a
worker that stays up, and of behaviours with finitely many deferrals: a job that defers
for ever starves others of a key with limit 1. `EpisodesEnd` asks `WF` of the tasks of the pool only:
each request has a timeout, so a task goes on whatever the server does; the server
itself owes nothing. `RunFinishes` is restricted to behaviours with at most one mild
fault, because of the findings below; `TrialsSettle` is not.

## Findings

- `run_cancel_stuck`: a trial that is `running` while its job waits for a retry
  falls between the two selections of `cancel_run` (jobs that are queued, trials
  that are pending): its job is cancelled, the trial stays `running` and the run
  stays `cancelling` for ever.
- `run_after_stuck`: after a crash between `complete` and `_after_job` of the
  last job nothing looks at the run again. The same property fails when a trial
  job fails for good after its trial settled (`reconcile_failed_jobs` then has
  nothing to touch), and the grading run of a regrade stays queued when one of
  its grade jobs fails for good (those jobs carry no `run_id`, `finalize.py` 76).
- `run_ungraded`: a run can be `completed` with a trial that has no grade.
- `trial_calls_lost`: an exception after calls were made (in the run's trace:
  `backend.close` at the end of an episode) is turned into an outcome without
  attempts, so the generation calls are in no row, in no cost and in no limit.
- `gate_outages`: coverage in a comparison counts the pairs of cases, graded or not
  (`analysis/comparison.py` 93), so a grader outage does not lower it; the cases that
  were graded may make the decision ready, where `src/docs/SPECIFICATION.md` 206 says
  that outages block it.
- `import_order`: scenario and dataset versions are exported without an order, and
  an archive that has a version before its parent cannot be imported.

Effects seen while modelling that have no run of their own:

- a settled trial may keep an attempt row that says `running`, but only when it was
  cancelled (`AttemptsAreEvidence` says that this is the only way);
- a stale grade handler may write an `error` verdict after its run was `completed`;
- an agent with `max_turns` 0 ends with an output although no call was made
  (`ResultIsEarned` leaves that case out);
- an episode whose `close` raises after a mutation timed out is stored with
  `mutation_outcome_known` true;
- a redacted archive names artifacts it does not contain and imports only where they
  are (`ImportedIsWhole` has this as the third reason for a failed import);
- a policy whose metrics are all optional is `ready` without an interval
  (`statistics/bootstrap.py` 165-174; `ReadyNeedsEvidence` asks for one of required
  metrics only);
- a promotion asks that its review be not superseded, which an older of two reviews
  of a trial may be as well as the latest;
- a crash during an export or import leaves its row unfinished for good:
  these jobs have one attempt and `reconcile_failed_jobs` looks at trial and grade jobs.


## Proofs

`tlapm` checks eight modules; each theorem holds for every value of the constants
under the assumptions named here. The runs above found the formulas to hold first.

| property | theorem | invariant it needs |
|---|---|---|
| TypeOK (JobQueue), AttemptsWithinBudget, OwnerMatchesStatus, ConcurrencyRespected, SettledRowsStay | TypeCorrect, AttemptsStayWithinBudget, OwnersMatch, ConcurrencyIsRespected, SettledRowsAreKept | `IInv` |
| TypeOK (RunLifecycle), KeepsRunPromise | TypeCorrect, KeepsThePromise | `RunInv` |
| EvidenceIsKept, AttemptsAreEvidence | EvidenceKept, AttemptsHold | `AttemptInv` |
| PeersComeFirst, CallLimitHolds | PeersFirst, CallLimitKept | `PeerInv`, `BudgetInv` |
| TrialsAreAccountedFor, UsesQueueAsSpecified | AccountsHold, UsesQueue | `BooksInv`, `FinishedInv`, `FreshInv` |
| RetriesOnlyTransport, NothingAfterUnknown, FrozenNeverMutates, SourcesExecuted | RetriesAreForTransport, UnknownStopsTheEpisode, ReplayMutatesNothing, StepsHaveTheirSources | `CallInv`, `EpisodeInv` |
| EffectsAreConfirmed, ResultIsEarned, RowsTellTheCalls, TypeOK (TrialExecution) | EffectsNeedConfirmation, ResultsAreEarned, RowsKeepEveryReply, TrialTypes | `ToolsInv`, `EarnedInv`, `RowsInv` |
| RowsTellTheTruth, NoBridgeLeftBehind | RowsAreTrue, NoneLeftBehind | `PoolInv`, `BehindInv` |
| StoreMatchesLog, ProvenanceIsExact | StoreReplays, ReportsAreExact | `MemoryInv` |
| VersionsAreHonest, ImportedIsWhole | VersionsHonest, ImportsAreWhole | `RowsHold`, `TransferInv` |
| SchemaIsWhole | SchemaStaysWhole | `SchemaInv` |
| ClientsSeeTheirRun | ClientsFollow | `ClientInv` |
| VerdictsNeedEvidence, JudgeIsAccountedFor | VerdictsRestOnEvidence, JudgeStaysAccountable | `VerdictInv` |
| ReviewsAreTraceable | ReviewsTraced | `ReviewInv` |
| ReadyNeedsEvidence, QueueShowsEveryProblem | ReadyRests, QueueIsComplete | `GateInv` |
| MeasuresAgreeWithDefinitions | MeasuresAreRight | the sample is one of `Observation`s |

**`JobQueueProofs`** (assumes `JobsAssumption`: `max_attempts`, limits and the scan limit
are positive; `QueueAssumption`). `TypeCorrect`, `AttemptsStayWithinBudget`,
`OwnersMatch`, `ConcurrencyIsRespected`, `SettledRowsAreKept`. All but the limit is a
property of single rows: `IInv` says of each row what the operators of `Jobs` rely
on, above all that exactly running and succeeded rows have an owner, because `fail` and
`defer` test the owner and not the status; without it a late `fail` could reopen a
cancelled row. The limit can only be passed by a claim, which counts: every other
operation is *tame* (it starts no job), and a tame step keeps the set of running jobs
of a key or shrinks it. `SettledRowsAreKept` combines two action
properties: failed and cancelled rows never change, and a succeeded row is reopened only by
the end of a task of the process that completed it.

**`RunLifecycleProofs`** (also `LifecycleAssumption`: finitely many trials, finitely many
numbers of calls an execution may add, limits that are numbers). In this order, each
stage using the ones before it:

1. `TypeCorrect`.
2. `KeepsThePromise`, the refinement of `EvaluationRun`. `RunInv` adds that nothing
   exists before the run does and that a terminal run has no open trial; the
   proof splits a step by what it does to the run, its trials and its grades. From
   the refinement follows that a settled trial never changes, which all later
   stages use.
3. `EvidenceKept` and `AttemptsHold`: how the attempt rows of a trial fit its status
   (`AttemptInv`). The guard of `db/migrate.py` is what makes it inductive: a stale handler
   that comes back finds its attempt interrupted and its transaction rolled back.
4. `PeersFirst`: a grade handler past `_load` has a settled peer (`PeerInv`).
5. `CallLimitKept`: the rows that count, and as much as each handler that executes may
   still add, stay within the limit and one execution's further calls per slot
   (`BudgetInv`): `_prepare` starts an execution only below the limit, counted in the
   transaction in which it writes, and `_finish` adds at most what was set aside for it.
   The sums over all trials are those of `Induction`.
6. `AccountsHold`: what the job rows say about trials and grades (`BooksInv`). A trial whose
   job is closed has settled, a settled one of an uncancelled run has its grade
   job; `FinishedInv` adds what completion relies on.
7. `UsesQueue`, the refinement of `JobQueue`: the grade jobs of open trials do
   not exist yet (`FreshInv`), so that `enqueue` is never asked for a row that exists.

**`TrialExecutionProofs`** (assumes `CasesAssumption`, that the cases executed are
accepted ones, `AsksAssumption`, that a reply asks for finitely many tools, and
`RetriesAssumption`). `RetriesAreForTransport` needs only the calls and the counter of
tries (`CallInv`). `UnknownStopsTheEpisode`, `ReplayMutatesNothing` and
`StepsHaveTheirSources` rest on `EpisodeInv`: the records are the steps done so far, in
order, each source of an executed step has been executed in its store, and after an
unknown mutation nothing is left to do. Episodes may have any length. `Accepted` is
where the checks made when a scenario is stored (`domain/episode.py`) meet the runner.

`EffectsNeedConfirmation` looks at the sandbox alone (`ToolsInv`): what was done is what
was asked for and confirmed. `ResultsAreEarned` takes what was sent, done and recorded in an
episode (`WorkInv`: a step is skipped only after a failed one, a mutation recorded as ok
was made, steps are sent in order), what each kind of result says of the calls (`ResultInv`)
and puts them together (`EarnedInv`). `RowsKeepEveryReply` is about the loop of `_finish` that
turns the replies into attempt rows: before it, the rows are those of `_prepare`
(`RowsInv`); an induction over the replies then shows that each has its row, in order,
with an index no earlier attempt of the stage had.

**`BridgeProofs`** (assumes `PoolAssumption` and `StoreAssumption`: processes are recycled after at
least one episode, a page has at least one row). `RowsAreTrue`, for any number of
episodes and processes that overlap in any way. A row is written when its
task ends, while a store changes as long as a `prepare` or a `close` of the task is in
a pipe, so `PoolInv` counts lines: each of the two is in the pipes of a process at
most once, a line belongs to the task that holds the process, an answer
read leaves nothing behind, a task that reported has nothing of either in any pipe,
and an answer to `close` that says yes is about a store that is closed. The first lemmas
say what a request, a reply, an answer and a kill do to what is pending; then there is one
lemma per operation.
`NoneLeftBehind` adds (`BehindInv`) that without overlap one task is active, whose process is
the pooled one from its start to its release, and that while a process starts the one
in the pool is dead.

`StoreReplays`: the facts of a store are those its log gives when it is read from the
beginning, whatever was added, approved, corrected, forgotten or rebuilt. The proof
reads the state of a fact off the log without a replay (`FactsOf`; an event acts on earlier
ones only, and a correction outlives what happens to the corrected message), shows that
each action keeps the stored facts at that (`MemoryInv`), and that a replay computes it, by
induction over the log. A snapshot is taken page by page; pages of any size, each after
the last row of the one before, make up the whole list. `ReportsAreExact` is the action
property that an action reports the events it appended and no others.

**`RecordProofs`, exchange** (assumes that `MaxRows` is a number). `RowsHold` is about all rows
ever stored: a logical id is the position of a row that came no later, versions of one rise,
a row refers only to earlier ones (but for the selected attempt of a trial, which is written
after it) and to the table its column names. `VersionsHonest` follows. `Evaluate` writes a row
of fourteen tables by a fold, after some of which a reference is still open; `Midway` says
which. For `ImportsAreWhole`, the lemmas on tables say of each of the twenty that every
column names an artifact or has its ids replaced, and that a foreign key leads to a table
copied earlier, to a parent, or back within a table listed as inserted. `ArchiveLists` is
an induction over the tables: an archive, in whatever orders its tables are listed, lists
each of the project's rows once, table after table. `TransferInv` says that the copy is made
of exactly such a list, so each way a row can fail to be inserted is one of the three named.

**`RecordProofs`, migrations** (assumes nothing). `SchemaStaysWhole`: a file is in one of three
states, by its revision (`SchemaInv`), however often it was moved. Each table is in its place
in the order of creation and refers to itself and to tables before it only (`Placed`);
both downgrades drop in exactly the reverse order (`InReverse`), so whatever is dropped has
nothing left that refers to it and no drop is refused (`ReverseIsClean`), and
what stays is the beginning of the list (`DroppedSuffix`). At the last revision the names, columns and
triggers are those of `db/models.py`.

**`RecordProofs`, clients** (assumes `ClientAssumption` and `RequestAssumption`: what the schema of a
request and the creation of a dataset refuse to be otherwise, such as zero repeats or no
cases). `RunsInv` has one run per key, made from its request, worth running, and a final
event when it is over. `StreamsInv` says that what a client received, what is on the wire and
what was fetched are consecutive stretches of the events of its run, through any number of broken
connections, and that it closes only after the final one. `ClientsFollow` is both.

**`OutcomeProofs`** (assumes `VerdictAssumption`, that graders name checks that exist and
that a case is of the form the executors store; `ReviewAssumption`; `GateAssumption`).
`VerdictsRestOnEvidence` compares two contexts, one of them with snapshots missing: each of
the checks answers the same or is unavailable, and no way of combining
checks into a grade or grades into an outcome turns an unavailable one into a pass. A
grader that raises is an error on either, which the pass rule takes for no verdict and which
reports no violation.
`JudgeStaysAccountable` is about the budget: a grader starts only while the calls counted are below the
limit and makes at most four of them, so jobs that run together pass the limit by the
calls of their last graders and no more; `VerdictInv` relates the calls in the rows, those of the grader
at work and the limit as the job last read it.
`ReviewsTraced`: the reviews of a trial form chains of supersession (`ReviewInv`), and a
version of a dataset made by promotion keeps every case of the one before it. `ReadyRests` and
`QueueIsComplete` hold of rates, clusters and priorities over any number of trials;
`GateInv` says that a decision is one the gate gives on the rows as they are, for some
interval the bootstrap may return (the model ends with the decision). For a metric in either
direction the adjusted interval lies within the adjusted means of the clusters
(`MetricMeans`), so no required metric is clear if every cluster lost more than its margin,
nor blocked if none did. A policy without metrics, which is never ready, is in the theorem
and in no run.

**`MeasureProofs`** (assumes `MeasureAssumption`: finitely many labels, the foreign answer is
none of them, a positive grain). A sample is any sequence of observations; the theorem
holds because each of the seven parts of the property holds of every such sample.
The lemmas they rest on say more, for any number of bins, draws, parts and clusters.

- Labels: observations are counted once by truth and once by answer (`AnswersAdd`).
- Draws: the quotient of factorials in `pass_at_k` is the number of draws of k, by the
  rule of Pascal (`DrawsCount`, `WaysCount`), and the draws without a success are the draws from
  the rest. Agreeing pairs are the pairs within one kind of answer (`PairsAgree`).
- Bins: the bin of p holds p (`BinIs`, where the last one is closed), so the mean of a
  bin lies between its bounds (`BinsHold`).
- Risk: a higher threshold accepts a subset, and a risk is a share of it.
- Quantiles: `Sorted` puts values in order (`SortedIs`), and interpolation rises with the rank
  (`BetweenRises`).
- Matching: after k predictions as many references of each fact are used as there are
  of both (`Matched`), by induction over the fold.
- Splits: rounding to even is in order (`RoundRises`), so the ends of the parts are
  (`TargetsRise`); each part is what lies between two of them and is at most one cluster away
  from its share (`PartsAreShares`).

Products of two variables are kept from the SMT backend: a step with one first names the
products, and what is left is linear.

**`Induction`** is what the others use instead of the library's induction theorems, which
take an operator as a parameter and cannot be instantiated by the provers here. Induction
is stated with a set in the place of the formula and rests on the least element of a set of
numbers. A recursive function `f[n \in S] == e` is the choice of some function that meets its
equation; that there is one is proved by the same induction, and from then on the
equation can be used. Sums, `FoldLeft`, `Max` and `Min` of the community modules are handled so.

The proofs led to corrections of the models, each of them checked against the code:
`Select` is in the place of `SelectSeq` and `Sorted`, which counts, in that of `SortSeq` (these
have no definition to expand); sums over labels, members and parts are `SumFunction`s; a few `CASE`s had
arms that overlapped; the tables of `Schema` are records instead of functions joined with
`@@`; references of rows in several projects keep the ids they have in the code; trials of the
same case are told apart in a promotion; the cases of `Verdicts` say which outputs are
texts; and the copy of an import renames its logical ids where it used to keep them.

Only model-checked: liveness (`QueueDrains`, `TrialsSettle`, `RunFinishes`, `EpisodesEnd`) and
anything with `ENABLED`, which the prover does not handle. Every safety invariant and every action
property that a run checks is a theorem, and so are both refinements; the six runs that
expect a violation refute their property and have nothing to prove.

## Not modelled

- Provider adapters' formatting, HTTP routes that only read, serialisation, the
  settings and the command line apart from `evalai memoryai gc`: no state beyond
  what the components above keep.
- `security/redaction.py`: rewriting of texts. `artifacts/exchange.py` is modelled
  with it switched on or off, by what it leaves out.
- Prompt building and the ranking of the lexical recall of the fake store: a recall
  returns some window of what is current.
- The real MemoryAI backend: a package outside the repository. Of the server, the
  loop, the session commands and the base class are modelled.
- Floating point, random seeds, the bootstrap's samples and the rank formulas of
  `statistics/`: rates are integers over a scale and intervals are chosen.
- Writing of artifact files, costs, signal handling, the worker's own heartbeat row, connection tests
  and calibration fits.
- External grader plugins (`integrations/ragas_grader.py`, or the `unavailable` of one that is not
  installed): a call out of the repository whose verdict is only stored.
- The frontend's views; of the frontend only `useRunEvents.ts` is modelled, with the
  stream it reads.
