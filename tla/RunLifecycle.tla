---------------------------- MODULE RunLifecycle ----------------------------
(***************************************************************************)
(* One evaluation run, from POST /runs to its terminal status: its trials, *)
(* their attempts, the grading run made with it and one regrade, and the   *)
(* jobs that carry the work.  It fills in the handlers JobQueue leaves     *)
(* open: trial_runner.py, grading.py, finalize.py and the run operations   *)
(* of runs.py, over the same table and worker processes.                   *)
(*                                                                         *)
(* Every "with app.db.write()" block is one action; whatever happens       *)
(* between two blocks of a handler (a provider call, another worker, a     *)
(* crash) happens between two actions.  The graders of a grading run are   *)
(* abstracted to one verdict per trial: _persist writes all of a trial's   *)
(* grades and its outcome in one transaction.                              *)
(***************************************************************************)
EXTENDS Naturals, FiniteSets, Sequences, FiniteSetsExt

CONSTANTS
  Trial,               (* the planned trial slots                            *)
  NoTrial,
  ScheduleOrder,       (* schedule_order, the priority of each trial job     *)
  FrozenSource,        (* repeat 0 of a frozen_context repeat, or NoTrial    *)
  BaselinePeer,        (* paired baseline trial under a pairwise grader      *)
  Manifests,           (* the manifests a run may be created with: stage, of *)
                       (* its primary rows by the scenario's pack (Stage),   *)
                       (* and restart, .restart_interrupted_episodes         *)
  MaxTargetCalls,      (* limits.max_target_calls                            *)
  MoreCalls,           (* call rows an execution may add to its first row    *)
  Outcomes,            (* statuses an execution may return                   *)
  TargetLimit,         (* max_concurrency of the target's key                *)
  JobAttempts,         (* max_attempts (3 in the code)                       *)
  Worker, NoWorker, Slot,
  MaxFaults,           (* faults that may happen in an instance              *)
  May                  (* what the environment may do in an instance, each   *)
                       (* fault at most once:                                *)
                       (*   "cancel"  POST /runs/{id}/cancel                 *)
                       (*   "regrade" POST /runs/{id}/grading-runs           *)
                       (*   "crash"   a worker process dies                  *)
                       (*   "stall"   a lease runs out under a live task     *)
                       (*   "raise"   a handler transaction fails            *)
                       (*   "late"    complete, _after_job, fail or defer    *)
                       (*             fails                                  *)

(***************************************************************************)
(* The jobs of the run.                                                    *)
(***************************************************************************)
Grading == {"initial", "regrade"}

TrialJob(t)    == [kind |-> "trial", trial |-> t]
GradeJob(g, t) == [kind |-> g, trial |-> t]

TrialJobs    == {TrialJob(t) : t \in Trial}
GradeJobs(g) == {GradeJob(g, t) : t \in Trial}
RunJobs      == TrialJobs \cup GradeJobs("initial")   (* rows with run_id set *)
Job          == RunJobs \cup GradeJobs("regrade")

Key         == {"target", "grading"}
KeyOf       == [j \in Job |-> IF j \in TrialJobs THEN "target" ELSE "grading"]
LimitOf     == [j \in Job |-> IF j \in TrialJobs THEN TargetLimit ELSE 4]
RankOf      == [j \in Job |-> IF j \in TrialJobs THEN 1 + ScheduleOrder[j.trial] ELSE 0]
MaxAttempts == [j \in Job |-> JobAttempts]
ScanLimit   == 500

INSTANCE Jobs

(***************************************************************************)
(* Statuses of enums.py.                                                   *)
(***************************************************************************)
ProblemStatuses == {"provider_error", "timeout", "unsupported", "indeterminate", "skipped"}
TrialTerminal   == ProblemStatuses \cup {"success", "invalid_output", "cancelled"}
TrialStatus     == TrialTerminal \cup {"pending", "running"}
RunTerminal     == {"completed", "completed_with_errors", "cancelled"}
RunStatus       == RunTerminal \cup {"absent", "queued", "running", "cancelling"}

(***************************************************************************)
(* Stages of a trial's primary attempt rows: a stateless call, an agent's  *)
(* execution, a memory episode.  The last two group calls and are none.    *)
(***************************************************************************)
Stage         == {"target", "execution", "episode"}
UmbrellaStages == {"execution", "episode"}

ASSUME LifecycleAssumption ==
  /\ IsFiniteSet(Trial) /\ NoTrial \notin Trial /\ NoWorker \notin Worker
  /\ ScheduleOrder \in [Trial -> Nat]
  /\ FrozenSource \in [Trial -> Trial \cup {NoTrial}]
  /\ BaselinePeer \in [Trial -> Trial \cup {NoTrial}]
  /\ Manifests \subseteq [stage : Stage, restart : BOOLEAN]
  /\ MaxTargetCalls \in Nat
  /\ MoreCalls \subseteq Nat /\ MoreCalls # {} /\ IsFiniteSet(MoreCalls)
  /\ Outcomes \subseteq TrialTerminal \ {"cancelled"}
  /\ TargetLimit \in Nat \ {0} /\ JobAttempts \in Nat \ {0} /\ MaxFaults \in Nat
  /\ IsFiniteSet(Worker) /\ IsFiniteSet(Slot)

VARIABLES
  jobs, slots,         (* as in JobQueue                                     *)
  run,                 (* the run row: status, cancel_requested_at set       *)
  trial,               (* status of each trial                               *)
  attempts,            (* statuses of each trial's primary attempt rows      *)
  calls,               (* further call rows _finish wrote for each trial     *)
  grading,             (* status of each grading run                         *)
  grade,               (* verdict per grading run and trial                  *)
  reconciled,          (* failed jobs reconcile_failed_jobs has closed out   *)
  manifest,            (* what of the frozen manifest the handlers look at   *)
  faults               (* the faults that have happened                      *)

evidence == <<attempts, calls>>
vars == <<jobs, slots, run, trial, attempts, calls, grading, grade, reconciled, manifest, faults>>

(***************************************************************************)
(* A slot's task and where it is in its handler:                           *)
(*   trial jobs  prepare, execute (holding its attempt row), yield, return *)
(*   grade jobs  load, grade, yield, return                                *)
(* "return" is after the handler's last transaction and before complete,   *)
(* "after" between complete and _after_job, "yield" a raised Defer.        *)
(***************************************************************************)
Idle == [phase |-> "idle"]
Task ==
  [phase : {"yield", "return", "after"}, job : Job]
    \cup [phase : {"prepare"}, job : TrialJobs]
    \cup [phase : {"execute"}, job : TrialJobs, attempt : Nat \ {0}]
    \cup [phase : {"load", "grade"}, job : Job \ TrialJobs]

At(w, s, phase) == slots[w][s].phase = phase
JobIn(w, s)     == slots[w][s].job
Goto(w, s, phase) == slots' = [slots EXCEPT ![w][s] = [phase |-> phase, job |-> JobIn(w, s)]]
Free(w, s)        == slots' = [slots EXCEPT ![w][s] = Idle]

Init ==
  /\ jobs = [j \in Job |-> AbsentRow]
  /\ slots = [w \in Worker |-> [s \in Slot |-> Idle]]
  /\ run = [status |-> "absent", cancel |-> FALSE]
  /\ trial = [t \in Trial |-> "pending"]
  /\ attempts = [t \in Trial |-> <<>>]
  /\ calls = [t \in Trial |-> 0]
  /\ grading = [g \in Grading |-> "none"]
  /\ grade = [g \in Grading |-> [t \in Trial |-> "none"]]
  /\ reconciled = {}
  /\ manifest \in Manifests
  /\ faults = {}

Calm     == UNCHANGED <<manifest, faults>>
Fault(f) ==
  /\ f \in May \ faults /\ Cardinality(faults) < MaxFaults
  /\ faults' = faults \cup {f} /\ UNCHANGED manifest

(***************************************************************************)
(* finalize.py.  Both checks run at the end of a transaction and see what  *)
(* it wrote, so they read the primed table, trials and grades.             *)
(***************************************************************************)
OpenTrials(tr) == {t \in Trial : tr[t] \in {"pending", "running"}}

(* maybe_finalize_grading would complete g *)
GradingDue(g) ==
  /\ grading[g] = "queued"
  /\ Open(jobs') \cap GradeJobs(g) = {}
  /\ g = "initial" => OpenTrials(trial') = {}

(* slip: open trials are not counted *)
RunDueWithTrials(r) == r.status \notin RunTerminal /\ Open(jobs') \cap RunJobs = {}

(* maybe_finalize would finish the run row r *)
RunDue(r) ==
  /\ r.status \notin RunTerminal
  /\ OpenTrials(trial') = {}
  /\ Open(jobs') \cap RunJobs = {}

FinalStatus(r) ==
  IF r.cancel THEN "cancelled"
  ELSE IF \/ \E t \in Trial : trial'[t] \in ProblemStatuses
          \/ \E g \in Grading, t \in Trial : grade'[g][t] = "error"
  THEN "completed_with_errors" ELSE "completed"

CloseGradings(gs) ==
  grading' = [g \in Grading |-> IF g \in gs /\ GradingDue(g) THEN "completed" ELSE grading[g]]

(* maybe_finalize_grading for each of gs, then maybe_finalize, which first *)
(* tries every grading run of a run it finishes.                           *)
Finalize(gs, r) ==
  IF RunDue(r)
  THEN CloseGradings(Grading) /\ run' = [r EXCEPT !.status = FinalStatus(r)]
  ELSE CloseGradings(gs) /\ run' = r

(* slip: the grade job is forgotten *)
TerminateUngraded(t, status) ==
  /\ trial' = [trial EXCEPT ![t] = status]
  /\ UNCHANGED jobs

(***************************************************************************)
(* terminate: the last write to a trial, and the job that grades it.       *)
(***************************************************************************)
Terminate(t, status) ==
  /\ trial' = [trial EXCEPT ![t] = status]
  /\ jobs' = Enqueue(jobs, {GradeJob("initial", t)})

(***************************************************************************)
(* The API: create_run, cancel_run, create_grading_run.                    *)
(***************************************************************************)
CreateRun ==
  /\ run.status = "absent"
  /\ run' = [run EXCEPT !.status = "queued"]
  /\ grading' = [grading EXCEPT !["initial"] = "queued"]
  /\ jobs' = Enqueue(jobs, TrialJobs)
  /\ UNCHANGED <<slots, trial, evidence, grade, reconciled>>
  /\ Calm

CancelRun ==
  /\ "cancel" \in May
  /\ run.status \notin RunTerminal \cup {"absent"}
  /\ jobs' = CancelQueued(jobs, TrialJobs)
  /\ trial' = [t \in Trial |-> IF trial[t] = "pending" THEN "cancelled" ELSE trial[t]]
  /\ UNCHANGED <<slots, evidence, grade, reconciled>>
  /\ Finalize({}, [status |-> "cancelling", cancel |-> TRUE])
  /\ Calm

(* The grade jobs of a regrade carry no run_id. *)
Regrade ==
  /\ "regrade" \in May
  /\ run.status # "absent" /\ grading["regrade"] = "none"
  /\ LET settled == Trial \ OpenTrials(trial) IN
       /\ jobs' = Enqueue(jobs, {GradeJob("regrade", t) : t \in settled})
       /\ grading' = [grading EXCEPT !["regrade"] = IF settled = {} THEN "completed" ELSE "queued"]
  /\ UNCHANGED <<slots, run, trial, evidence, grade, reconciled>>
  /\ Calm

(***************************************************************************)
(* The worker loop.                                                        *)
(***************************************************************************)
evaluation == <<run, trial, evidence, grading, grade, reconciled>>

ClaimNext(w, s) ==
  /\ slots[w][s] = Idle
  /\ \E j \in Claimable(jobs) :
       /\ jobs' = Claim(jobs, j, w)
       /\ slots' = [slots EXCEPT ![w][s] =
            [phase |-> IF j \in TrialJobs THEN "prepare" ELSE "load", job |-> j]]
  /\ UNCHANGED evaluation
  /\ Calm

Recover(w) ==
  /\ jobs' = RecoverExpired(jobs)
  /\ UNCHANGED <<slots, evaluation>>
  /\ Calm

(* Every attempt row still running is marked interrupted. *)
Interrupted(rows) == [n \in DOMAIN rows |-> IF rows[n] = "running" THEN "interrupted" ELSE rows[n]]

(* slip: trials that never began are not closed out *)
ReconcileBegunOnly(w) ==
  LET failed == With(jobs, "failed") \ reconciled
      closed == {t \in Trial : trial[t] = "running" /\ TrialJob(t) \in failed}
  IN
  /\ failed # {}
  /\ reconciled' = reconciled \cup failed
  /\ attempts' = [t \in Trial |-> IF t \in closed THEN Interrupted(attempts[t]) ELSE attempts[t]]
  /\ trial' = [t \in Trial |-> IF t \in closed THEN "provider_error" ELSE trial[t]]
  /\ jobs' = Enqueue(jobs, {GradeJob("initial", t) : t \in closed})
  /\ UNCHANGED <<slots, run, calls, grading, grade>>
  /\ Calm

(* reconcile_failed_jobs: a trial whose job failed for good ends in        *)
(* provider_error and is still graded; only a trial closed here or a       *)
(* failed grade job of the run makes it check the run again.               *)
ReconcileFailedJobs(w) ==
  LET failed == With(jobs, "failed") \ reconciled
      closed == {t \in OpenTrials(trial) : TrialJob(t) \in failed}
  IN
  /\ failed # {}
  /\ reconciled' = reconciled \cup failed
  /\ attempts' = [t \in Trial |-> IF t \in closed THEN Interrupted(attempts[t]) ELSE attempts[t]]
  /\ trial' = [t \in Trial |-> IF t \in closed THEN "provider_error" ELSE trial[t]]
  /\ jobs' = Enqueue(jobs, {GradeJob("initial", t) : t \in closed})
  /\ UNCHANGED <<slots, calls, grade>>
  /\ IF closed # {} \/ failed \cap GradeJobs("initial") # {}
     THEN Finalize({}, run) ELSE UNCHANGED <<run, grading>>
  /\ Calm

Crash(w) ==
  /\ \E s \in Slot : slots[w][s] # Idle
  /\ slots' = [slots EXCEPT ![w] = [s \in Slot |-> Idle]]
  /\ UNCHANGED <<jobs, evaluation>>
  /\ Fault("crash")

(* A live task renews its lease, so only a stall lets it run out. *)
Abandoned(j) ==
  jobs[j].owner \in Worker => \A s \in Slot : slots[jobs[j].owner][s] # Idle => JobIn(jobs[j].owner, s) # j

LeaseRunsOut(j) ==
  /\ jobs[j].status = "running" /\ jobs[j].lease
  /\ jobs' = [jobs EXCEPT ![j].lease = FALSE]
  /\ UNCHANGED <<slots, evaluation>>

LeaseExpires(j) == Abandoned(j) /\ LeaseRunsOut(j) /\ Calm

Stall(j) == ~Abandoned(j) /\ LeaseRunsOut(j) /\ Fault("stall")

BecomesReady(j) ==
  /\ jobs[j].status = "queued" /\ ~jobs[j].ready
  /\ jobs' = [jobs EXCEPT ![j].ready = TRUE]
  /\ UNCHANGED <<slots, evaluation>>
  /\ Calm

(***************************************************************************)
(* run_trial_job: _prepare, in the order of its checks.  A transaction     *)
(* that ends the trial there enqueues its grade job, so the check of the   *)
(* run that follows finds an open job.                                     *)
(***************************************************************************)
Cancelling == run.cancel \/ run.status \in {"cancelling", "cancelled"}

(* Target calls on record: the primary rows, unless they are umbrella      *)
(* rows, and the further rows _finish wrote.                               *)
PrimaryCalls(t) == IF manifest.stage \in UmbrellaStages THEN 0 ELSE Len(attempts[t])
CallsUsed == MapThenSumSet(LAMBDA t : calls[t] + PrimaryCalls(t), Trial)

HasRunningAttempt(t) == \E n \in DOMAIN attempts[t] : attempts[t][n] = "running"
(* slips: the limit is one too high; a running source does not count as open *)
BudgetOverspent == CallsUsed > MaxTargetCalls
SourcePending(t) == FrozenSource[t] # NoTrial /\ trial[FrozenSource[t]] = "pending"

BarredFromReplay(t) == HasRunningAttempt(t) /\ manifest.stage = "episode" /\ ~manifest.restart
BudgetSpent     == CallsUsed >= MaxTargetCalls
SourceOpen(t)   == FrozenSource[t] # NoTrial /\ FrozenSource[t] \in OpenTrials(trial)
SourceFailed(t) == FrozenSource[t] # NoTrial /\ trial[FrozenSource[t]] \in TrialTerminal \ {"success"}

MarkInterrupted(t) == attempts' = [attempts EXCEPT ![t] = Interrupted(@)]

PrepareSettled(w, s, t) ==
  /\ trial[t] \in TrialTerminal
  /\ Goto(w, s, "return")
  /\ UNCHANGED <<jobs, evaluation>>

PrepareCancelled(w, s, t) ==
  /\ trial[t] \notin TrialTerminal /\ Cancelling
  /\ Terminate(t, "cancelled")
  /\ Goto(w, s, "return")
  /\ UNCHANGED <<evidence, grade, reconciled>>
  /\ Finalize({}, run)

PrepareRejected(w, s, t) ==
  /\ trial[t] \notin TrialTerminal /\ ~Cancelling
  /\ BarredFromReplay(t) \/ BudgetSpent \/ SourceFailed(t)
  /\ MarkInterrupted(t)
  /\ Terminate(t, IF BarredFromReplay(t) THEN "indeterminate" ELSE "skipped")
  /\ Goto(w, s, "return")
  /\ UNCHANGED <<calls, grade, reconciled>>
  /\ Finalize({}, run)

PrepareDefers(w, s, t) ==
  /\ trial[t] \notin TrialTerminal /\ ~Cancelling
  /\ ~BarredFromReplay(t) /\ ~BudgetSpent /\ SourceOpen(t)
  /\ MarkInterrupted(t)
  /\ Goto(w, s, "yield")
  /\ UNCHANGED <<jobs, run, trial, calls, grading, grade, reconciled>>

(* slip: the attempt is given the number of the last one *)
BeginMisnumbered(w, s, t) ==
  /\ trial[t] \notin TrialTerminal /\ ~Cancelling
  /\ ~BarredFromReplay(t) /\ ~BudgetSpent /\ ~SourceOpen(t) /\ ~SourceFailed(t)
  /\ run' = IF run.status = "queued" THEN [run EXCEPT !.status = "running"] ELSE run
  /\ trial' = [trial EXCEPT ![t] = "running"]
  /\ attempts' = [attempts EXCEPT ![t] = Append(Interrupted(@), "running")]
  /\ slots' = [slots EXCEPT ![w][s] =
       [phase |-> "execute", job |-> TrialJob(t), attempt |-> Len(attempts[t])]]
  /\ UNCHANGED <<jobs, calls, grading, grade, reconciled>>

PrepareBegins(w, s, t) ==
  /\ trial[t] \notin TrialTerminal /\ ~Cancelling
  /\ ~BarredFromReplay(t) /\ ~BudgetSpent /\ ~SourceOpen(t) /\ ~SourceFailed(t)
  /\ run' = IF run.status = "queued" THEN [run EXCEPT !.status = "running"] ELSE run
  /\ trial' = [trial EXCEPT ![t] = "running"]
  /\ attempts' = [attempts EXCEPT ![t] = Append(Interrupted(@), "running")]
  /\ slots' = [slots EXCEPT ![w][s] =
       [phase |-> "execute", job |-> TrialJob(t), attempt |-> Len(attempts[t]) + 1]]
  /\ UNCHANGED <<jobs, calls, grading, grade, reconciled>>

Prepare(w, s) ==
  /\ At(w, s, "prepare")
  /\ LET t == JobIn(w, s).trial IN
       \/ PrepareSettled(w, s, t) \/ PrepareCancelled(w, s, t) \/ PrepareRejected(w, s, t)
       \/ PrepareDefers(w, s, t) \/ PrepareBegins(w, s, t)
  /\ Calm

(***************************************************************************)
(* run_trial_job: _finish.  Writing to an attempt row that is no longer    *)
(* running raises (the guards of migrate.py), which rolls the whole        *)
(* transaction back and fails the job; _finish does not look at the lease. *)
(***************************************************************************)
FinishTooLate(w, s, t) ==
  /\ trial[t] \in TrialTerminal
  /\ Goto(w, s, "return")
  /\ UNCHANGED <<jobs, evaluation>>

(* slips: the trial is not looked at again; a stale attempt still counts   *)
FinishAfterSettled(w, s, t, n) ==
  /\ attempts[t][n] = "running"
  /\ attempts' = [attempts EXCEPT ![t][n] = "finished"]
  /\ \E status \in Outcomes : Terminate(t, status)
  /\ Goto(w, s, "return")
  /\ UNCHANGED <<run, calls, grading, grade, reconciled>>

FinishStale(w, s, t, n) ==
  /\ trial[t] \notin TrialTerminal
  /\ attempts' = [attempts EXCEPT ![t][n] = IF @ = "running" THEN "finished" ELSE @]
  /\ \E status \in Outcomes : Terminate(t, status)
  /\ Goto(w, s, "return")
  /\ UNCHANGED <<run, calls, grading, grade, reconciled>>

FinishRecords(w, s, t, n) ==
  /\ trial[t] \notin TrialTerminal /\ attempts[t][n] = "running"
  /\ attempts' = [attempts EXCEPT ![t][n] = "finished"]
  /\ \E more \in MoreCalls : calls' = [calls EXCEPT ![t] = @ + more]
  /\ \E status \in Outcomes : Terminate(t, status)
  /\ Goto(w, s, "return")
  /\ UNCHANGED <<run, grading, grade, reconciled>>

FinishRaises(w, s, t, n) ==
  /\ trial[t] \notin TrialTerminal /\ attempts[t][n] # "running"
  /\ jobs' = Fail(jobs, TrialJob(t), w, TRUE)
  /\ Free(w, s)
  /\ UNCHANGED evaluation

Finish(w, s) ==
  /\ At(w, s, "execute")
  /\ LET t == JobIn(w, s).trial
         n == slots[w][s].attempt
     IN FinishTooLate(w, s, t) \/ FinishRecords(w, s, t, n) \/ FinishRaises(w, s, t, n)
  /\ Calm

(***************************************************************************)
(* run_grade_job: _load reads, the judges run, _persist writes what is not *)
(* there yet and checks the grading run and the run.                       *)
(***************************************************************************)
PeerOpen(t) == BaselinePeer[t] # NoTrial /\ BaselinePeer[t] \in OpenTrials(trial)

Load(w, s) ==
  /\ At(w, s, "load")
  /\ Goto(w, s, IF PeerOpen(JobIn(w, s).trial) THEN "yield" ELSE "grade")
  /\ UNCHANGED <<jobs, evaluation>>
  /\ Calm

(* slip: a grade that is there is written again *)
PersistAgain(w, s) ==
  /\ At(w, s, "grade")
  /\ \E verdict \in {"pass", "error"} :
       grade' = [grade EXCEPT ![JobIn(w, s).kind][JobIn(w, s).trial] = verdict]
  /\ UNCHANGED <<jobs, trial>>
  /\ Finalize({JobIn(w, s).kind}, run)
  /\ Goto(w, s, "return")
  /\ UNCHANGED <<evidence, reconciled>>
  /\ Calm

Persist(w, s) ==
  /\ At(w, s, "grade")
  /\ LET g == JobIn(w, s).kind
         t == JobIn(w, s).trial
     IN /\ \E verdict \in {"pass", "error"} :
             grade' = [grade EXCEPT ![g][t] = IF @ = "none" THEN verdict ELSE @]
        /\ UNCHANGED <<jobs, trial>>
        /\ Finalize({g}, run)
  /\ Goto(w, s, "return")
  /\ UNCHANGED <<evidence, reconciled>>
  /\ Calm

(* slip: a lost lease is ignored *)
ReturnAnyway(w, s) ==
  /\ At(w, s, "return")
  /\ jobs' = Complete(jobs, JobIn(w, s), w)
  /\ Goto(w, s, "after")
  /\ UNCHANGED evaluation
  /\ Calm

(***************************************************************************)
(* The end of a task, Worker._handle.                                      *)
(***************************************************************************)
Return(w, s) ==
  /\ At(w, s, "return")
  /\ LET j == JobIn(w, s) IN
       /\ jobs' = Complete(jobs, j, w)
       /\ IF Holds(jobs, j, w) THEN Goto(w, s, "after") ELSE Free(w, s)
  /\ UNCHANGED evaluation
  /\ Calm

(* slip: a job without a run is skipped *)
AfterJobOfRun(w, s) ==
  /\ At(w, s, "after")
  /\ UNCHANGED <<jobs, trial, grade>>
  /\ IF JobIn(w, s) \in RunJobs THEN Finalize({"initial"}, run) ELSE UNCHANGED <<run, grading>>
  /\ Free(w, s)
  /\ UNCHANGED <<evidence, reconciled>>
  /\ Calm

(* _after_job: the payload names a grading run, run_id may be null. *)
AfterJob(w, s) ==
  /\ At(w, s, "after")
  /\ LET j == JobIn(w, s)
         g == IF j \in TrialJobs THEN "initial" ELSE j.kind
     IN /\ UNCHANGED <<jobs, trial, grade>>
        /\ IF j \in RunJobs THEN Finalize({g}, run) ELSE CloseGradings({g}) /\ UNCHANGED run
  /\ Free(w, s)
  /\ UNCHANGED <<evidence, reconciled>>
  /\ Calm

Yield(w, s) ==
  /\ At(w, s, "yield")
  /\ jobs' = Defer(jobs, JobIn(w, s), w)
  /\ Free(w, s)
  /\ UNCHANGED evaluation
  /\ Calm

(* A transaction of the handler, complete or _after_job raises. *)
Raise(w, s) ==
  /\ slots[w][s] # Idle /\ ~At(w, s, "yield")
  /\ jobs' = Fail(jobs, JobIn(w, s), w, TRUE)
  /\ Free(w, s)
  /\ UNCHANGED evaluation
  /\ Fault(IF slots[w][s].phase \in {"return", "after"} THEN "late" ELSE "raise")

(* So does the fail or defer that should record the outcome. *)
OutcomeLost(w, s) ==
  /\ slots[w][s] # Idle
  /\ Free(w, s)
  /\ UNCHANGED <<jobs, evaluation>>
  /\ Fault("late")

TaskStep(w, s) ==
  \/ Prepare(w, s) \/ Finish(w, s) \/ Load(w, s) \/ Persist(w, s)
  \/ Return(w, s) \/ AfterJob(w, s) \/ Yield(w, s)

Next ==
  \/ CreateRun \/ CancelRun \/ Regrade
  \/ \E j \in Job : LeaseExpires(j) \/ Stall(j) \/ BecomesReady(j)
  \/ \E w \in Worker :
       \/ Recover(w) \/ ReconcileFailedJobs(w) \/ Crash(w)
       \/ \E s \in Slot : ClaimNext(w, s) \/ TaskStep(w, s) \/ Raise(w, s) \/ OutcomeLost(w, s)

Spec == Init /\ [][Next]_vars

TypeOK ==
  /\ jobs \in [Job -> Row]
  /\ slots \in [Worker -> [Slot -> Task \cup {Idle}]]
  /\ run \in [status : RunStatus, cancel : BOOLEAN]
  /\ trial \in [Trial -> TrialStatus]
  /\ attempts \in [Trial -> Seq({"running", "interrupted", "finished"})]
  /\ calls \in [Trial -> Nat]
  /\ grading \in [Grading -> {"none", "queued", "completed"}]
  /\ grade \in [Grading -> [Trial -> {"none", "pass", "error"}]]
  /\ reconciled \subseteq Job
  /\ manifest \in Manifests
  /\ faults \subseteq May
=============================================================================
