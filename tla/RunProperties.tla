--------------------------- MODULE RunProperties ----------------------------
(***************************************************************************)
(* What RunLifecycle is checked for: invariants, action properties, its    *)
(* refinement of JobQueue and EvaluationRun, liveness, and the statements  *)
(* of the sources that the code does not keep.                             *)
(***************************************************************************)
EXTENDS RunLifecycle

(***************************************************************************)
(* What the run relies on.                                                 *)
(***************************************************************************)

(* No path through retries, recovery, cancellation and reconciliation      *)
(* loses a trial: its job is finished, or closed out after it failed, only *)
(* once the trial has settled; a finished run is at rest, every trial      *)
(* settled and its first grading complete (finalize.py 83-96); and if it   *)
(* was not cancelled a trial is ungraded only because its grade job failed *)
(* for good ("reduced grade coverage").                                    *)
TrialsAreAccountedFor ==
  /\ \A t \in Trial :
       \/ jobs[TrialJob(t)].status = "succeeded"
       \/ jobs[TrialJob(t)].status = "failed" /\ TrialJob(t) \in reconciled
       => trial[t] \in TrialTerminal
  /\ run.status \in RunTerminal => OpenTrials(trial) = {} /\ grading["initial"] = "completed"
  /\ run.status \in {"completed", "completed_with_errors"} =>
       \A t \in Trial : \/ grade["initial"][t] # "none"
                        \/ jobs[GradeJob("initial", t)].status = "failed"

(* What the attempt rows of a trial say is what happened, however many     *)
(* handlers run the trial at once after leases were lost: at most one is   *)
(* running or recorded (trial_runner.py 89-97, migrate.py's terminal       *)
(* guard); a success stands on a recorded one; only a cancellation, which  *)
(* _prepare looks for before it marks attempts, leaves a running row       *)
(* behind; and an interrupted memory episode is not replayed when restarts *)
(* are disabled (trial_runner.py 5-8).                                     *)
AttemptsAreEvidence ==
  \A t \in Trial :
    /\ Cardinality({n \in DOMAIN attempts[t] : attempts[t][n] # "interrupted"}) <= 1
    /\ trial[t] = "success" => \E n \in DOMAIN attempts[t] : attempts[t][n] = "finished"
    /\ trial[t] \in TrialTerminal /\ HasRunningAttempt(t) => trial[t] = "cancelled"
    /\ manifest.stage = "episode" /\ ~manifest.restart => Len(attempts[t]) <= 1

(* Call-count limits remain enforceable (plan.md section 4), although the *)
(* limit is read when a trial begins and spent when it finishes: first    *)
(* calls on record never pass it, and however many trials a run has, what *)
(* passes it is at most one execution's further calls per worker slot.    *)
(* (trial_runner.py 105-115, UMBRELLA_STAGES)                             *)
CallLimitHolds ==
  /\ MapThenSumSet(PrimaryCalls, Trial) <= MaxTargetCalls
  /\ CallsUsed <= MaxTargetCalls + Cardinality(Worker \X Slot) * Max(MoreCalls)

(* Trials wait for those they build on: a frozen_context repeat executes *)
(* only over a captured context, repeat 0 having succeeded before it     *)
(* began; a pairwise verdict compares settled outputs, nothing being     *)
(* graded before its paired baseline has settled (grading.py 56-61).     *)
PeersComeFirst ==
  /\ \A t \in Trial : FrozenSource[t] # NoTrial /\ attempts[t] # <<>> => trial[FrozenSource[t]] = "success"
  /\ \A t \in Trial, g \in Grading :
       BaselinePeer[t] # NoTrial /\ grade[g][t] # "none" => BaselinePeer[t] \notin OpenTrials(trial)

(***************************************************************************)
(* What no step does.                                                      *)
(***************************************************************************)

(* Evidence only grows: a recorded or interrupted attempt keeps its status *)
(* and a grade its verdict, whichever handlers are still at work.          *)
EvidenceIsKept ==
  [][\A t \in Trial :
       /\ \A n \in DOMAIN attempts[t] :
            attempts[t][n] # "running" => n \in DOMAIN attempts'[t] /\ attempts'[t][n] = attempts[t][n]
       /\ \A g \in Grading : grade[g][t] # "none" => grade'[g][t] = grade[g][t]]_vars

(***************************************************************************)
(* The table and the tasks behave as JobQueue says: a task is "working"    *)
(* from its claim to the commit of its outcome.                            *)
(***************************************************************************)
QueueSlots ==
  [w \in Worker |-> [s \in Slot |->
     IF slots[w][s] = Idle THEN Idle
     ELSE IF At(w, s, "after") THEN [phase |-> "after", job |-> JobIn(w, s)]
     ELSE [phase |-> "working", job |-> JobIn(w, s), beat |-> TRUE]]]

Queue == INSTANCE JobQueue WITH
  slots <- QueueSlots, Handled <- Job, Deferring <- Job, Mortal <- Worker, CancelGroups <- {TrialJobs}

(* Every transaction of the run's handlers and of its API is one step of *)
(* the queue, so what holds of the queue holds here.                     *)
UsesQueueAsSpecified == Queue!Spec

(* The run as its user sees it.                                            *)
Promise == INSTANCE EvaluationRun WITH status <- run.status, cancel <- run.cancel

(* Under every fault and interleaving, the run keeps what EvaluationRun *)
(* promises.                                                            *)
KeepsRunPromise == Promise!Spec

(***************************************************************************)
(* Liveness.  Faults are finitely many, so from some point on              *)
(* the worker processes loop and their tasks end: calls have timeouts,     *)
(* and a process that died was started again.                              *)
(***************************************************************************)
Fairness ==
  /\ \A w \in Worker : /\ WF_vars(Recover(w)) /\ WF_vars(ReconcileFailedJobs(w))
                       /\ \A s \in Slot : WF_vars(ClaimNext(w, s)) /\ WF_vars(TaskStep(w, s))
  /\ \A j \in Job : WF_vars(LeaseExpires(j)) /\ WF_vars(BecomesReady(j))

FairSpec == Spec /\ WF_vars(CreateRun) /\ Fairness

(* Whatever is lost, retried or recovered, every trial of a run nobody   *)
(* cancels eventually settles and is graded, or its grade job failed for *)
(* good after all its attempts.                                          *)
TrialsSettle ==
  \A t \in Trial :
    <>(/\ trial[t] \in TrialTerminal
       /\ grade["initial"][t] # "none" \/ jobs[GradeJob("initial", t)].status = "failed")

(* A run that meets no worse than one stall, or one failed transaction of *)
(* a handler, reaches a terminal status, and a regrade that was started   *)
(* completes, with or without its run.                                    *)
Mild == faults \in {{}, {"stall"}, {"raise"}}

RunFinishes ==
  []Mild => /\ <>(run.status \in RunTerminal)
            /\ grading["regrade"] = "queued" ~> grading["regrade"] = "completed"

(***************************************************************************)
(* Statements of the sources that the code does not keep.                  *)
(***************************************************************************)

(* finalize.py 6: "A run with a cancel request ends ``cancelled`` and *)
(* keeps its partial results."                                        *)
CancelledRunEnds == run.cancel ~> run.status = "cancelled"

(* architecture.md 91-92: "**Finalisation** re-checks the run after each *)
(* job; a run whose trials all finished becomes `completed` or           *)
(* `completed_with_errors`"                                              *)
SettledRunFinishes ==
  (OpenTrials(trial) = {} /\ Open(jobs) \cap RunJobs = {}) ~> run.status \in RunTerminal

(* finalize.py 3: "A run is ``completed`` when every planned slot is *)
(* terminal and graded".                                             *)
CompletedMeansGraded ==
  run.status = "completed" => \A t \in Trial : grade["initial"][t] # "none"
=============================================================================
