------------------------- MODULE RunLifecycleProofs --------------------------
(***************************************************************************)
(* Proofs about RunLifecycle, for any trials, workers, slots, limits and   *)
(* faults.  In the order of the module:                                    *)
(*                                                                         *)
(*   - types (TypeCorrect);                                                *)
(*   - the refinement of EvaluationRun (KeepsThePromise), from which       *)
(*     follows that a settled trial never changes, used by all the rest;   *)
(*   - evidence: what a step keeps (EvidenceKept), and how the attempt     *)
(*     rows of a trial fit its status (AttemptInv, AttemptsHold);          *)
(*   - peers (PeerInv, PeersFirst);                                        *)
(*   - the budget: what the calls on record add up to (BudgetInv,          *)
(*     CallLimitKept), over the sums of module Induction;                  *)
(*   - the books: what rows of the job table say about trials and grades   *)
(*     (BooksInv, FinishedInv, AccountsHold);                              *)
(*   - the refinement of JobQueue (FreshInv, UsesQueue).                   *)
(*                                                                         *)
(* NextOnEvaluation splits a step by what it does to the run, its trials   *)
(* and its grades; SlotMoves and TaskMoves by what it does to a slot;      *)
(* RowMoves by what it does to a row.                                      *)
(***************************************************************************)
EXTENDS RunProperties, Induction, FiniteSetTheorems, TLAPS

(***************************************************************************)
(* Type correctness.  Every operation of jobs.py keeps the table typed.    *)
(***************************************************************************)
TableOK(T) == T \in [Job -> Row]

LEMMA ConstantsOK ==
  /\ MaxAttempts \in [Job -> Nat \ {0}]
  /\ NoWorker \notin Worker
  BY LifecycleAssumption DEF MaxAttempts

LEMMA RowsOK ==
  ASSUME NEW r \in Row, NEW b \in BOOLEAN
  PROVE  /\ Requeued(r, b) \in Row /\ GivenUp(r) \in Row
         /\ AbsentRow \in Row /\ [AbsentRow EXCEPT !.status = "queued", !.ready = TRUE] \in Row
  BY DEF Row, Requeued, GivenUp, AbsentRow

LEMMA EnqueueTable == ASSUME NEW T, TableOK(T), NEW S PROVE TableOK(Enqueue(T, S))
  BY DEF TableOK, Enqueue, AbsentRow, Row

LEMMA CancelTable == ASSUME NEW T, TableOK(T), NEW S PROVE TableOK(CancelQueued(T, S))
  BY DEF TableOK, CancelQueued, Row

LEMMA RecoverTable == ASSUME NEW T, TableOK(T) PROVE TableOK(RecoverExpired(T))
  BY RowsOK DEF TableOK, RecoverExpired

LEMMA ClaimTable ==
  ASSUME NEW T, TableOK(T), NEW j \in Job, NEW w \in Worker PROVE TableOK(Claim(T, j, w))
  BY DEF TableOK, Claim, Row

LEMMA CompleteTable ==
  ASSUME NEW T, TableOK(T), NEW j \in Job, NEW w \in Worker PROVE TableOK(Complete(T, j, w))
<1> DEFINE r == [T[j] EXCEPT !.status = "succeeded", !.lease = FALSE]
<1>1. T[j] \in Row /\ r \in Row
  BY DEF TableOK, Row
<1>2. Complete(T, j, w) \in {T, [T EXCEPT ![j] = r]}
  BY DEF Complete, TableOK
<1> HIDE DEF r
<1> QED BY <1>1, <1>2 DEF TableOK

LEMMA FailTable ==
  ASSUME NEW T, TableOK(T), NEW j \in Job, NEW w \in Worker PROVE TableOK(Fail(T, j, w, TRUE))
  BY RowsOK DEF TableOK, Fail

LEMMA DeferTable ==
  ASSUME NEW T, TableOK(T), NEW j \in Job, NEW w \in Worker PROVE TableOK(Defer(T, j, w))
<1> DEFINE n == IF T[j].attempts = 0 THEN 0 ELSE T[j].attempts - 1
           r == [Requeued(T[j], FALSE) EXCEPT !.attempts = n]
<1>1. n \in Nat
  BY DEF TableOK, Row
<1>2. r \in Row
  BY <1>1 DEF TableOK, Row, Requeued
<1>3. Defer(T, j, w) = IF T[j].owner # w THEN T ELSE [T EXCEPT ![j] = r]
  BY DEF Defer
<1> HIDE DEF r
<1> QED BY <1>2, <1>3 DEF TableOK

(***************************************************************************)
(* Slots.                                                                  *)
(***************************************************************************)
SlotsOK == slots \in [Worker -> [Slot -> Task \cup {Idle}]]

LEMMA BusySlot ==
  ASSUME SlotsOK, NEW w \in Worker, NEW s \in Slot, slots[w][s] # Idle
  PROVE  slots[w][s] \in Task /\ JobIn(w, s) \in Job
  BY DEF SlotsOK, Task, JobIn, Job, RunJobs

LEMMA PhaseBusy ==
  ASSUME NEW w \in Worker, NEW s \in Slot, NEW p, At(w, s, p), p # "idle"
  PROVE  slots[w][s] # Idle
  BY DEF At, Idle

LEMMA JobParts ==
  ASSUME NEW j \in Job
  PROVE  /\ j.trial \in Trial
         /\ j.kind \in Grading \cup {"trial"}
         /\ j \in TrialJobs <=> j.kind = "trial"
         /\ j \in TrialJobs => j = TrialJob(j.trial)
         /\ j \notin TrialJobs => j.kind \in Grading /\ j = GradeJob(j.kind, j.trial)
  BY DEF Job, RunJobs, TrialJobs, GradeJobs, TrialJob, GradeJob, Grading

LEMMA PutSlot ==
  ASSUME SlotsOK, NEW w \in Worker, NEW s \in Slot, NEW x \in Task \cup {Idle},
         slots' = [slots EXCEPT ![w][s] = x]
  PROVE  SlotsOK'
  BY DEF SlotsOK

LEMMA TaskParts ==
  ASSUME SlotsOK, NEW w \in Worker, NEW s \in Slot, slots[w][s] # Idle
  PROVE  /\ At(w, s, "prepare") \/ At(w, s, "execute") => JobIn(w, s) \in TrialJobs
         /\ At(w, s, "load") \/ At(w, s, "grade") => JobIn(w, s) \in Job \ TrialJobs
         /\ At(w, s, "execute") => slots[w][s].attempt \in Nat \ {0}
  BY BusySlot DEF Task, At, JobIn

LEMMA GotoOK ==
  ASSUME SlotsOK, NEW w \in Worker, NEW s \in Slot, slots[w][s] # Idle,
         NEW p, p \in {"yield", "return", "after"} \/ (p = "grade" /\ JobIn(w, s) \notin TrialJobs),
         Goto(w, s, p)
  PROVE  SlotsOK'
<1>1. [phase |-> p, job |-> JobIn(w, s)] \in Task
  BY BusySlot DEF Task
<1> QED BY <1>1, PutSlot DEF Goto

LEMMA FreeOK ==
  ASSUME SlotsOK, NEW w \in Worker, NEW s \in Slot, Free(w, s)
  PROVE  SlotsOK'
  BY PutSlot DEF Free

(***************************************************************************)
(* Steps.  Most leave the evaluation alone and only move tasks and rows.   *)
(***************************************************************************)
Cancelled(w, s) == At(w, s, "prepare") /\ PrepareCancelled(w, s, JobIn(w, s).trial)
Rejected(w, s)  == At(w, s, "prepare") /\ PrepareRejected(w, s, JobIn(w, s).trial)
Defers(w, s)    == At(w, s, "prepare") /\ PrepareDefers(w, s, JobIn(w, s).trial)
Begins(w, s)    == At(w, s, "prepare") /\ PrepareBegins(w, s, JobIn(w, s).trial)
Records(w, s)   == At(w, s, "execute") /\ FinishRecords(w, s, JobIn(w, s).trial, slots[w][s].attempt)

Evaluates(w, s) ==
  Cancelled(w, s) \/ Rejected(w, s) \/ Defers(w, s) \/ Begins(w, s) \/ Records(w, s)
    \/ Persist(w, s) \/ AfterJob(w, s)

LEMMA NextOnEvaluation ==
  ASSUME [Next]_vars
  PROVE  \/ UNCHANGED evaluation
         \/ CreateRun \/ CancelRun \/ Regrade
         \/ \E w \in Worker : ReconcileFailedJobs(w)
         \/ \E w \in Worker, s \in Slot : Evaluates(w, s)
<1>1. CASE UNCHANGED vars
  BY <1>1 DEF vars, evaluation, evidence
<1>2. CASE CreateRun \/ CancelRun \/ Regrade
  BY <1>2
<1>3. CASE \E j \in Job : LeaseExpires(j) \/ Stall(j) \/ BecomesReady(j)
  BY <1>3 DEF LeaseExpires, Stall, BecomesReady, LeaseRunsOut
<1>4. ASSUME NEW w \in Worker, Recover(w) \/ ReconcileFailedJobs(w) \/ Crash(w)
      PROVE  UNCHANGED evaluation \/ ReconcileFailedJobs(w)
  BY <1>4 DEF Recover, Crash
<1>5. ASSUME NEW w \in Worker, NEW s \in Slot, ClaimNext(w, s) \/ TaskStep(w, s) \/ Raise(w, s) \/ OutcomeLost(w, s)
      PROVE  UNCHANGED evaluation \/ Evaluates(w, s)
  <2>1. CASE ClaimNext(w, s) \/ Raise(w, s) \/ OutcomeLost(w, s)
    BY <2>1 DEF ClaimNext, Raise, OutcomeLost
  <2>2. CASE Prepare(w, s)
    BY <2>2 DEF Prepare, PrepareSettled, Evaluates, Cancelled, Rejected, Defers, Begins
  <2>3. CASE Finish(w, s)
    BY <2>3 DEF Finish, FinishTooLate, FinishRaises, Evaluates, Records
  <2>4. CASE Load(w, s) \/ Return(w, s) \/ Yield(w, s)
    BY <2>4 DEF Load, Return, Yield
  <2>5. CASE Persist(w, s) \/ AfterJob(w, s)
    BY <2>5 DEF Evaluates
  <2> QED BY <1>5, <2>1, <2>2, <2>3, <2>4, <2>5 DEF TaskStep
<1> QED BY <1>1, <1>2, <1>3, <1>4, <1>5 DEF Next

(***************************************************************************)
(* The types of the evaluation.                                            *)
(***************************************************************************)
RowStatus == {"running", "interrupted", "finished"}

EvaluationOK ==
  /\ run \in [status : RunStatus, cancel : BOOLEAN]
  /\ trial \in [Trial -> TrialStatus]
  /\ attempts \in [Trial -> Seq(RowStatus)]
  /\ calls \in [Trial -> Nat]
  /\ grading \in [Grading -> {"none", "queued", "completed"}]
  /\ grade \in [Grading -> [Trial -> {"none", "pass", "error"}]]
  /\ reconciled \subseteq Job

LEMMA InterruptedOK ==
  ASSUME NEW rows \in Seq(RowStatus)
  PROVE  /\ Interrupted(rows) \in Seq(RowStatus) /\ Len(Interrupted(rows)) = Len(rows)
         /\ DOMAIN Interrupted(rows) = 1 .. Len(rows) /\ DOMAIN rows = 1 .. Len(rows)
         /\ \A n \in 1 .. Len(rows) : Interrupted(rows)[n] = IF rows[n] = "running" THEN "interrupted" ELSE rows[n]
<1>1. Interrupted(rows) \in [1 .. Len(rows) -> RowStatus]
  BY DEF Interrupted, RowStatus
<1> QED BY <1>1 DEF Interrupted

LEMMA FinalizeOK ==
  ASSUME NEW gs, NEW r \in [status : RunStatus, cancel : BOOLEAN], EvaluationOK, Finalize(gs, r)
  PROVE  /\ run' \in [status : RunStatus, cancel : BOOLEAN]
         /\ grading' \in [Grading -> {"none", "queued", "completed"}]
<1>1. FinalStatus(r) \in RunStatus
  BY DEF FinalStatus, RunStatus, RunTerminal
<1>2. \A hs : CloseGradings(hs) => grading' \in [Grading -> {"none", "queued", "completed"}]
  BY DEF CloseGradings, EvaluationOK
<1> QED BY <1>1, <1>2 DEF Finalize

LEMMA TerminateOK ==
  ASSUME NEW t \in Trial, NEW status \in TrialTerminal, EvaluationOK, Terminate(t, status)
  PROVE  trial' \in [Trial -> TrialStatus]
  BY DEF Terminate, EvaluationOK, TrialStatus

LEMMA EvaluationStep ==
  ASSUME EvaluationOK, SlotsOK, [Next]_vars
  PROVE  EvaluationOK'
<1>1. CASE UNCHANGED evaluation
  BY <1>1 DEF evaluation, evidence, EvaluationOK
<1>2. CASE CreateRun
  BY <1>2 DEF CreateRun, EvaluationOK, evidence, RunStatus, Grading
<1>3. CASE CancelRun
  <2>1. trial' \in [Trial -> TrialStatus]
    BY <1>3 DEF CancelRun, EvaluationOK, TrialStatus, TrialTerminal
  <2>2. [status |-> "cancelling", cancel |-> TRUE] \in [status : RunStatus, cancel : BOOLEAN]
    BY DEF RunStatus
  <2> QED BY <1>3, <2>1, <2>2, FinalizeOK DEF CancelRun, EvaluationOK, evidence
<1>4. CASE Regrade
  BY <1>4 DEF Regrade, EvaluationOK, evidence
<1>5. ASSUME NEW w \in Worker, ReconcileFailedJobs(w) PROVE EvaluationOK'
  <2>1. trial' \in [Trial -> TrialStatus]
    BY <1>5 DEF ReconcileFailedJobs, EvaluationOK, TrialStatus, TrialTerminal, ProblemStatuses
  <2>2. attempts' \in [Trial -> Seq(RowStatus)]
    BY <1>5, InterruptedOK DEF ReconcileFailedJobs, EvaluationOK
  <2>3. reconciled' \subseteq Job
    BY <1>5 DEF ReconcileFailedJobs, EvaluationOK, With
  <2>4. /\ run' \in [status : RunStatus, cancel : BOOLEAN]
        /\ grading' \in [Grading -> {"none", "queued", "completed"}]
    BY <1>5, FinalizeOK DEF ReconcileFailedJobs, EvaluationOK
  <2> QED BY <1>5, <2>1, <2>2, <2>3, <2>4 DEF ReconcileFailedJobs, EvaluationOK
<1>6. ASSUME NEW w \in Worker, NEW s \in Slot, Evaluates(w, s) PROVE EvaluationOK'
  <2> DEFINE t == JobIn(w, s).trial
  <2>1. slots[w][s] # Idle
    BY <1>6, PhaseBusy DEF Evaluates, Cancelled, Rejected, Defers, Begins, Records, Persist, AfterJob
  <2>2. JobIn(w, s) \in Job /\ t \in Trial /\ JobIn(w, s).kind \in Grading \cup {"trial"}
    BY <2>1, BusySlot, JobParts
  <2> HIDE DEF t
  <2>3. CASE Cancelled(w, s)
    BY <2>2, <2>3, TerminateOK, FinalizeOK DEF Cancelled, PrepareCancelled, EvaluationOK, evidence, TrialTerminal, t
  <2>4. MarkInterrupted(t) => attempts' \in [Trial -> Seq(RowStatus)]
    BY <2>2, InterruptedOK DEF MarkInterrupted, EvaluationOK
  <2>5. CASE Rejected(w, s)
    <3>1. "indeterminate" \in TrialTerminal /\ "skipped" \in TrialTerminal
      BY DEF TrialTerminal, ProblemStatuses
    <3> QED BY <2>2, <2>4, <2>5, <3>1, TerminateOK, FinalizeOK DEF Rejected, PrepareRejected, EvaluationOK, t
  <2>6. CASE Defers(w, s)
    BY <2>2, <2>4, <2>6 DEF Defers, PrepareDefers, EvaluationOK, t
  <2>7. CASE Begins(w, s)
    <3>1. Append(Interrupted(attempts[t]), "running") \in Seq(RowStatus)
      BY <2>2, InterruptedOK DEF EvaluationOK, RowStatus
    <3>2. attempts' \in [Trial -> Seq(RowStatus)]
      BY <2>2, <2>7, <3>1 DEF Begins, PrepareBegins, EvaluationOK, t
    <3>3. run' \in [status : RunStatus, cancel : BOOLEAN] /\ trial' \in [Trial -> TrialStatus]
      BY <2>7 DEF Begins, PrepareBegins, EvaluationOK, RunStatus, TrialStatus, t
    <3> QED BY <2>7, <3>2, <3>3 DEF Begins, PrepareBegins, EvaluationOK
  <2>8. CASE Records(w, s)
    <3> DEFINE n == slots[w][s].attempt
    <3>1. attempts' = [attempts EXCEPT ![t] = [@ EXCEPT ![n] = "finished"]]
      BY <2>8 DEF Records, FinishRecords, t
    <3>2. [attempts[t] EXCEPT ![n] = "finished"] \in Seq(RowStatus)
      <4>1. attempts[t] \in [1 .. Len(attempts[t]) -> RowStatus] /\ Len(attempts[t]) \in Nat
        BY <2>2 DEF EvaluationOK
      <4>2. [attempts[t] EXCEPT ![n] = "finished"] \in [1 .. Len(attempts[t]) -> RowStatus]
        BY <4>1 DEF RowStatus
      <4> QED BY <4>1, <4>2
    <3>3. attempts' \in [Trial -> Seq(RowStatus)]
      BY <2>2, <3>1, <3>2 DEF EvaluationOK
    <3>4. trial' \in [Trial -> TrialStatus]
      BY <2>2, <2>8, TerminateOK, LifecycleAssumption DEF Records, FinishRecords, t
    <3>5. calls' \in [Trial -> Nat]
      BY <2>2, <2>8, LifecycleAssumption DEF Records, FinishRecords, EvaluationOK, t
    <3> QED BY <2>8, <3>3, <3>4, <3>5 DEF Records, FinishRecords, EvaluationOK
  <2>9. CASE Persist(w, s)
    <3>1. JobIn(w, s).kind \in Grading
      BY <2>1, <2>9, TaskParts, JobParts DEF Persist
    <3>2. grade' \in [Grading -> [Trial -> {"none", "pass", "error"}]]
      <4> DEFINE g == JobIn(w, s).kind
      <4>1. PICK verdict \in {"pass", "error"} :
               grade' = [grade EXCEPT ![g][t] = IF @ = "none" THEN verdict ELSE @]
        BY <2>9 DEF Persist, t
      <4>2. grade[g] \in [Trial -> {"none", "pass", "error"}]
        BY <3>1 DEF EvaluationOK
      <4>3. [grade[g] EXCEPT ![t] = IF @ = "none" THEN verdict ELSE @] \in [Trial -> {"none", "pass", "error"}]
        BY <2>2, <4>2
      <4> QED BY <3>1, <4>1, <4>3 DEF EvaluationOK
    <3> QED BY <2>9, <3>2, FinalizeOK DEF Persist, EvaluationOK, evidence
  <2>10. CASE AfterJob(w, s)
    <3>1. \A hs : CloseGradings(hs) => grading' \in [Grading -> {"none", "queued", "completed"}]
      BY DEF CloseGradings, EvaluationOK
    <3> QED BY <2>10, <3>1, FinalizeOK DEF AfterJob, EvaluationOK, evidence
  <2> QED BY <1>6, <2>3, <2>5, <2>6, <2>7, <2>8, <2>9, <2>10 DEF Evaluates
<1> QED BY <1>1, <1>2, <1>3, <1>4, <1>5, <1>6, NextOnEvaluation

(***************************************************************************)
(* The types of the table and the slots.                                   *)
(***************************************************************************)
LEMMA TableStep ==
  ASSUME TableOK(jobs), SlotsOK, [Next]_vars
  PROVE  TableOK(jobs)'
<1>1. CASE UNCHANGED vars
  BY <1>1 DEF vars, TableOK
<1>2. CASE CreateRun \/ CancelRun \/ Regrade
  BY <1>2, EnqueueTable, CancelTable DEF CreateRun, CancelRun, Regrade, TableOK
<1>3. ASSUME NEW j \in Job, LeaseExpires(j) \/ Stall(j) \/ BecomesReady(j)
      PROVE  TableOK(jobs)'
  <2> DEFINE expired == [jobs[j] EXCEPT !.lease = FALSE]
             ready == [jobs[j] EXCEPT !.ready = TRUE]
  <2>1. expired \in Row /\ ready \in Row
    BY DEF TableOK, Row
  <2>2. jobs' = [jobs EXCEPT ![j] = expired] \/ jobs' = [jobs EXCEPT ![j] = ready]
    BY <1>3 DEF LeaseExpires, Stall, BecomesReady, LeaseRunsOut, TableOK
  <2> HIDE DEF expired, ready
  <2> QED BY <2>1, <2>2 DEF TableOK
<1>4. ASSUME NEW w \in Worker, Recover(w) \/ ReconcileFailedJobs(w) \/ Crash(w)
      PROVE  TableOK(jobs)'
  BY <1>4, RecoverTable, EnqueueTable DEF Recover, ReconcileFailedJobs, Crash, TableOK
<1>5. ASSUME NEW w \in Worker, NEW s \in Slot, ClaimNext(w, s)
      PROVE  TableOK(jobs)'
  BY <1>5, ClaimTable DEF ClaimNext, Claimable, Admitted, Scanned, Ready, With, TableOK
<1>6. ASSUME NEW w \in Worker, NEW s \in Slot,
             TaskStep(w, s) \/ Raise(w, s) \/ OutcomeLost(w, s)
      PROVE  TableOK(jobs)'
  <2>1. slots[w][s] # Idle
    BY <1>6, PhaseBusy DEF TaskStep, Raise, OutcomeLost, Prepare, Finish, Load, Persist, Return, AfterJob, Yield
  <2>2. JobIn(w, s) \in Job
    BY <2>1, BusySlot
  <2>3. CASE Prepare(w, s)
    BY <2>3, EnqueueTable DEF Prepare, PrepareSettled, PrepareCancelled, PrepareRejected, PrepareDefers,
       PrepareBegins, Terminate, TableOK
  <2>4. CASE Finish(w, s)
    <3>1. JobIn(w, s) = TrialJob(JobIn(w, s).trial)
      BY <2>1, <2>4, TaskParts, JobParts, <2>2 DEF Finish
    <3> DEFINE t == JobIn(w, s).trial
    <3>2. TableOK(Fail(jobs, TrialJob(t), w, TRUE))
      BY <2>2, <3>1, FailTable
    <3>3. TableOK(Enqueue(jobs, {GradeJob("initial", t)}))
      BY EnqueueTable
    <3>4. \/ jobs' = jobs \/ jobs' = Fail(jobs, TrialJob(t), w, TRUE)
          \/ jobs' = Enqueue(jobs, {GradeJob("initial", t)})
      BY <2>4 DEF Finish, FinishTooLate, FinishRecords, FinishRaises, Terminate
    <3> QED BY <3>2, <3>3, <3>4 DEF TableOK
  <2>5. CASE Load(w, s) \/ Persist(w, s) \/ AfterJob(w, s) \/ OutcomeLost(w, s)
    BY <2>5 DEF Load, Persist, AfterJob, OutcomeLost, TableOK
  <2>6. CASE Return(w, s) \/ Yield(w, s) \/ Raise(w, s)
    <3>1. /\ TableOK(Complete(jobs, JobIn(w, s), w)) /\ TableOK(Defer(jobs, JobIn(w, s), w))
          /\ TableOK(Fail(jobs, JobIn(w, s), w, TRUE))
      BY <2>2, CompleteTable, DeferTable, FailTable
    <3>2. jobs' \in {Complete(jobs, JobIn(w, s), w), Defer(jobs, JobIn(w, s), w), Fail(jobs, JobIn(w, s), w, TRUE)}
      BY <2>6 DEF Return, Yield, Raise
    <3> QED BY <3>1, <3>2 DEF TableOK
  <2> QED BY <1>6, <2>3, <2>4, <2>5, <2>6 DEF TaskStep
<1> QED BY <1>1, <1>2, <1>3, <1>4, <1>5, <1>6 DEF Next

LEMMA SlotsStep ==
  ASSUME SlotsOK, EvaluationOK, [Next]_vars
  PROVE  SlotsOK'
<1>1. CASE UNCHANGED slots
  BY <1>1 DEF SlotsOK
<1>2. ASSUME NEW w \in Worker, Crash(w) PROVE SlotsOK'
  BY <1>2 DEF Crash, SlotsOK
<1>3. ASSUME NEW w \in Worker, NEW s \in Slot, ClaimNext(w, s) PROVE SlotsOK'
  <2>1. PICK j \in Claimable(jobs) : slots' = [slots EXCEPT ![w][s] =
          [phase |-> IF j \in TrialJobs THEN "prepare" ELSE "load", job |-> j]]
    BY <1>3 DEF ClaimNext
  <2>2. j \in Job
    BY DEF Claimable, Admitted, Scanned, Ready, With
  <2>3. [phase |-> IF j \in TrialJobs THEN "prepare" ELSE "load", job |-> j] \in Task
    BY <2>2 DEF Task
  <2> QED BY <2>1, <2>3, PutSlot
<1>4. ASSUME NEW w \in Worker, NEW s \in Slot, TaskStep(w, s) \/ Raise(w, s) \/ OutcomeLost(w, s)
      PROVE  SlotsOK'
  <2>1. slots[w][s] # Idle
    BY <1>4, PhaseBusy DEF TaskStep, Raise, OutcomeLost, Prepare, Finish, Load, Persist, Return, AfterJob, Yield
  <2>2. JobIn(w, s) \in Job /\ JobIn(w, s).trial \in Trial
    BY <2>1, BusySlot, JobParts
  <2>3. CASE Prepare(w, s) /\ ~Begins(w, s)
    BY <2>1, <2>3, GotoOK DEF Prepare, PrepareSettled, PrepareCancelled, PrepareRejected, PrepareDefers, Begins
  <2>4. CASE Begins(w, s)
    <3> DEFINE t == JobIn(w, s).trial
               x == [phase |-> "execute", job |-> TrialJob(t), attempt |-> Len(attempts[t]) + 1]
    <3>1. x \in Task
      BY <2>2 DEF Task, TrialJobs, EvaluationOK
    <3>2. slots' = [slots EXCEPT ![w][s] = x]
      BY <2>4 DEF Begins, PrepareBegins
    <3> QED BY <3>1, <3>2, PutSlot
  <2>5. CASE Finish(w, s)
    BY <2>1, <2>5, GotoOK, FreeOK DEF Finish, FinishTooLate, FinishRecords, FinishRaises
  <2>6. CASE Load(w, s)
    BY <2>1, <2>6, GotoOK, TaskParts DEF Load
  <2>7. CASE Persist(w, s) \/ Return(w, s)
    BY <2>1, <2>7, GotoOK, FreeOK DEF Persist, Return
  <2>8. CASE AfterJob(w, s) \/ Yield(w, s) \/ Raise(w, s) \/ OutcomeLost(w, s)
    BY <2>8, FreeOK DEF AfterJob, Yield, Raise, OutcomeLost
  <2> QED BY <1>4, <2>3, <2>4, <2>5, <2>6, <2>7, <2>8 DEF TaskStep
<1>5. [Next]_vars => \/ UNCHANGED slots
                     \/ \E w \in Worker : \/ Crash(w)
                                         \/ \E s \in Slot : ClaimNext(w, s) \/ TaskStep(w, s) \/ Raise(w, s) \/ OutcomeLost(w, s)
  BY DEF Next, vars, CreateRun, CancelRun, Regrade, LeaseExpires, Stall, BecomesReady, LeaseRunsOut,
     Recover, ReconcileFailedJobs
<1> QED BY <1>1, <1>2, <1>3, <1>4, <1>5

LEMMA FaultsStep ==
  ASSUME manifest \in Manifests, faults \subseteq May, [Next]_vars
  PROVE  (manifest \in Manifests /\ faults \subseteq May)'
<1>1. \A f : Fault(f) => (manifest \in Manifests /\ faults \subseteq May)'
  BY DEF Fault
<1>2. Calm \/ UNCHANGED vars => (manifest \in Manifests /\ faults \subseteq May)'
  BY DEF Calm, vars
<1>3. CreateRun \/ CancelRun \/ Regrade => Calm
  BY DEF CreateRun, CancelRun, Regrade
<1>4. \A j \in Job : LeaseExpires(j) \/ Stall(j) \/ BecomesReady(j) => Calm \/ Fault("stall")
  BY DEF LeaseExpires, Stall, BecomesReady
<1>5. \A w \in Worker : Recover(w) \/ ReconcileFailedJobs(w) \/ Crash(w) => Calm \/ Fault("crash")
  BY DEF Recover, ReconcileFailedJobs, Crash
<1>6. \A w \in Worker, s \in Slot : ClaimNext(w, s) \/ TaskStep(w, s) => Calm
  BY DEF ClaimNext, TaskStep, Prepare, Finish, Load, Persist, Return, AfterJob, Yield
<1>7. \A w \in Worker, s \in Slot : Raise(w, s) \/ OutcomeLost(w, s) => \E f : Fault(f)
  BY DEF Raise, OutcomeLost
<1> QED BY <1>1, <1>2, <1>3, <1>4, <1>5, <1>6, <1>7 DEF Next

LEMMA TypeParts == TypeOK <=> /\ TableOK(jobs) /\ SlotsOK /\ EvaluationOK
                              /\ manifest \in Manifests /\ faults \subseteq May
  BY DEF TypeOK, TableOK, SlotsOK, EvaluationOK, RowStatus

LEMMA TypeStep == ASSUME TypeOK, [Next]_vars PROVE TypeOK'
<1>1. /\ TableOK(jobs) /\ SlotsOK /\ EvaluationOK
      /\ manifest \in Manifests /\ faults \subseteq May
  BY TypeParts
<1>2. TableOK(jobs)' /\ SlotsOK' /\ EvaluationOK' /\ (manifest \in Manifests /\ faults \subseteq May)'
  BY <1>1, TableStep, SlotsStep, EvaluationStep, FaultsStep
<1> QED BY <1>2 DEF TypeOK, TableOK, SlotsOK, EvaluationOK, RowStatus

LEMMA TypeInit == Init => TypeOK
  BY DEF Init, TypeOK, AbsentRow, Row, RunStatus, TrialStatus, Grading

(* Whatever the workers, the API and the faults do, every row, task, trial, *)
(* attempt and grade keeps its type.                                       *)
THEOREM TypeCorrect == Spec => []TypeOK
BY TypeInit, TypeStep, PTL DEF Spec

(***************************************************************************)
(* The run implements EvaluationRun.  Three facts about the promise itself *)
(* carry the proof, and one about the run that is not there yet: nothing   *)
(* else exists before it.                                                  *)
(***************************************************************************)
NothingYet ==
  run.status = "absent" =>
    /\ jobs = [j \in Job |-> AbsentRow]
    /\ \A w \in Worker, s \in Slot : slots[w][s] = Idle

PromiseInv ==
  /\ run.status \in RunTerminal => OpenTrials(trial) = {}
  /\ run.status \in {"absent", "queued"} => \A t \in Trial : trial[t] # "running"
  /\ run.cancel <=> run.status \in {"cancelling", "cancelled"}

SettledStatus == Promise!Settled

LEMMA SameStatuses == SettledStatus = TrialTerminal /\ Promise!Finished = RunTerminal /\ Promise!Problem = ProblemStatuses
  BY DEF SettledStatus, Promise!Settled, Promise!Problem, Promise!Finished, TrialTerminal, ProblemStatuses, RunTerminal

LEMMA SettledNotOpen ==
  ASSUME trial \in [Trial -> TrialStatus]
  PROVE  \A t \in Trial : t \in OpenTrials(trial) <=> trial[t] \notin TrialTerminal
  BY DEF OpenTrials, TrialStatus, TrialTerminal, ProblemStatuses

LEMMA PromiseKeepsInv ==
  ASSUME EvaluationOK, EvaluationOK', PromiseInv, Promise!Next
  PROVE  PromiseInv'
<1>1. CASE Promise!Create
  BY <1>1 DEF Promise!Create, PromiseInv, OpenTrials, RunTerminal
<1>2. CASE Promise!Finish
  <2>1. OpenTrials(trial') = {}
    BY <1>2 DEF Promise!Finish, OpenTrials, Promise!Settled, Promise!Problem
  <2> QED BY <1>2, <2>1 DEF Promise!Finish, Promise!Live, Promise!Finished, Promise!Verdict, PromiseInv
<1>3. CASE Promise!RequestCancel
  BY <1>3 DEF Promise!RequestCancel, Promise!Live, Promise!Settled, Promise!Problem, PromiseInv, OpenTrials, RunTerminal
<1>4. ASSUME NEW t \in Trial, Promise!Begin(t) PROVE PromiseInv'
  BY <1>4 DEF Promise!Begin, Promise!Live, Promise!Finished, PromiseInv, RunTerminal
<1>5. ASSUME NEW S \in SUBSET Trial, Promise!Settle(S) PROVE PromiseInv'
  <2>1. \A t \in Trial : trial'[t] = trial[t] \/ trial'[t] \in TrialTerminal
    BY <1>5, SameStatuses DEF Promise!Settle, SettledStatus
  <2>2. run.status' = run.status /\ run.cancel' = run.cancel /\ run.status \notin RunTerminal
    BY <1>5, SameStatuses DEF Promise!Settle, Promise!Live
  <2> QED BY <2>1, <2>2 DEF PromiseInv, TrialTerminal, ProblemStatuses
<1> QED BY <1>1, <1>2, <1>3, <1>4, <1>5 DEF Promise!Next

(* A transaction that settles a trial enqueues its grade job, so the check *)
(* at its end leaves the run alone.                                        *)
LEMMA NotDueYet ==
  ASSUME NEW S \in SUBSET Trial, S # {}, NEW gs, NEW r,
         jobs' = Enqueue(jobs, {GradeJob("initial", t) : t \in S}), Finalize(gs, r)
  PROVE  run' = r
<1>1. PICK t \in S : GradeJob("initial", t) \in RunJobs
  BY DEF RunJobs, GradeJobs
<1>2. GradeJob("initial", t) \in Open(jobs')
  BY <1>1 DEF Open, With, Enqueue, AbsentRow, Job
<1> QED BY <1>1, <1>2 DEF Finalize, RunDue

LEMMA SettleStep ==
  ASSUME EvaluationOK, PromiseInv, run.status # "absent", NEW S \in SUBSET OpenTrials(trial), S # {},
         NEW result, \A t \in S : result[t] \in TrialTerminal,
         trial' = [t \in Trial |-> IF t \in S THEN result[t] ELSE trial[t]], run' = run
  PROVE  Promise!Next
<1>1. Promise!Live
  BY SameStatuses DEF Promise!Live, PromiseInv
<1>2. \A t \in S : trial[t] \notin Promise!Settled
  BY SameStatuses, SettledNotOpen DEF SettledStatus, EvaluationOK, OpenTrials
<1>3. [t \in S |-> result[t]] \in [S -> Promise!Settled]
  BY SameStatuses DEF SettledStatus
<1>4. trial' = [t \in Trial |-> IF t \in S THEN [u \in S |-> result[u]][t] ELSE trial[t]]
  OBVIOUS
<1>5. S \in SUBSET Trial
  BY DEF OpenTrials
<1> QED BY <1>1, <1>2, <1>3, <1>4, <1>5 DEF Promise!Next, Promise!Settle

LEMMA TerminateStep ==
  ASSUME EvaluationOK, PromiseInv, run.status # "absent", NEW t \in Trial, trial[t] \notin TrialTerminal,
         NEW status \in TrialTerminal, Terminate(t, status), run' = run
  PROVE  Promise!Next
<1>1. t \in OpenTrials(trial)
  BY SettledNotOpen DEF EvaluationOK
<1> DEFINE result == [v \in {t} |-> status]
<1>2. trial' = [u \in Trial |-> IF u \in {t} THEN result[u] ELSE trial[u]]
  BY DEF Terminate, EvaluationOK
<1>3. \A u \in {t} : result[u] \in TrialTerminal
  OBVIOUS
<1>4. {t} \in SUBSET OpenTrials(trial) /\ {t} # {}
  BY <1>1
<1> HIDE DEF result
<1> QED BY <1>2, <1>3, <1>4, SettleStep

LEMMA TerminatedNotDue ==
  ASSUME NEW t \in Trial, NEW status, Terminate(t, status), NEW gs, NEW r, Finalize(gs, r)
  PROVE  run' = r
<1>1. {GradeJob("initial", u) : u \in {t}} = {GradeJob("initial", t)}
  OBVIOUS
<1> QED BY <1>1, NotDueYet DEF Terminate

LEMMA FinishStep ==
  ASSUME EvaluationOK, run.status # "absent", trial' = trial, NEW gs, Finalize(gs, run)
  PROVE  Promise!Finish \/ run' = run
<1>1. SUFFICES ASSUME RunDue(run) PROVE Promise!Finish
  BY DEF Finalize
<1>2. run' = [run EXCEPT !.status = FinalStatus(run)]
  BY <1>1 DEF Finalize
<1>3. \A t \in Trial : trial[t] \in Promise!Settled
  BY <1>1, SameStatuses, SettledNotOpen DEF RunDue, SettledStatus, EvaluationOK
<1>4. FinalStatus(run) \in Promise!Verdict(trial, run.cancel)
  BY SameStatuses DEF FinalStatus, Promise!Verdict
<1>5. Promise!Live
  BY <1>1, SameStatuses DEF RunDue, Promise!Live
<1>6. run.status' = FinalStatus(run) /\ run.cancel' = run.cancel
  BY <1>2 DEF EvaluationOK
<1> QED BY <1>3, <1>4, <1>5, <1>6 DEF Promise!Finish

LEMMA NotAbsent ==
  ASSUME NothingYet, NEW w \in Worker, NEW s \in Slot, slots[w][s] # Idle
  PROVE  run.status # "absent"
  BY DEF NothingYet

LEMMA PromiseStep ==
  ASSUME TypeOK, NothingYet, PromiseInv, [Next]_vars
  PROVE  Promise!Next \/ UNCHANGED <<run, trial>>
<1>0. EvaluationOK /\ SlotsOK
  BY TypeParts
<1>1. CASE UNCHANGED evaluation
  BY <1>1 DEF evaluation
<1>2. CASE CreateRun
  <2>1. run.status' = "queued" /\ run.cancel' = run.cancel /\ trial' = trial
    BY <1>0, <1>2 DEF CreateRun, EvaluationOK
  <2> QED BY <1>2, <2>1 DEF CreateRun, Promise!Create, Promise!Next
<1>3. CASE CancelRun
  <2> DEFINE r == [status |-> "cancelling", cancel |-> TRUE]
  <2>1. Finalize({}, r) /\ trial' = [t \in Trial |-> IF trial[t] = "pending" THEN "cancelled" ELSE trial[t]]
    BY <1>3 DEF CancelRun
  <2>2. Promise!Live
    BY <1>3, SameStatuses DEF CancelRun, Promise!Live
  <2>3. CASE RunDue(r)
    <3>1. run' = [r EXCEPT !.status = "cancelled"]
      BY <2>1, <2>3 DEF Finalize, FinalStatus
    <3>2. \A t \in Trial : trial'[t] \in Promise!Settled
      BY <1>0, <2>1, <2>3, SameStatuses
         DEF RunDue, OpenTrials, SettledStatus, EvaluationOK, TrialStatus, TrialTerminal
    <3> QED BY <2>1, <2>2, <3>1, <3>2 DEF Promise!RequestCancel, Promise!Next
  <2>4. CASE ~RunDue(r)
    BY <2>1, <2>2, <2>4 DEF Finalize, Promise!RequestCancel, Promise!Next
  <2> QED BY <2>3, <2>4
<1>4. CASE Regrade
  BY <1>4 DEF Regrade
<1>5. ASSUME NEW w \in Worker, ReconcileFailedJobs(w) PROVE Promise!Next \/ UNCHANGED <<run, trial>>
  <2> DEFINE failed == With(jobs, "failed") \ reconciled
             closed == {t \in OpenTrials(trial) : TrialJob(t) \in failed}
             result == [t \in closed |-> "provider_error"]
  <2>1. /\ trial' = [t \in Trial |-> IF t \in closed THEN "provider_error" ELSE trial[t]]
        /\ jobs' = Enqueue(jobs, {GradeJob("initial", t) : t \in closed})
        /\ Finalize({}, run) \/ (closed = {} /\ run' = run)
        /\ failed # {}
    BY <1>5 DEF ReconcileFailedJobs
  <2>2. run.status # "absent"
    BY <2>1 DEF NothingYet, With, AbsentRow
  <2>3. closed \in SUBSET OpenTrials(trial) /\ closed \in SUBSET Trial
    BY DEF OpenTrials
  <2>4. CASE closed = {}
    <3>1. trial' = trial
      BY <1>0, <2>1, <2>4 DEF EvaluationOK
    <3> QED BY <1>0, <2>1, <2>2, <3>1, FinishStep DEF Promise!Next
  <2>5. CASE closed # {}
    <3> HIDE DEF closed
    <3>1. run' = run
      BY <2>1, <2>3, <2>5, NotDueYet
    <3>2. trial' = [t \in Trial |-> IF t \in closed THEN result[t] ELSE trial[t]]
      BY <2>1
    <3>3. \A t \in closed : result[t] \in TrialTerminal
      BY DEF TrialTerminal, ProblemStatuses
    <3> HIDE DEF result
    <3> QED BY <1>0, <2>2, <2>3, <2>5, <3>1, <3>2, <3>3, SettleStep
  <2> QED BY <2>4, <2>5
<1>6. ASSUME NEW w \in Worker, NEW s \in Slot, Evaluates(w, s) PROVE Promise!Next \/ UNCHANGED <<run, trial>>
  <2> DEFINE t == JobIn(w, s).trial
  <2>1. slots[w][s] # Idle
    BY <1>6, PhaseBusy DEF Evaluates, Cancelled, Rejected, Defers, Begins, Records, Persist, AfterJob
  <2>2. JobIn(w, s) \in Job /\ t \in Trial /\ run.status # "absent"
    BY <1>0, <2>1, BusySlot, JobParts, NotAbsent
  <2> HIDE DEF t
  <2>3. CASE Cancelled(w, s)
    <3>1. "cancelled" \in TrialTerminal
      BY DEF TrialTerminal
    <3>2. Terminate(t, "cancelled") /\ Finalize({}, run) /\ trial[t] \notin TrialTerminal
      BY <2>3 DEF Cancelled, PrepareCancelled, t
    <3> QED BY <1>0, <2>2, <3>1, <3>2, TerminateStep, TerminatedNotDue
  <2>4. CASE Rejected(w, s)
    <3>1. "indeterminate" \in TrialTerminal /\ "skipped" \in TrialTerminal
      BY DEF TrialTerminal, ProblemStatuses
    <3>2. /\ Terminate(t, "indeterminate") \/ Terminate(t, "skipped")
          /\ Finalize({}, run) /\ trial[t] \notin TrialTerminal
      BY <2>4 DEF Rejected, PrepareRejected, t
    <3> QED BY <1>0, <2>2, <3>1, <3>2, TerminateStep, TerminatedNotDue
  <2>5. CASE Defers(w, s)
    BY <2>5 DEF Defers, PrepareDefers
  <2>6. CASE Begins(w, s)
    <3>1. /\ trial[t] \notin TrialTerminal /\ ~Cancelling
          /\ run' = IF run.status = "queued" THEN [run EXCEPT !.status = "running"] ELSE run
          /\ trial' = [trial EXCEPT ![t] = "running"]
      BY <2>6 DEF Begins, PrepareBegins, t
    <3>2. t \in OpenTrials(trial)
      BY <1>0, <2>2, <3>1, SettledNotOpen DEF EvaluationOK
    <3>3. run.status \in {"queued", "running"} /\ ~run.cancel
      BY <1>0, <2>2, <3>1, <3>2 DEF PromiseInv, Cancelling, EvaluationOK, RunStatus
    <3>4. run.status' = "running" /\ run.cancel' = run.cancel
      BY <1>0, <3>1, <3>3 DEF EvaluationOK
    <3>5. CASE trial[t] = "pending"
      BY <2>2, <3>1, <3>3, <3>4, <3>5 DEF Promise!Begin, Promise!Live, Promise!Finished, Promise!Next
    <3>6. CASE trial[t] = "running"
      BY <1>0, <2>2, <3>1, <3>3, <3>6 DEF PromiseInv, EvaluationOK
    <3> QED BY <3>2, <3>5, <3>6 DEF OpenTrials
  <2>7. CASE Records(w, s)
    <3>1. PICK status \in Outcomes : Terminate(t, status)
      BY <2>7 DEF Records, FinishRecords, t
    <3>2. trial[t] \notin TrialTerminal /\ run' = run /\ status \in TrialTerminal
      BY <2>7, LifecycleAssumption DEF Records, FinishRecords, t
    <3> QED BY <1>0, <2>2, <3>1, <3>2, TerminateStep
  <2>8. CASE Persist(w, s) \/ AfterJob(w, s)
    <3>1. trial' = trial /\ (run' = run \/ \E gs : Finalize(gs, run))
      BY <2>8 DEF Persist, AfterJob
    <3> QED BY <1>0, <2>2, <3>1, FinishStep DEF Promise!Next
  <2> QED BY <1>6, <2>3, <2>4, <2>5, <2>6, <2>7, <2>8 DEF Evaluates
<1> QED BY <1>1, <1>2, <1>3, <1>4, <1>5, <1>6, NextOnEvaluation

LEMMA NothingYetStep ==
  ASSUME TypeOK, NothingYet, PromiseInv, [Next]_vars
  PROVE  NothingYet'
<1>1. CASE run.status # "absent"
  <2>1. Promise!Next => run.status' # "absent"
    BY <1>1 DEF Promise!Next, Promise!Create, Promise!Finish, Promise!Verdict, Promise!RequestCancel,
       Promise!Begin, Promise!Settle
  <2> QED BY <1>1, <2>1, PromiseStep DEF NothingYet
<1>2. CASE run.status = "absent"
  <2>0. /\ jobs = [j \in Job |-> AbsentRow] /\ \A w \in Worker, s \in Slot : slots[w][s] = Idle
        /\ SlotsOK
    BY <1>2, TypeParts DEF NothingYet
  <2>1. \A x : With(jobs, x) # {} => x = "absent"
    BY <2>0 DEF With, AbsentRow
  <2>2. CASE CreateRun
    BY <2>2, TypeParts DEF CreateRun, NothingYet, EvaluationOK
  <2>3. ASSUME NEW w \in Worker, Recover(w) PROVE UNCHANGED <<jobs, slots>>
    <3>1. Expired(jobs) = {}
      BY <2>1 DEF Expired
    <3>2. RecoverExpired(jobs) = [j \in Job |-> jobs[j]]
      BY <3>1 DEF RecoverExpired
    <3> QED BY <2>0, <2>3, <3>2 DEF Recover
  <2>4. \A w \in Worker : ~ReconcileFailedJobs(w) /\ ~Crash(w)
    BY <2>0, <2>1 DEF ReconcileFailedJobs, Crash
  <2>5. \A j \in Job : ~LeaseExpires(j) /\ ~Stall(j) /\ ~BecomesReady(j)
    BY <2>0 DEF LeaseExpires, Stall, BecomesReady, LeaseRunsOut, AbsentRow
  <2>6. ASSUME NEW w \in Worker, NEW s \in Slot
        PROVE  ~ClaimNext(w, s) /\ ~TaskStep(w, s) /\ ~Raise(w, s) /\ ~OutcomeLost(w, s)
    <3>1. ~ClaimNext(w, s)
      BY <2>1 DEF ClaimNext, Claimable, Admitted, Scanned, Ready
    <3>2. \A p : p # "idle" => ~At(w, s, p)
      BY <2>0 DEF At, Idle
    <3>3. ~TaskStep(w, s)
      BY <3>2 DEF TaskStep, Prepare, Finish, Load, Persist, Return, AfterJob, Yield
    <3> QED BY <2>0, <3>1, <3>3 DEF Raise, OutcomeLost
  <2>7. ~CancelRun /\ ~Regrade
    BY <1>2 DEF CancelRun, Regrade
  <2>8. UNCHANGED <<jobs, slots>> => NothingYet'
    BY <2>0 DEF NothingYet
  <2>9. UNCHANGED vars => UNCHANGED <<jobs, slots>>
    BY DEF vars
  <2> QED BY <2>2, <2>3, <2>4, <2>5, <2>6, <2>7, <2>8, <2>9 DEF Next
<1> QED BY <1>1, <1>2

RunInv == TypeOK /\ NothingYet /\ PromiseInv

LEMMA RunInvInit == Init => RunInv /\ Promise!Init
  BY TypeInit DEF Init, RunInv, NothingYet, PromiseInv, OpenTrials, RunTerminal, Promise!Init

LEMMA RunInvStep == ASSUME RunInv, [Next]_vars PROVE RunInv' /\ [Promise!Next]_(Promise!vars)
<1>1. TypeOK' /\ NothingYet'
  BY TypeStep, NothingYetStep DEF RunInv
<1>2. EvaluationOK /\ EvaluationOK'
  BY <1>1, TypeParts DEF RunInv, TypeOK, EvaluationOK, RowStatus
<1>3. Promise!Next \/ UNCHANGED <<run, trial>>
  BY PromiseStep DEF RunInv
<1>4. PromiseInv'
  BY <1>2, <1>3, PromiseKeepsInv DEF RunInv, PromiseInv
<1> QED BY <1>1, <1>3, <1>4 DEF RunInv, Promise!vars

LEMMA RunInvHolds == Spec => []RunInv
BY RunInvInit, RunInvStep, PTL DEF Spec

(* Under every interleaving of workers, cancellations, regrades, crashes,  *)
(* lost leases and failed transactions, the run keeps what it promises its *)
(* user: finalize.py, runs.py and trial_runner.py implement EvaluationRun. *)
THEOREM KeepsThePromise == Spec => KeepsRunPromise
BY RunInvInit, RunInvStep, PTL DEF Spec, KeepsRunPromise, Promise!Spec

(***************************************************************************)
(* Evidence.                                                               *)
(***************************************************************************)

(* The rows of one trial from a step to the next: nothing that is not      *)
(* running changes.                                                        *)
KeepsRows(old, new) ==
  \A n \in DOMAIN old : old[n] # "running" => n \in DOMAIN new /\ new[n] = old[n]

LEMMA InterruptedKeeps ==
  ASSUME NEW rows \in Seq(RowStatus)
  PROVE  KeepsRows(rows, Interrupted(rows)) /\ KeepsRows(rows, Append(Interrupted(rows), "running"))
<1>1. KeepsRows(rows, Interrupted(rows))
  BY InterruptedOK DEF KeepsRows
<1>2. ASSUME NEW n \in 1 .. Len(rows)
      PROVE  /\ n \in DOMAIN Append(Interrupted(rows), "running")
             /\ Append(Interrupted(rows), "running")[n] = Interrupted(rows)[n]
  BY InterruptedOK
<1> QED BY <1>1, <1>2, InterruptedOK DEF KeepsRows

LEMMA RowsStep ==
  ASSUME TypeOK, [Next]_vars, NEW t \in Trial
  PROVE  KeepsRows(attempts[t], attempts'[t])
<1>0. EvaluationOK /\ SlotsOK /\ attempts[t] \in Seq(RowStatus)
  BY TypeParts DEF EvaluationOK
<1>1. attempts' = attempts => KeepsRows(attempts[t], attempts'[t])
  BY DEF KeepsRows
<1>2. UNCHANGED evaluation \/ CreateRun \/ CancelRun \/ Regrade => attempts' = attempts
  BY DEF evaluation, evidence, CreateRun, CancelRun, Regrade
<1>3. ASSUME NEW w \in Worker, ReconcileFailedJobs(w) PROVE KeepsRows(attempts[t], attempts'[t])
  <2>1. attempts'[t] = Interrupted(attempts[t]) \/ attempts'[t] = attempts[t]
    BY <1>3 DEF ReconcileFailedJobs
  <2> QED BY <1>0, <2>1, InterruptedKeeps DEF KeepsRows
<1>4. ASSUME NEW w \in Worker, NEW s \in Slot, Evaluates(w, s)
      PROVE  KeepsRows(attempts[t], attempts'[t])
  <2> DEFINE u == JobIn(w, s).trial
             n == slots[w][s].attempt
  <2>1. CASE Cancelled(w, s) \/ Persist(w, s) \/ AfterJob(w, s)
    BY <1>1, <2>1 DEF Cancelled, PrepareCancelled, Persist, AfterJob, evidence
  <2>2. CASE Rejected(w, s) \/ Defers(w, s)
    <3>1. attempts' = [attempts EXCEPT ![u] = Interrupted(@)]
      BY <2>2 DEF Rejected, Defers, PrepareRejected, PrepareDefers, MarkInterrupted
    <3>2. attempts'[t] = Interrupted(attempts[t]) \/ attempts'[t] = attempts[t]
      BY <1>0, <3>1 DEF EvaluationOK
    <3> QED BY <1>0, <3>2, InterruptedKeeps DEF KeepsRows
  <2>3. CASE Begins(w, s)
    <3>1. attempts' = [attempts EXCEPT ![u] = Append(Interrupted(@), "running")]
      BY <2>3 DEF Begins, PrepareBegins
    <3>2. attempts'[t] = Append(Interrupted(attempts[t]), "running") \/ attempts'[t] = attempts[t]
      BY <1>0, <3>1 DEF EvaluationOK
    <3> QED BY <1>0, <3>2, InterruptedKeeps DEF KeepsRows
  <2>4. CASE Records(w, s)
    <3>1. attempts' = [attempts EXCEPT ![u] = [@ EXCEPT ![n] = "finished"]] /\ attempts[u][n] = "running"
      BY <2>4 DEF Records, FinishRecords
    <3>2. \/ t = u /\ attempts'[t] = [attempts[t] EXCEPT ![n] = "finished"]
          \/ attempts'[t] = attempts[t]
      BY <1>0, <3>1 DEF EvaluationOK
    <3> QED BY <1>0, <3>1, <3>2 DEF KeepsRows
  <2> QED BY <1>4, <2>1, <2>2, <2>3, <2>4 DEF Evaluates
<1> QED BY <1>1, <1>2, <1>3, <1>4, NextOnEvaluation

LEMMA GradesStep ==
  ASSUME TypeOK, [Next]_vars, NEW t \in Trial, NEW g \in Grading, grade[g][t] # "none"
  PROVE  grade'[g][t] = grade[g][t]
<1>0. EvaluationOK /\ SlotsOK
  BY TypeParts
<1>1. ASSUME NEW w \in Worker, NEW s \in Slot, Persist(w, s) PROVE grade'[g][t] = grade[g][t]
  <2> DEFINE h == JobIn(w, s).kind
             u == JobIn(w, s).trial
  <2>1. PICK verdict \in {"pass", "error"} :
          grade' = [grade EXCEPT ![h][u] = IF @ = "none" THEN verdict ELSE @]
    BY <1>1 DEF Persist
  <2>2. grade[g] \in [Trial -> {"none", "pass", "error"}] /\ grade \in [Grading -> [Trial -> {"none", "pass", "error"}]]
    BY <1>0 DEF EvaluationOK
  <2>3. h # g => grade'[g] = grade[g]
    BY <2>1, <2>2
  <2>4. h = g => grade'[g] = [grade[g] EXCEPT ![u] = IF @ = "none" THEN verdict ELSE @]
    BY <2>1, <2>2
  <2> HIDE DEF h, u
  <2>5. h = g => grade'[g][t] = grade[g][t]
    BY <2>2, <2>4
  <2> QED BY <2>3, <2>5
<1>2. ASSUME NEW w \in Worker, NEW s \in Slot, Evaluates(w, s) PROVE grade' = grade \/ Persist(w, s)
  BY <1>2 DEF Evaluates, Cancelled, Rejected, Defers, Begins, Records, AfterJob, PrepareCancelled, PrepareRejected,
     PrepareDefers, PrepareBegins, FinishRecords
<1> QED BY <1>1, <1>2, NextOnEvaluation DEF evaluation, CreateRun, CancelRun, Regrade, ReconcileFailedJobs

LEMMA TypeHolds == Spec => []TypeOK
BY TypeInit, TypeStep, PTL DEF Spec

(* No step of any handler, however stale, changes an attempt that is *)
(* recorded or interrupted, or a grade that is written.               *)
THEOREM EvidenceKept == Spec => EvidenceIsKept
<1> DEFINE Kept == \A t \in Trial :
             /\ \A n \in DOMAIN attempts[t] :
                  attempts[t][n] # "running" => n \in DOMAIN attempts'[t] /\ attempts'[t][n] = attempts[t][n]
             /\ \A g \in Grading : grade[g][t] # "none" => grade'[g][t] = grade[g][t]
<1>1. ASSUME TypeOK, [Next]_vars PROVE Kept
  BY <1>1, RowsStep, GradesStep DEF KeepsRows
<1>2. TypeOK /\ [Next]_vars => [Kept]_vars
  BY <1>1
<1> QED BY <1>2, TypeHolds, PTL DEF Spec, EvidenceIsKept

(***************************************************************************)
(* A settled trial never changes; this is a property of the promise.       *)
(***************************************************************************)
LEMMA SettledStays ==
  ASSUME RunInv, [Next]_vars, NEW t \in Trial, trial[t] \in TrialTerminal
  PROVE  trial'[t] = trial[t]
<1>1. trial \in [Trial -> TrialStatus]
  BY DEF RunInv, TypeOK
<1>2. trial[t] \notin {"pending", "running"} /\ trial[t] \in Promise!Settled
  BY SameStatuses DEF TrialTerminal, ProblemStatuses, SettledStatus
<1>3. Promise!Next => trial'[t] = trial[t]
  BY <1>1, <1>2 DEF Promise!Next, Promise!Create, Promise!Finish, Promise!RequestCancel, Promise!Begin, Promise!Settle
<1> QED BY <1>3, PromiseStep DEF RunInv

LEMMA OpenShrinks ==
  ASSUME RunInv, [Next]_vars
  PROVE  OpenTrials(trial') \subseteq OpenTrials(trial)
<1>1. trial \in [Trial -> TrialStatus]
  BY DEF RunInv, TypeOK
<1>2. ASSUME NEW t \in OpenTrials(trial') PROVE trial[t] \notin TrialTerminal
  BY <1>2, SettledStays DEF OpenTrials, TrialTerminal, ProblemStatuses
<1> QED BY <1>1, <1>2, SettledNotOpen DEF OpenTrials

(***************************************************************************)
(* The attempt rows of a trial fit its status.  Replay is barred when the  *)
(* trial is a memory episode and restarts are disabled; then an open trial *)
(* has no interrupted row, which is what keeps it to one attempt.          *)
(***************************************************************************)
Barred == manifest.stage = "episode" /\ ~manifest.restart
OneCounts(rows) ==
  \A n, m \in DOMAIN rows : rows[n] # "interrupted" /\ rows[m] # "interrupted" => n = m
Lacks(rows, x) == \A n \in DOMAIN rows : rows[n] # x

RowsFit(rows, status, barred) ==
  /\ OneCounts(rows)
  /\ status \notin TrialTerminal => Lacks(rows, "finished")
  /\ status = "success" => ~Lacks(rows, "finished")
  /\ status \in TrialTerminal \ {"cancelled"} => Lacks(rows, "running")
  /\ barred => Len(rows) <= 1
  /\ barred /\ status \notin TrialTerminal => Lacks(rows, "interrupted")

LEMMA FitInterrupted ==
  ASSUME NEW rows \in Seq(RowStatus), NEW status, NEW barred \in BOOLEAN, RowsFit(rows, status, barred),
         NEW next, next # "success", next = status \/ next \in TrialTerminal,
         next \notin TrialTerminal => ~(barred /\ ~Lacks(rows, "running"))
  PROVE  RowsFit(Interrupted(rows), next, barred)
<1>1. /\ DOMAIN Interrupted(rows) = DOMAIN rows /\ Len(Interrupted(rows)) = Len(rows)
      /\ \A n \in DOMAIN rows : Interrupted(rows)[n] = IF rows[n] = "running" THEN "interrupted" ELSE rows[n]
  BY InterruptedOK
<1>2. OneCounts(Interrupted(rows)) /\ Lacks(Interrupted(rows), "running")
  BY <1>1 DEF RowsFit, OneCounts, Lacks
<1>3. next \notin TrialTerminal => Lacks(Interrupted(rows), "finished")
  BY <1>1 DEF RowsFit, Lacks
<1>4. barred /\ next \notin TrialTerminal => Lacks(Interrupted(rows), "interrupted")
  BY <1>1 DEF RowsFit, Lacks
<1> QED BY <1>1, <1>2, <1>3, <1>4 DEF RowsFit

LEMMA FitBegun ==
  ASSUME NEW rows \in Seq(RowStatus), NEW status, status \notin TrialTerminal,
         NEW barred \in BOOLEAN, RowsFit(rows, status, barred), ~(barred /\ ~Lacks(rows, "running"))
  PROVE  RowsFit(Append(Interrupted(rows), "running"), "running", barred)
<1> DEFINE new == Append(Interrupted(rows), "running")
<1>1. /\ DOMAIN Interrupted(rows) = 1 .. Len(rows) /\ Len(Interrupted(rows)) = Len(rows)
      /\ Interrupted(rows) \in Seq(RowStatus) /\ DOMAIN rows = 1 .. Len(rows) /\ Len(rows) \in Nat
      /\ \A n \in DOMAIN rows : Interrupted(rows)[n] = IF rows[n] = "running" THEN "interrupted" ELSE rows[n]
  BY InterruptedOK
<1>2. \A n \in 1 .. Len(rows) : Interrupted(rows)[n] = "interrupted"
  BY <1>1 DEF RowsFit, Lacks, RowStatus
<1>3. /\ DOMAIN new = 1 .. Len(rows) + 1 /\ Len(new) = Len(rows) + 1
      /\ new[Len(rows) + 1] = "running" /\ \A n \in 1 .. Len(rows) : new[n] = "interrupted"
  BY <1>1, <1>2
<1>4. OneCounts(new) /\ Lacks(new, "finished")
  BY <1>1, <1>3 DEF OneCounts, Lacks
<1>5. barred => Len(rows) = 0
  <2>1. SUFFICES ASSUME barred, Len(rows) # 0 PROVE FALSE
    OBVIOUS
  <2>2. 1 \in DOMAIN rows /\ rows[1] \in RowStatus
    BY <1>1, <2>1
  <2> QED BY <2>1, <2>2 DEF RowsFit, Lacks, RowStatus
<1>6. barred => Lacks(new, "interrupted")
  BY <1>3, <1>5 DEF Lacks
<1>7. "running" \notin TrialTerminal
  BY DEF TrialTerminal, ProblemStatuses
<1>8. barred => Len(new) <= 1
  BY <1>3, <1>5
<1> HIDE DEF new
<1>9. RowsFit(new, "running", barred)
  BY <1>4, <1>6, <1>7, <1>8 DEF RowsFit
<1> QED BY <1>9 DEF new

LEMMA FitRecorded ==
  ASSUME NEW rows \in Seq(RowStatus), NEW old, NEW barred \in BOOLEAN, RowsFit(rows, old, barred),
         NEW n \in DOMAIN rows, rows[n] = "running", NEW status \in TrialTerminal
  PROVE  RowsFit([rows EXCEPT ![n] = "finished"], status, barred)
<1> DEFINE new == [rows EXCEPT ![n] = "finished"]
<1>1. rows \in [1 .. Len(rows) -> RowStatus] /\ Len(rows) \in Nat
  OBVIOUS
<1>2. new \in [1 .. Len(rows) -> RowStatus]
  BY <1>1 DEF RowStatus
<1>3. Len(new) = Len(rows) /\ DOMAIN new = DOMAIN rows
  BY <1>1, <1>2
<1>4. OneCounts(new) /\ Lacks(new, "running") /\ ~Lacks(new, "finished")
  BY <1>1, <1>3 DEF RowsFit, OneCounts, Lacks
<1> HIDE DEF new
<1>5. RowsFit(new, status, barred)
  BY <1>3, <1>4 DEF RowsFit
<1> QED BY <1>5 DEF new

LEMMA FitCancelled ==
  ASSUME NEW rows, NEW old, NEW barred \in BOOLEAN, RowsFit(rows, old, barred)
  PROVE  RowsFit(rows, "cancelled", barred)
  BY DEF RowsFit, TrialTerminal

(* An executing task holds an attempt row that exists. *)
TasksHaveRows ==
  \A w \in Worker, s \in Slot :
    At(w, s, "execute") => slots[w][s].attempt \in DOMAIN attempts[JobIn(w, s).trial]

AttemptInv ==
  /\ \A t \in Trial : RowsFit(attempts[t], trial[t], Barred)
  /\ TasksHaveRows

LEMMA RowsFitStep ==
  ASSUME RunInv, AttemptInv, [Next]_vars, NEW t \in Trial
  PROVE  RowsFit(attempts'[t], trial'[t], Barred)
<1>0. /\ EvaluationOK /\ SlotsOK /\ attempts[t] \in Seq(RowStatus) /\ Barred \in BOOLEAN
      /\ RowsFit(attempts[t], trial[t], Barred)
  BY TypeParts, LifecycleAssumption DEF RunInv, EvaluationOK, Barred, AttemptInv
<1> HIDE DEF Barred
<1>1. CASE UNCHANGED evaluation \/ CreateRun \/ Regrade
  BY <1>0, <1>1 DEF evaluation, evidence, CreateRun, Regrade
<1>2. CASE CancelRun
  <2>1. attempts' = attempts /\ (trial'[t] = trial[t] \/ trial'[t] = "cancelled")
    BY <1>0, <1>2 DEF CancelRun, evidence
  <2> QED BY <1>0, <2>1, FitCancelled
<1>3. ASSUME NEW w \in Worker, ReconcileFailedJobs(w) PROVE RowsFit(attempts'[t], trial'[t], Barred)
  <2>1. \/ attempts'[t] = attempts[t] /\ trial'[t] = trial[t]
        \/ attempts'[t] = Interrupted(attempts[t]) /\ trial'[t] = "provider_error"
    BY <1>3 DEF ReconcileFailedJobs
  <2>2. "provider_error" \in TrialTerminal
    BY DEF TrialTerminal, ProblemStatuses
  <2> QED BY <1>0, <2>1, <2>2, FitInterrupted
<1>4. ASSUME NEW w \in Worker, NEW s \in Slot, Evaluates(w, s)
      PROVE  RowsFit(attempts'[t], trial'[t], Barred)
  <2> DEFINE u == JobIn(w, s).trial
             n == slots[w][s].attempt
  <2>1. CASE Persist(w, s) \/ AfterJob(w, s)
    BY <1>0, <2>1 DEF Persist, AfterJob, evidence
  <2>2. CASE Cancelled(w, s)
    <3>1. attempts' = attempts /\ trial' = [trial EXCEPT ![u] = "cancelled"]
      BY <2>2 DEF Cancelled, PrepareCancelled, Terminate, evidence
    <3>2. trial'[t] = trial[t] \/ trial'[t] = "cancelled"
      BY <1>0, <3>1 DEF EvaluationOK
    <3> QED BY <1>0, <3>1, <3>2, FitCancelled
  <2>3. CASE Rejected(w, s)
    <3>1. /\ attempts' = [attempts EXCEPT ![u] = Interrupted(@)]
          /\ \/ trial' = [trial EXCEPT ![u] = "indeterminate"]
             \/ trial' = [trial EXCEPT ![u] = "skipped"]
      BY <2>3 DEF Rejected, PrepareRejected, MarkInterrupted, Terminate
    <3>2. "indeterminate" \in TrialTerminal /\ "skipped" \in TrialTerminal
      BY DEF TrialTerminal, ProblemStatuses
    <3>3. \/ attempts'[t] = attempts[t] /\ trial'[t] = trial[t]
          \/ attempts'[t] = Interrupted(attempts[t]) /\ trial'[t] \in {"indeterminate", "skipped"}
      BY <1>0, <3>1 DEF EvaluationOK
    <3> QED BY <1>0, <3>2, <3>3, FitInterrupted
  <2>4. BarredFromReplay(u) <=> Barred /\ ~Lacks(attempts[u], "running")
    BY DEF BarredFromReplay, HasRunningAttempt, Barred, Lacks
  <2>5. CASE Defers(w, s)
    <3>1. /\ attempts' = [attempts EXCEPT ![u] = Interrupted(@)] /\ trial' = trial
          /\ ~BarredFromReplay(u) /\ trial[u] \notin TrialTerminal
      BY <2>5 DEF Defers, PrepareDefers, MarkInterrupted
    <3>2. \/ attempts'[t] = attempts[t]
          \/ attempts'[t] = Interrupted(attempts[t]) /\ t = u
      BY <1>0, <3>1 DEF EvaluationOK
    <3>3. trial[u] # "success"
      BY <3>1 DEF TrialTerminal
    <3> QED BY <1>0, <2>4, <3>1, <3>2, <3>3, FitInterrupted
  <2>6. CASE Begins(w, s)
    <3>1. /\ attempts' = [attempts EXCEPT ![u] = Append(Interrupted(@), "running")]
          /\ trial' = [trial EXCEPT ![u] = "running"]
          /\ ~BarredFromReplay(u) /\ trial[u] \notin TrialTerminal
      BY <2>6 DEF Begins, PrepareBegins
    <3>2. \/ attempts'[t] = attempts[t] /\ trial'[t] = trial[t]
          \/ attempts'[t] = Append(Interrupted(attempts[t]), "running") /\ trial'[t] = "running" /\ t = u
      BY <1>0, <3>1 DEF EvaluationOK
    <3> QED BY <1>0, <2>4, <3>1, <3>2, FitBegun
  <2>7. CASE Records(w, s)
    <3>1. PICK status \in Outcomes : trial' = [trial EXCEPT ![u] = status]
      BY <2>7 DEF Records, FinishRecords, Terminate
    <3>2. /\ attempts' = [attempts EXCEPT ![u] = [@ EXCEPT ![n] = "finished"]]
          /\ attempts[u][n] = "running" /\ At(w, s, "execute")
      BY <2>7 DEF Records, FinishRecords
    <3>3. n \in DOMAIN attempts[u] /\ status \in TrialTerminal
      BY <3>2, LifecycleAssumption DEF AttemptInv, TasksHaveRows
    <3> DEFINE recorded == [attempts[u] EXCEPT ![n] = "finished"]
    <3>4. t = u => RowsFit(recorded, status, Barred)
      BY <1>0, <3>2, <3>3, FitRecorded
    <3>5. attempts' = [attempts EXCEPT ![u] = recorded]
      BY <3>2
    <3> HIDE DEF recorded
    <3>6. \/ attempts'[t] = attempts[t] /\ trial'[t] = trial[t]
          \/ attempts'[t] = recorded /\ trial'[t] = status /\ t = u
      BY <1>0, <3>1, <3>5 DEF EvaluationOK
    <3> QED BY <1>0, <3>4, <3>6
  <2> QED BY <1>4, <2>1, <2>2, <2>3, <2>5, <2>6, <2>7 DEF Evaluates
<1> QED BY <1>1, <1>2, <1>3, <1>4, NextOnEvaluation

(* Rows are never removed, so a task keeps the one it holds. *)
LEMMA RowsStay ==
  ASSUME TypeOK, [Next]_vars, NEW t \in Trial
  PROVE  DOMAIN attempts[t] \subseteq DOMAIN attempts'[t]
<1>0. EvaluationOK /\ SlotsOK /\ attempts[t] \in Seq(RowStatus)
  BY TypeParts DEF EvaluationOK
<1>1. /\ DOMAIN Interrupted(attempts[t]) = DOMAIN attempts[t]
      /\ DOMAIN attempts[t] \subseteq DOMAIN Append(Interrupted(attempts[t]), "running")
  BY <1>0, InterruptedOK
<1>2. UNCHANGED evaluation \/ CreateRun \/ CancelRun \/ Regrade => attempts' = attempts
  BY DEF evaluation, evidence, CreateRun, CancelRun, Regrade
<1>3. ASSUME NEW w \in Worker, ReconcileFailedJobs(w)
      PROVE  attempts'[t] = Interrupted(attempts[t]) \/ attempts'[t] = attempts[t]
  BY <1>3 DEF ReconcileFailedJobs
<1>4. ASSUME NEW w \in Worker, NEW s \in Slot, Evaluates(w, s)
      PROVE  DOMAIN attempts[t] \subseteq DOMAIN attempts'[t]
  <2>1. CASE Cancelled(w, s) \/ Persist(w, s) \/ AfterJob(w, s)
    BY <2>1 DEF Cancelled, PrepareCancelled, Persist, AfterJob, evidence
  <2>2. CASE Rejected(w, s) \/ Defers(w, s)
    BY <1>0, <1>1, <2>2 DEF Rejected, Defers, PrepareRejected, PrepareDefers, MarkInterrupted, EvaluationOK
  <2>3. CASE Begins(w, s)
    BY <1>0, <1>1, <2>3 DEF Begins, PrepareBegins, EvaluationOK
  <2>4. CASE Records(w, s)
    BY <1>0, <2>4 DEF Records, FinishRecords, EvaluationOK
  <2> QED BY <1>4, <2>1, <2>2, <2>3, <2>4 DEF Evaluates
<1> QED BY <1>1, <1>2, <1>3, <1>4, NextOnEvaluation

(* What a slot holds after a step it held before, or it got by the step of *)
(* its own task.                                                           *)
LEMMA SlotMoves ==
  ASSUME SlotsOK, [Next]_vars, NEW w \in Worker, NEW s \in Slot
  PROVE  \/ slots'[w][s] = slots[w][s] \/ slots'[w][s] = Idle
         \/ ClaimNext(w, s) \/ TaskStep(w, s)
<1>1. UNCHANGED slots => slots'[w][s] = slots[w][s]
  OBVIOUS
<1>2. \A v \in Worker : Crash(v) => slots'[w][s] = slots[w][s] \/ slots'[w][s] = Idle
  BY DEF Crash, SlotsOK
<1>3. ASSUME NEW v \in Worker, NEW r \in Slot,
             ClaimNext(v, r) \/ TaskStep(v, r) \/ Raise(v, r) \/ OutcomeLost(v, r), ~(v = w /\ r = s)
      PROVE  slots'[w][s] = slots[w][s]
  <2>1. PICK x : slots' = [slots EXCEPT ![v][r] = x]
    <3>1. CASE ClaimNext(v, r)
      BY <3>1 DEF ClaimNext
    <3>2. CASE Prepare(v, r)
      BY <3>2 DEF Prepare, PrepareSettled, PrepareCancelled, PrepareRejected, PrepareDefers, PrepareBegins, Goto
    <3>3. CASE Finish(v, r) \/ Load(v, r) \/ Persist(v, r) \/ Return(v, r)
      BY <3>3 DEF Finish, FinishTooLate, FinishRecords, FinishRaises, Load, Persist, Return, Goto, Free
    <3>4. CASE AfterJob(v, r) \/ Yield(v, r) \/ Raise(v, r) \/ OutcomeLost(v, r)
      BY <3>4 DEF AfterJob, Yield, Raise, OutcomeLost, Free
    <3> QED BY <1>3, <3>1, <3>2, <3>3, <3>4 DEF TaskStep
  <2> QED BY <1>3, <2>1 DEF SlotsOK
<1>4. Raise(w, s) \/ OutcomeLost(w, s) => slots'[w][s] = Idle
  BY DEF Raise, OutcomeLost, Free, SlotsOK
<1>5. [Next]_vars => \/ UNCHANGED slots
                     \/ \E v \in Worker : \/ Crash(v)
                                         \/ \E r \in Slot : ClaimNext(v, r) \/ TaskStep(v, r) \/ Raise(v, r) \/ OutcomeLost(v, r)
  BY DEF Next, vars, CreateRun, CancelRun, Regrade, LeaseExpires, Stall, BecomesReady, LeaseRunsOut,
     Recover, ReconcileFailedJobs
<1> QED BY <1>1, <1>2, <1>3, <1>4, <1>5

(* Which phases a task's own step leads to.                                *)
LEMMA TaskMoves ==
  ASSUME SlotsOK, NEW w \in Worker, NEW s \in Slot, TaskStep(w, s)
  PROVE  /\ slots[w][s] # Idle
         /\ \/ slots'[w][s] = Idle
            \/ Begins(w, s)
            \/ /\ \E p \in {"yield", "return", "after", "grade"} : At(w, s, p)'
               /\ JobIn(w, s)' = JobIn(w, s)
               /\ At(w, s, "grade")' => At(w, s, "load") /\ ~PeerOpen(JobIn(w, s).trial)
               /\ At(w, s, "after")' => At(w, s, "return")
               /\ At(w, s, "return")' => ~At(w, s, "return")
<1>1. slots[w][s] # Idle
  BY PhaseBusy DEF TaskStep, Prepare, Finish, Load, Persist, Return, AfterJob, Yield
<1>2. \A p : Goto(w, s, p) => At(w, s, p)' /\ JobIn(w, s)' = JobIn(w, s)
  BY DEF Goto, SlotsOK, At, JobIn
<1>3. Free(w, s) => slots'[w][s] = Idle
  BY DEF Free, SlotsOK
<1>4. \A p, q : At(w, s, p)' /\ At(w, s, q)' => p = q
  BY DEF At
<1>5. \A p, q : At(w, s, p) /\ At(w, s, q) => p = q
  BY DEF At
<1>6. CASE Prepare(w, s)
  <2>1. Begins(w, s) \/ (At(w, s, "prepare") /\ (Goto(w, s, "return") \/ Goto(w, s, "yield")))
    BY <1>6 DEF Prepare, PrepareSettled, PrepareCancelled, PrepareRejected, PrepareDefers, Begins
  <2> QED BY <1>1, <1>2, <1>4, <1>5, <2>1
<1>7. CASE Finish(w, s)
  <2>1. At(w, s, "execute") /\ (Goto(w, s, "return") \/ Free(w, s))
    BY <1>7 DEF Finish, FinishTooLate, FinishRecords, FinishRaises
  <2> QED BY <1>1, <1>2, <1>3, <1>4, <1>5, <2>1
<1>8. CASE Load(w, s)
  <2>1. At(w, s, "load") /\ (Goto(w, s, "yield") \/ (Goto(w, s, "grade") /\ ~PeerOpen(JobIn(w, s).trial)))
    BY <1>8 DEF Load
  <2> QED BY <1>1, <1>2, <1>4, <1>5, <2>1
<1>9. CASE Persist(w, s)
  <2>1. At(w, s, "grade") /\ Goto(w, s, "return")
    BY <1>9 DEF Persist
  <2> QED BY <1>1, <1>2, <1>4, <1>5, <2>1
<1>10. CASE Return(w, s)
  <2>1. At(w, s, "return") /\ (Goto(w, s, "after") \/ Free(w, s))
    BY <1>10 DEF Return
  <2> QED BY <1>1, <1>2, <1>3, <1>4, <1>5, <2>1
<1>11. CASE AfterJob(w, s) \/ Yield(w, s)
  BY <1>1, <1>3, <1>11 DEF AfterJob, Yield
<1> QED BY <1>6, <1>7, <1>8, <1>9, <1>10, <1>11 DEF TaskStep

LEMMA ManifestStays == ASSUME [Next]_vars PROVE manifest' = manifest
<1>1. (\E f : Fault(f)) \/ Calm \/ UNCHANGED vars => manifest' = manifest
  BY DEF Fault, Calm, vars
<1>2. CreateRun \/ CancelRun \/ Regrade => Calm
  BY DEF CreateRun, CancelRun, Regrade
<1>3. \A j \in Job : LeaseExpires(j) \/ Stall(j) \/ BecomesReady(j) => Calm \/ \E f : Fault(f)
  BY DEF LeaseExpires, Stall, BecomesReady
<1>4. \A w \in Worker : Recover(w) \/ ReconcileFailedJobs(w) \/ Crash(w) => Calm \/ \E f : Fault(f)
  BY DEF Recover, ReconcileFailedJobs, Crash
<1>5. \A w \in Worker, s \in Slot : ClaimNext(w, s) \/ TaskStep(w, s) => Calm
  BY DEF ClaimNext, TaskStep, Prepare, Finish, Load, Persist, Return, AfterJob, Yield
<1>6. \A w \in Worker, s \in Slot : Raise(w, s) \/ OutcomeLost(w, s) => \E f : Fault(f)
  BY DEF Raise, OutcomeLost
<1> QED BY <1>1, <1>2, <1>3, <1>4, <1>5, <1>6 DEF Next

LEMMA ClaimedSlot ==
  ASSUME SlotsOK, NEW w \in Worker, NEW s \in Slot, ClaimNext(w, s)
  PROVE  At(w, s, "prepare")' \/ At(w, s, "load")'
<1>1. \E j \in Claimable(jobs) : slots' = [slots EXCEPT ![w][s] =
        [phase |-> IF j \in TrialJobs THEN "prepare" ELSE "load", job |-> j]]
  BY DEF ClaimNext
<1> QED BY <1>1 DEF SlotsOK, At

LEMMA TasksHaveRowsStep ==
  ASSUME TypeOK, TasksHaveRows, [Next]_vars
  PROVE  TasksHaveRows'
<1>0. SlotsOK /\ SlotsOK' /\ EvaluationOK
  BY TypeStep, TypeParts DEF TypeOK, SlotsOK
<1> SUFFICES ASSUME NEW w \in Worker, NEW s \in Slot, At(w, s, "execute")'
             PROVE  slots'[w][s].attempt \in DOMAIN attempts'[JobIn(w, s)'.trial]
  BY DEF TasksHaveRows
<1>1. CASE slots'[w][s] = slots[w][s]
  <2>1. At(w, s, "execute") /\ JobIn(w, s)' = JobIn(w, s) /\ slots'[w][s].attempt = slots[w][s].attempt
    BY <1>1 DEF At, JobIn
  <2>2. JobIn(w, s).trial \in Trial
    BY <1>0, <2>1, PhaseBusy, BusySlot, JobParts
  <2> QED BY <2>1, <2>2, RowsStay DEF TasksHaveRows
<1>2. CASE slots'[w][s] = Idle
  BY <1>2 DEF At, Idle
<1>3. CASE ClaimNext(w, s)
  BY <1>0, <1>3, ClaimedSlot DEF At
<1>4. CASE Begins(w, s)
  <2> DEFINE t == JobIn(w, s).trial
             x == [phase |-> "execute", job |-> TrialJob(t), attempt |-> Len(attempts[t]) + 1]
  <2>1. At(w, s, "prepare") /\ slots' = [slots EXCEPT ![w][s] = x]
        /\ attempts' = [attempts EXCEPT ![t] = Append(Interrupted(@), "running")]
    BY <1>4 DEF Begins, PrepareBegins
  <2>2. t \in Trial
    BY <1>0, <2>1, PhaseBusy, BusySlot, JobParts
  <2>3. slots'[w][s] = x
    BY <1>0, <2>1 DEF SlotsOK
  <2>4. JobIn(w, s)'.trial = t /\ slots'[w][s].attempt = Len(attempts[t]) + 1
    BY <2>3 DEF JobIn, TrialJob
  <2>5. attempts[t] \in Seq(RowStatus) /\ attempts'[t] = Append(Interrupted(attempts[t]), "running")
    BY <1>0, <2>1, <2>2 DEF EvaluationOK
  <2>6. Len(attempts[t]) + 1 \in DOMAIN attempts'[t]
    BY <2>5, InterruptedOK
  <2> HIDE DEF t
  <2> QED BY <2>4, <2>6
<1>5. CASE TaskStep(w, s) /\ ~Begins(w, s) /\ slots'[w][s] # Idle
  BY <1>0, <1>5, TaskMoves DEF At
<1> QED BY <1>0, <1>1, <1>2, <1>3, <1>4, <1>5, SlotMoves

LEMMA AttemptInvInit == Init => AttemptInv
<1> SUFFICES ASSUME Init PROVE AttemptInv
  OBVIOUS
<1>1. TasksHaveRows
  BY DEF Init, TasksHaveRows, At, Idle
<1>2. \A t \in Trial : RowsFit(attempts[t], trial[t], Barred)
  BY DEF Init, RowsFit, OneCounts, Lacks, TrialTerminal, ProblemStatuses
<1> QED BY <1>1, <1>2 DEF AttemptInv

LEMMA AttemptInvStep == ASSUME RunInv, AttemptInv, [Next]_vars PROVE AttemptInv'
<1>1. Barred' = Barred
  BY ManifestStays DEF Barred
<1>2. TasksHaveRows'
  BY TasksHaveRowsStep DEF RunInv, AttemptInv
<1> QED BY <1>1, <1>2, RowsFitStep DEF AttemptInv

LEMMA AtMostOne ==
  ASSUME NEW S, \A n, m \in S : n = m
  PROVE  IsFiniteSet(S) /\ Cardinality(S) <= 1
<1>1. CASE S = {}
  BY <1>1, FS_EmptySet
<1>2. ASSUME NEW n \in S PROVE IsFiniteSet(S) /\ Cardinality(S) <= 1
  <2>1. S = {n}
    BY <1>2
  <2>2. IsFiniteSet({n}) /\ Cardinality({n}) = 1
    BY FS_Singleton
  <2> QED BY <2>1, <2>2
<1> QED BY <1>1, <1>2

LEMMA AttemptInvImplies == RunInv /\ AttemptInv => AttemptsAreEvidence
<1> SUFFICES ASSUME RunInv, AttemptInv, NEW t \in Trial
             PROVE  /\ Cardinality({n \in DOMAIN attempts[t] : attempts[t][n] # "interrupted"}) <= 1
                    /\ trial[t] = "success" => \E n \in DOMAIN attempts[t] : attempts[t][n] = "finished"
                    /\ trial[t] \in TrialTerminal /\ HasRunningAttempt(t) => trial[t] = "cancelled"
                    /\ manifest.stage = "episode" /\ ~manifest.restart => Len(attempts[t]) <= 1
  BY DEF AttemptsAreEvidence
<1>1. RowsFit(attempts[t], trial[t], Barred)
  BY DEF AttemptInv
<1>2. Cardinality({n \in DOMAIN attempts[t] : attempts[t][n] # "interrupted"}) <= 1
  <2>1. \A n, m \in {k \in DOMAIN attempts[t] : attempts[t][k] # "interrupted"} : n = m
    BY <1>1 DEF RowsFit, OneCounts
  <2> QED BY <2>1, AtMostOne
<1>3. trial[t] = "success" => \E n \in DOMAIN attempts[t] : attempts[t][n] = "finished"
  BY <1>1 DEF RowsFit, Lacks
<1>4. trial[t] \in TrialTerminal /\ HasRunningAttempt(t) => trial[t] = "cancelled"
  BY <1>1 DEF RowsFit, Lacks, HasRunningAttempt
<1>5. manifest.stage = "episode" /\ ~manifest.restart => Len(attempts[t]) <= 1
  BY <1>1 DEF RowsFit, Barred
<1> QED BY <1>2, <1>3, <1>4, <1>5

(* However many handlers run a trial at once, at most one of its attempts  *)
(* counts, a success stands on a recorded one, only a cancellation leaves  *)
(* one running, and a memory episode that may not restart has at most one. *)
THEOREM AttemptsHold == Spec => []AttemptsAreEvidence
<1>1. Init => AttemptInv
  BY AttemptInvInit
<1>2. RunInv /\ AttemptInv /\ [Next]_vars => AttemptInv'
  BY AttemptInvStep
<1>3. RunInv /\ AttemptInv => AttemptsAreEvidence
  BY AttemptInvImplies
<1> QED BY <1>1, <1>2, <1>3, RunInvHolds, PTL DEF Spec

(***************************************************************************)
(* Peers.                                                                  *)
(***************************************************************************)
PeerInv ==
  /\ PeersComeFirst
  /\ \A w \in Worker, s \in Slot : At(w, s, "grade") => ~PeerOpen(JobIn(w, s).trial)

LEMMA GraderSlots ==
  ASSUME RunInv, PeerInv, [Next]_vars, NEW w \in Worker, NEW s \in Slot, At(w, s, "grade")'
  PROVE  ~PeerOpen(JobIn(w, s).trial)'
<1>0. SlotsOK
  BY TypeParts DEF RunInv
<1>1. CASE slots'[w][s] = slots[w][s]
  <2>1. At(w, s, "grade") /\ JobIn(w, s)' = JobIn(w, s)
    BY <1>1 DEF At, JobIn
  <2>2. JobIn(w, s).trial \in Trial
    BY <1>0, <2>1, PhaseBusy, BusySlot, JobParts
  <2>3. ~PeerOpen(JobIn(w, s).trial)
    BY <2>1 DEF PeerInv
  <2>4. OpenTrials(trial)' \subseteq OpenTrials(trial)
    BY OpenShrinks
  <2> QED BY <2>1, <2>3, <2>4 DEF PeerOpen
<1>2. CASE slots'[w][s] = Idle
  BY <1>2 DEF At, Idle
<1>3. CASE ClaimNext(w, s)
  BY <1>0, <1>3, ClaimedSlot DEF At
<1>4. CASE TaskStep(w, s) /\ slots'[w][s] # Idle
  <2>1. Begins(w, s) => At(w, s, "execute")'
    BY <1>0 DEF Begins, PrepareBegins, At, SlotsOK
  <2>2. ~PeerOpen(JobIn(w, s).trial) /\ JobIn(w, s)' = JobIn(w, s)
    BY <1>0, <1>4, <2>1, TaskMoves DEF At
  <2>3. OpenTrials(trial)' \subseteq OpenTrials(trial)
    BY OpenShrinks
  <2> QED BY <2>2, <2>3 DEF PeerOpen
<1> QED BY <1>0, <1>1, <1>2, <1>3, <1>4, SlotMoves

LEMMA SourcesStep ==
  ASSUME RunInv, PeerInv, [Next]_vars, NEW t \in Trial, FrozenSource[t] # NoTrial, attempts'[t] # <<>>
  PROVE  trial'[FrozenSource[t]] = "success"
<1>0. EvaluationOK /\ SlotsOK /\ attempts[t] \in Seq(RowStatus) /\ FrozenSource[t] \in Trial
  BY TypeParts, LifecycleAssumption DEF RunInv, EvaluationOK
<1>1. trial[FrozenSource[t]] = "success" => trial'[FrozenSource[t]] = "success"
  BY <1>0, SettledStays DEF TrialTerminal
<1>2. attempts[t] # <<>> => trial[FrozenSource[t]] = "success"
  BY <1>0 DEF PeerInv, PeersComeFirst
<1>3. Interrupted(<<>>) = <<>>
  BY DEF Interrupted
<1>4. UNCHANGED evaluation \/ CreateRun \/ CancelRun \/ Regrade => attempts' = attempts
  BY DEF evaluation, evidence, CreateRun, CancelRun, Regrade
<1>5. ASSUME NEW w \in Worker, ReconcileFailedJobs(w) PROVE attempts[t] # <<>>
  <2>1. attempts'[t] = Interrupted(attempts[t]) \/ attempts'[t] = attempts[t]
    BY <1>5 DEF ReconcileFailedJobs
  <2> QED BY <1>3, <2>1
<1>6. ASSUME NEW w \in Worker, NEW s \in Slot, Evaluates(w, s)
      PROVE  attempts[t] # <<>> \/ trial[FrozenSource[t]] = "success"
  <2> DEFINE u == JobIn(w, s).trial
             n == slots[w][s].attempt
  <2>1. CASE Cancelled(w, s) \/ Persist(w, s) \/ AfterJob(w, s)
    BY <2>1 DEF Cancelled, PrepareCancelled, Persist, AfterJob, evidence
  <2>2. CASE Rejected(w, s) \/ Defers(w, s)
    <3>1. attempts' = [attempts EXCEPT ![u] = Interrupted(@)]
      BY <2>2 DEF Rejected, Defers, PrepareRejected, PrepareDefers, MarkInterrupted
    <3> QED BY <1>0, <1>3, <3>1 DEF EvaluationOK
  <2>3. CASE Begins(w, s)
    <3>1. /\ attempts' = [attempts EXCEPT ![u] = Append(Interrupted(@), "running")]
          /\ ~SourceOpen(u) /\ ~SourceFailed(u)
      BY <2>3 DEF Begins, PrepareBegins
    <3>2. t # u => attempts[t] # <<>>
      BY <1>0, <3>1 DEF EvaluationOK
    <3>3. t = u => trial[FrozenSource[t]] = "success"
      BY <1>0, <3>1, SettledNotOpen DEF SourceOpen, SourceFailed, EvaluationOK
    <3> QED BY <3>2, <3>3
  <2>4. CASE Records(w, s)
    <3>1. attempts' = [attempts EXCEPT ![u] = [@ EXCEPT ![n] = "finished"]]
      BY <2>4 DEF Records, FinishRecords
    <3>2. [<<>> EXCEPT ![n] = "finished"] = <<>>
      OBVIOUS
    <3> QED BY <1>0, <3>1, <3>2 DEF EvaluationOK
  <2> QED BY <1>6, <2>1, <2>2, <2>3, <2>4 DEF Evaluates
<1> QED BY <1>1, <1>2, <1>4, <1>5, <1>6, NextOnEvaluation

LEMMA GradedStep ==
  ASSUME RunInv, PeerInv, [Next]_vars, NEW t \in Trial, NEW g \in Grading, grade'[g][t] # "none"
  PROVE  ~PeerOpen(t)'
<1>0. EvaluationOK /\ SlotsOK
  BY TypeParts DEF RunInv
<1>1. OpenTrials(trial)' \subseteq OpenTrials(trial)
  BY OpenShrinks
<1>2. grade[g][t] # "none" => ~PeerOpen(t)
  BY DEF PeerInv, PeersComeFirst, PeerOpen
<1>3. ASSUME NEW w \in Worker, NEW s \in Slot, Persist(w, s), grade[g][t] = "none" PROVE ~PeerOpen(t)
  <2> DEFINE h == JobIn(w, s).kind
             u == JobIn(w, s).trial
  <2>1. PICK verdict \in {"pass", "error"} :
          grade' = [grade EXCEPT ![h][u] = IF @ = "none" THEN verdict ELSE @]
    BY <1>3 DEF Persist
  <2>2. t = u
    BY <1>0, <1>3, <2>1 DEF EvaluationOK
  <2> QED BY <1>3, <2>2 DEF Persist, PeerInv
<1>4. ASSUME NEW w \in Worker, NEW s \in Slot, Evaluates(w, s) PROVE grade' = grade \/ Persist(w, s)
  BY <1>4 DEF Evaluates, Cancelled, Rejected, Defers, Begins, Records, AfterJob, PrepareCancelled, PrepareRejected,
     PrepareDefers, PrepareBegins, FinishRecords
<1>5. ~PeerOpen(t)
  BY <1>2, <1>3, <1>4, NextOnEvaluation DEF evaluation, CreateRun, CancelRun, Regrade, ReconcileFailedJobs
<1> QED BY <1>1, <1>5 DEF PeerOpen

LEMMA PeerInvInit == Init => PeerInv
  BY DEF Init, PeerInv, PeersComeFirst, At, Idle, Grading

LEMMA PeerInvStep == ASSUME RunInv, PeerInv, [Next]_vars PROVE PeerInv'
<1>1. \A t \in Trial : FrozenSource[t] # NoTrial /\ attempts'[t] # <<>> => trial'[FrozenSource[t]] = "success"
  BY SourcesStep
<1>2. \A t \in Trial, g \in Grading : grade'[g][t] # "none" => ~PeerOpen(t)'
  BY GradedStep
<1>3. PeersComeFirst'
  BY <1>1, <1>2 DEF PeersComeFirst, PeerOpen
<1> QED BY <1>3, GraderSlots DEF PeerInv

(* No repeat of a frozen_context slot executes before repeat 0 succeeded,  *)
(* and nothing is graded before its paired baseline has settled.           *)
THEOREM PeersFirst == Spec => []PeersComeFirst
<1>1. Init => PeerInv
  BY PeerInvInit
<1>2. RunInv /\ PeerInv /\ [Next]_vars => PeerInv'
  BY PeerInvStep
<1>3. PeerInv => PeersComeFirst
  BY DEF PeerInv
<1> QED BY <1>1, <1>2, <1>3, RunInvHolds, PTL DEF Spec

(***************************************************************************)
(* The budget.  The two sums of the model are Sigma over the trials, so    *)
(* what a step does to one trial is what it does to the sum: it begins a   *)
(* row below the limit, or it records the further calls of an attempt.     *)
(* What the tasks that execute may still record is at most one execution's *)
(* calls per slot, and a task that records ends its execution.             *)
(***************************************************************************)

(* Primary attempt rows per trial, those that are calls, and all calls.    *)
RowCount    == [t \in Trial |-> Len(attempts[t])]
PrimaryRows == [t \in Trial |-> PrimaryCalls(t)]
Used        == [t \in Trial |-> calls[t] + PrimaryRows[t]]

(* The sums TLC evaluates are sums of these functions. *)
LEMMA PrimaryRowsCounted ==
  ASSUME \A t \in Trial : PrimaryCalls(t) \in Nat
  PROVE  MapThenSumSet(PrimaryCalls, Trial) = Sigma(PrimaryRows, Trial)
<1>0. IsFiniteSet(Trial)
  BY LifecycleAssumption
<1> DEFINE Body(of, T) == IF T = {} THEN 0 ELSE LET x == CHOOSE x \in T : TRUE IN PrimaryCalls(x) + of[T \ {x}]
           Sums(of) == of = [T \in SUBSET Trial |-> Body(of, T)]
           it == CHOOSE of : Sums(of)
<1>1. \A of : Sums(of) <=> SumsUp(of, PrimaryRows, Trial)
  <2> SUFFICES ASSUME NEW of PROVE Sums(of) <=> SumsUp(of, PrimaryRows, Trial)
    OBVIOUS
  <2> DEFINE Count(T) == IF T = {} THEN 0 ELSE LET x == CHOOSE x \in T : TRUE IN PrimaryRows[x] + of[T \ {x}]
  <2>1. ASSUME NEW T \in SUBSET Trial PROVE Body(of, T) = Count(T)
    BY DEF PrimaryRows
  <2>2. SumsUp(of, PrimaryRows, Trial) <=> of = [T \in SUBSET Trial |-> Count(T)]
    BY DEF SumsUp
  <2> HIDE DEF Body, Count
  <2> QED BY <2>1, <2>2
<1>2. SumsUp(it, PrimaryRows, Trial)
  <2>1. \A t \in Trial : PrimaryRows[t] \in Int
    BY DEF PrimaryRows
  <2> HIDE DEF Sums
  <2> QED BY <1>0, <1>1, <2>1, SumsUpExists
<1>3. MapThenSumSet(PrimaryCalls, Trial) = it[Trial]
  BY DEF MapThenSumSet, MapThenFoldSet
<1>4. \A t \in Trial : PrimaryRows[t] \in Int
  BY DEF PrimaryRows
<1> HIDE DEF it, Sums
<1>5. Sigma(PrimaryRows, Trial) = it[Trial]
  BY <1>0, <1>2, <1>4, SigmaIs
<1> QED BY <1>3, <1>5

LEMMA CallsCounted ==
  ASSUME \A t \in Trial : PrimaryCalls(t) \in Nat /\ calls[t] \in Nat
  PROVE  CallsUsed = Sigma(Used, Trial)
<1>0. IsFiniteSet(Trial)
  BY LifecycleAssumption
<1> DEFINE Uses(t) == calls[t] + PrimaryCalls(t)
           Body(of, T) == IF T = {} THEN 0 ELSE LET x == CHOOSE x \in T : TRUE IN Uses(x) + of[T \ {x}]
           Sums(of) == of = [T \in SUBSET Trial |-> Body(of, T)]
           it == CHOOSE of : Sums(of)
<1>a. \A t \in Trial : Used[t] = Uses(t)
  BY DEF Used, PrimaryRows
<1>b. \A t \in Trial : Used[t] \in Int
  BY <1>a
<1>1. \A of : Sums(of) <=> SumsUp(of, Used, Trial)
  <2> SUFFICES ASSUME NEW of PROVE Sums(of) <=> SumsUp(of, Used, Trial)
    OBVIOUS
  <2> DEFINE Count(T) == IF T = {} THEN 0 ELSE LET x == CHOOSE x \in T : TRUE IN Used[x] + of[T \ {x}]
  <2>1. ASSUME NEW T \in SUBSET Trial PROVE Body(of, T) = Count(T)
    <3> HIDE DEF Uses
    <3> QED BY <1>a
  <2>2. SumsUp(of, Used, Trial) <=> of = [T \in SUBSET Trial |-> Count(T)]
    BY DEF SumsUp
  <2> HIDE DEF Body, Count
  <2> QED BY <2>1, <2>2
<1>2. SumsUp(it, Used, Trial)
  <2> HIDE DEF Sums
  <2> QED BY <1>0, <1>1, <1>b, SumsUpExists
<1>3. CallsUsed = it[Trial]
  BY DEF CallsUsed, MapThenSumSet, MapThenFoldSet
<1> HIDE DEF it, Sums
<1>4. Sigma(Used, Trial) = it[Trial]
  BY <1>0, <1>2, <1>b, SigmaIs
<1> QED BY <1>3, <1>4

Counts ==
  /\ RowCount \in [Trial -> Nat] /\ PrimaryRows \in [Trial -> Nat] /\ Used \in [Trial -> Nat]
  /\ calls \in [Trial -> Nat]
  /\ \A t \in Trial : /\ PrimaryRows[t] = (IF manifest.stage \in UmbrellaStages THEN 0 ELSE RowCount[t])
                      /\ Used[t] = calls[t] + PrimaryRows[t]
  /\ CallsUsed = Sigma(Used, Trial)
  /\ MapThenSumSet(PrimaryCalls, Trial) = Sigma(PrimaryRows, Trial)
  /\ Sigma(Used, Trial) \in Nat /\ Sigma(PrimaryRows, Trial) \in Nat
  /\ Sigma(PrimaryRows, Trial) <= Sigma(Used, Trial)

LEMMA CountsOK == EvaluationOK => Counts
<1> SUFFICES ASSUME EvaluationOK PROVE Counts
  OBVIOUS
<1>0. calls \in [Trial -> Nat] /\ \A t \in Trial : Len(attempts[t]) \in Nat
  BY DEF EvaluationOK
<1>1. \A t \in Trial : PrimaryCalls(t) \in Nat
  BY <1>0 DEF PrimaryCalls
<1>2. PrimaryRows \in [Trial -> Nat]
  BY <1>1 DEF PrimaryRows
<1>3. Used \in [Trial -> Nat] /\ \A t \in Trial : Used[t] = calls[t] + PrimaryRows[t]
  BY <1>0, <1>2 DEF Used
<1>4. RowCount \in [Trial -> Nat]
  BY <1>0 DEF RowCount
<1>5. \A t \in Trial : PrimaryRows[t] = (IF manifest.stage \in UmbrellaStages THEN 0 ELSE RowCount[t])
  BY DEF PrimaryRows, PrimaryCalls, RowCount
<1>6. CallsUsed = Sigma(Used, Trial) /\ MapThenSumSet(PrimaryCalls, Trial) = Sigma(PrimaryRows, Trial)
  BY <1>0, <1>1, CallsCounted, PrimaryRowsCounted
<1>7. Sigma(Used, Trial) \in Nat /\ Sigma(PrimaryRows, Trial) \in Nat
  BY <1>2, <1>3, SigmaNatural, LifecycleAssumption
<1>8. \A t \in Trial : PrimaryRows[t] \in Int /\ Used[t] \in Int /\ PrimaryRows[t] <= Used[t]
  BY <1>0, <1>2, <1>3
<1>9. Sigma(PrimaryRows, Trial) <= Sigma(Used, Trial)
  BY <1>8, SigmaMonotone, LifecycleAssumption
<1> QED BY <1>0, <1>2, <1>3, <1>4, <1>5, <1>6, <1>7, <1>9 DEF Counts

LEMMA CountsOKNext == EvaluationOK' => Counts'
  BY CountsOK, PTL

(* The slots whose task executes a trial, and what they may still record. *)
AllSlots  == Worker \X Slot
Executing == {p \in AllSlots : At(p[1], p[2], "execute")}
Most      == Max(MoreCalls)

BudgetInv ==
  /\ Sigma(PrimaryRows, Trial) <= MaxTargetCalls
  /\ CallsUsed + Cardinality(Executing) * Most <= MaxTargetCalls + Cardinality(AllSlots) * Most

LEMMA ExecutingOK ==
  /\ IsFiniteSet(AllSlots) /\ Cardinality(AllSlots) \in Nat
  /\ Most \in Nat /\ \A more \in MoreCalls : more \in Nat /\ more <= Most
  /\ IsFiniteSet(Executing) /\ Cardinality(Executing) \in Nat /\ Cardinality(Executing) <= Cardinality(AllSlots)
  /\ Executing' \subseteq AllSlots
<1>1. IsFiniteSet(AllSlots)
  BY LifecycleAssumption, FS_Product DEF AllSlots
<1>2. Most \in Nat /\ \A more \in MoreCalls : more \in Nat /\ more <= Most
  <2>1. MoreCalls \subseteq Int /\ MoreCalls # {} /\ IsFiniteSet(MoreCalls) /\ MoreCalls \subseteq Nat
    BY LifecycleAssumption
  <2> QED BY <2>1, FiniteExtremes DEF Most
<1>3. Executing \in SUBSET AllSlots
  BY DEF Executing
<1>4. Executing' \subseteq AllSlots
  BY DEF Executing, AllSlots
<1> QED BY <1>1, <1>2, <1>3, <1>4, FS_Subset, FS_CardinalityType

(* Fewer executing tasks, or one less, may record less. *)
LEMMA ProductShrinks ==
  ASSUME NEW n \in Nat, NEW m \in Nat, n <= m, NEW k \in Nat
  PROVE  n * k \in Nat /\ m * k \in Nat /\ n * k <= m * k /\ (n + 1 <= m => n * k + k <= m * k)
<1>1. PICK d \in Nat : m = n + d
  <2>1. m - n \in Nat /\ m = n + (m - n)
    OBVIOUS
  <2> QED BY <2>1
<1>2. n * k \in Nat /\ d * k \in Nat /\ m * k = n * k + d * k
  BY <1>1
<1>3. n + 1 <= m => k <= d * k
  <2>1. SUFFICES ASSUME n + 1 <= m PROVE k <= d * k
    OBVIOUS
  <2>2. PICK e \in Nat : d = e + 1
    <3>1. d - 1 \in Nat /\ d = (d - 1) + 1
      BY <1>1, <2>1
    <3> QED BY <3>1
  <2>3. e * k \in Nat /\ d * k = e * k + k
    BY <2>2
  <2> QED BY <2>3
<1> QED BY <1>2, <1>3

(* The two things a step may do to the books. *)
BeginsRow(t) ==
  /\ ~BudgetSpent /\ calls' = calls
  /\ RowCount' = [RowCount EXCEPT ![t] = @ + 1]

RecordsCalls(t) ==
  /\ RowCount' = RowCount
  /\ \E more \in MoreCalls : calls' = [calls EXCEPT ![t] = @ + more]

(* A task starts to execute only by beginning a row. *)
LEMMA ExecutionsBegin ==
  ASSUME SlotsOK, [Next]_vars, \A w \in Worker, s \in Slot : ~Begins(w, s)
  PROVE  Executing' \subseteq Executing
<1> SUFFICES ASSUME NEW w \in Worker, NEW s \in Slot, At(w, s, "execute")' PROVE At(w, s, "execute")
  BY DEF Executing, AllSlots
<1>1. CASE slots'[w][s] = slots[w][s]
  BY <1>1 DEF At
<1>2. slots'[w][s] # Idle
  BY DEF At, Idle
<1>3. CASE ClaimNext(w, s)
  BY <1>3, ClaimedSlot DEF At
<1>4. CASE TaskStep(w, s)
  BY <1>2, <1>4, TaskMoves DEF At
<1> QED BY <1>1, <1>2, <1>3, <1>4, SlotMoves

LEMMA BudgetMoves ==
  ASSUME RunInv, AttemptInv, [Next]_vars
  PROVE  \/ UNCHANGED <<RowCount, calls>> /\ Executing' \subseteq Executing
         \/ \E t \in Trial : BeginsRow(t)
         \/ \E t \in Trial, p \in Executing : RecordsCalls(t) /\ Executing' \subseteq Executing \ {p}
<1>0. EvaluationOK /\ SlotsOK /\ TasksHaveRows /\ \A t \in Trial : attempts[t] \in Seq(RowStatus)
  BY TypeParts DEF RunInv, AttemptInv, EvaluationOK
<1>a. \A t \in Trial : Len(Interrupted(attempts[t])) = Len(attempts[t])
  BY <1>0, InterruptedOK
<1>1. ASSUME NEW w \in Worker, NEW s \in Slot, Begins(w, s) PROVE \E t \in Trial : BeginsRow(t)
  <2> DEFINE t == JobIn(w, s).trial
  <2>1. t \in Trial
    BY <1>0, <1>1, PhaseBusy, BusySlot, JobParts DEF Begins
  <2>2. /\ attempts' = [attempts EXCEPT ![t] = Append(Interrupted(@), "running")]
        /\ calls' = calls /\ ~BudgetSpent
    BY <1>1 DEF Begins, PrepareBegins
  <2>3. Len(Append(Interrupted(attempts[t]), "running")) = Len(attempts[t]) + 1
    BY <1>0, <2>1, InterruptedOK
  <2>4. \A u \in Trial : Len(attempts'[u]) = IF u = t THEN Len(attempts[u]) + 1 ELSE Len(attempts[u])
    BY <1>0, <2>2, <2>3 DEF EvaluationOK
  <2>5. RowCount' = [RowCount EXCEPT ![t] = @ + 1]
    BY <2>4 DEF RowCount
  <2> QED BY <2>1, <2>2, <2>5 DEF BeginsRow
<1>2. ASSUME NEW w \in Worker, NEW s \in Slot, Records(w, s)
      PROVE  \E t \in Trial, p \in Executing : RecordsCalls(t) /\ Executing' \subseteq Executing \ {p}
  <2> DEFINE t == JobIn(w, s).trial
             n == slots[w][s].attempt
  <2>1. /\ attempts' = [attempts EXCEPT ![t] = [@ EXCEPT ![n] = "finished"]]
        /\ At(w, s, "execute") /\ Goto(w, s, "return")
        /\ \E more \in MoreCalls : calls' = [calls EXCEPT ![t] = @ + more]
    BY <1>2 DEF Records, FinishRecords
  <2>2. t \in Trial /\ n \in DOMAIN attempts[t] /\ attempts[t] \in Seq(RowStatus)
    BY <1>0, <2>1, PhaseBusy, BusySlot, JobParts DEF TasksHaveRows
  <2> DEFINE recorded == [attempts[t] EXCEPT ![n] = "finished"]
  <2>3. Len(recorded) = Len(attempts[t])
    <3>1. attempts[t] \in [1 .. Len(attempts[t]) -> RowStatus] /\ Len(attempts[t]) \in Nat
      BY <2>2
    <3>2. recorded \in [1 .. Len(attempts[t]) -> RowStatus]
      BY <3>1 DEF RowStatus
    <3> QED BY <3>1, <3>2
  <2>4. attempts' = [attempts EXCEPT ![t] = recorded]
    BY <2>1
  <2> HIDE DEF recorded
  <2>5. \A u \in Trial : Len(attempts'[u]) = Len(attempts[u])
    BY <1>0, <2>3, <2>4 DEF EvaluationOK
  <2>6. RecordsCalls(t)
    BY <2>1, <2>5 DEF RecordsCalls, RowCount
  <2>7. <<w, s>> \in Executing
    BY <2>1 DEF Executing, AllSlots
  <2>8. Executing' \subseteq Executing \ {<<w, s>>}
    <3>1. slots' = [slots EXCEPT ![w][s] = [phase |-> "return", job |-> JobIn(w, s)]]
      BY <2>1 DEF Goto
    <3>2. \A v \in Worker, r \in Slot : slots'[v][r] = IF v = w /\ r = s THEN [phase |-> "return", job |-> JobIn(w, s)]
                                                      ELSE slots[v][r]
      BY <1>0, <3>1 DEF SlotsOK
    <3>3. \A v \in Worker, r \in Slot : At(v, r, "execute")' => At(v, r, "execute") /\ <<v, r>> # <<w, s>>
      BY <3>2 DEF At
    <3> QED BY <3>3 DEF Executing, AllSlots
  <2> QED BY <2>2, <2>6, <2>7, <2>8
<1>3. CASE \A w \in Worker, s \in Slot : ~Begins(w, s) /\ ~Records(w, s)
  <2>1. Executing' \subseteq Executing
    BY <1>0, <1>3, ExecutionsBegin
  <2>2. CASE UNCHANGED evaluation \/ CreateRun \/ CancelRun \/ Regrade
    BY <2>1, <2>2 DEF evaluation, evidence, CreateRun, CancelRun, Regrade, RowCount
  <2>3. ASSUME NEW w \in Worker, ReconcileFailedJobs(w) PROVE UNCHANGED <<RowCount, calls>>
    BY <1>a, <2>3 DEF ReconcileFailedJobs, RowCount
  <2>4. ASSUME NEW w \in Worker, NEW s \in Slot, Evaluates(w, s) PROVE UNCHANGED <<RowCount, calls>>
    <3> DEFINE t == JobIn(w, s).trial
    <3>1. CASE Cancelled(w, s) \/ Persist(w, s) \/ AfterJob(w, s)
      BY <3>1 DEF Cancelled, PrepareCancelled, Persist, AfterJob, evidence, RowCount
    <3>2. CASE Rejected(w, s) \/ Defers(w, s)
      <4>1. attempts' = [attempts EXCEPT ![t] = Interrupted(@)] /\ calls' = calls
        BY <3>2 DEF Rejected, Defers, PrepareRejected, PrepareDefers, MarkInterrupted
      <4>2. \A u \in Trial : Len(attempts'[u]) = Len(attempts[u])
        BY <1>0, <1>a, <4>1 DEF EvaluationOK
      <4> QED BY <4>1, <4>2 DEF RowCount
    <3> QED BY <1>3, <2>4, <3>1, <3>2 DEF Evaluates
  <2> QED BY <2>1, <2>2, <2>3, <2>4, NextOnEvaluation
<1> QED BY <1>1, <1>2, <1>3

LEMMA BudgetInit == Init => BudgetInv
<1> SUFFICES ASSUME Init PROVE BudgetInv
  OBVIOUS
<1>1. EvaluationOK /\ MaxTargetCalls \in Nat /\ IsFiniteSet(Trial)
  BY TypeInit, TypeParts, LifecycleAssumption
<1>2. \A t \in Trial : calls[t] = 0 /\ RowCount[t] = 0
  BY DEF Init, RowCount
<1>3. \A t \in Trial : Used[t] = 0
  BY <1>1, <1>2, CountsOK DEF Counts
<1>4. Sigma(Used, Trial) = 0
  <2>1. {} \in SUBSET Trial /\ (\A t \in Trial : Used[t] \in Nat) /\ Sigma(Used, Trial) \in Nat /\ 0 \in Nat
    BY <1>1, <1>3, CountsOK DEF Counts
  <2>2. Sigma(Used, Trial) <= Cardinality({}) * 0 /\ Cardinality({}) = 0
    BY <1>1, <1>3, <2>1, SigmaAtMost, FS_EmptySet
  <2> QED BY <2>1, <2>2
<1>5. Cardinality(Executing) * Most <= Cardinality(AllSlots) * Most
  BY ExecutingOK, ProductShrinks
<1>6. CallsUsed = 0 /\ Sigma(PrimaryRows, Trial) <= 0 /\ Sigma(PrimaryRows, Trial) \in Nat
  BY <1>1, <1>4, CountsOK DEF Counts
<1>7. Cardinality(Executing) * Most \in Nat /\ Cardinality(AllSlots) * Most \in Nat
  BY ExecutingOK, ProductShrinks
<1> QED BY <1>1, <1>5, <1>6, <1>7 DEF BudgetInv

LEMMA BudgetStep == ASSUME RunInv, AttemptInv, BudgetInv, [Next]_vars PROVE BudgetInv'
<1>0. EvaluationOK /\ EvaluationOK' /\ IsFiniteSet(Trial) /\ MaxTargetCalls \in Nat /\ manifest' = manifest
  <2>1. EvaluationOK /\ EvaluationOK'
    BY EvaluationStep, TypeParts DEF RunInv
  <2> QED BY <2>1, LifecycleAssumption, ManifestStays
<1> DEFINE of    == Cardinality(Executing) * Most
           ofNow == Cardinality(Executing') * Most
           all   == Cardinality(AllSlots) * Most
<1>1. /\ RowCount \in [Trial -> Nat] /\ PrimaryRows \in [Trial -> Nat] /\ Used \in [Trial -> Nat]
      /\ calls \in [Trial -> Nat]
      /\ \A t \in Trial : /\ PrimaryRows[t] = (IF manifest.stage \in UmbrellaStages THEN 0 ELSE RowCount[t])
                          /\ Used[t] = calls[t] + PrimaryRows[t]
      /\ CallsUsed = Sigma(Used, Trial) /\ Sigma(Used, Trial) \in Nat /\ Sigma(PrimaryRows, Trial) \in Nat
      /\ Sigma(PrimaryRows, Trial) <= Sigma(Used, Trial)
  BY <1>0, CountsOK DEF Counts
<1>2. /\ RowCount' \in [Trial -> Nat] /\ PrimaryRows' \in [Trial -> Nat] /\ Used' \in [Trial -> Nat]
      /\ \A t \in Trial : /\ PrimaryRows'[t] = (IF manifest.stage \in UmbrellaStages THEN 0 ELSE RowCount'[t])
                          /\ Used'[t] = calls'[t] + PrimaryRows'[t]
      /\ CallsUsed' = Sigma(Used', Trial) /\ Sigma(Used', Trial) \in Nat /\ Sigma(PrimaryRows', Trial) \in Nat
  BY <1>0, CountsOKNext DEF Counts
<1>3. /\ Most \in Nat /\ of \in Nat /\ ofNow \in Nat /\ all \in Nat /\ ofNow <= all
      /\ Executing' \subseteq Executing => ofNow <= of
      /\ \A p \in Executing : Executing' \subseteq Executing \ {p} => ofNow + Most <= of
  <2>1. /\ IsFiniteSet(Executing) /\ Cardinality(Executing) \in Nat /\ Cardinality(AllSlots) \in Nat /\ Most \in Nat
        /\ Cardinality(Executing) <= Cardinality(AllSlots)
    BY ExecutingOK
  <2>2. IsFiniteSet(Executing') /\ Cardinality(Executing') \in Nat /\ Cardinality(Executing') <= Cardinality(AllSlots)
    <3>1. Executing' \in SUBSET AllSlots /\ IsFiniteSet(AllSlots)
      BY ExecutingOK
    <3> QED BY <3>1, FS_Subset, FS_CardinalityType
  <2>3. Executing' \subseteq Executing => Cardinality(Executing') <= Cardinality(Executing)
    BY <2>1, FS_Subset
  <2>4. ASSUME NEW p \in Executing, Executing' \subseteq Executing \ {p}
        PROVE  Cardinality(Executing') + 1 <= Cardinality(Executing)
    <3>1. IsFiniteSet(Executing \ {p}) /\ Cardinality(Executing \ {p}) = Cardinality(Executing) - 1
      BY <2>1, FS_RemoveElement
    <3>2. Cardinality(Executing') <= Cardinality(Executing \ {p})
      BY <2>4, <3>1, FS_Subset
    <3> QED BY <2>1, <2>2, <3>1, <3>2
  <2> HIDE DEF BudgetInv
  <2> QED BY <2>1, <2>2, <2>3, <2>4, ProductShrinks
<1>4. CallsUsed + of <= MaxTargetCalls + all /\ Sigma(PrimaryRows, Trial) <= MaxTargetCalls
  BY DEF BudgetInv
<1>5. Sigma(PrimaryRows', Trial) <= MaxTargetCalls /\ CallsUsed' + ofNow <= MaxTargetCalls + all
  <2> HIDE DEF of, ofNow, all
  <2>1. CASE UNCHANGED <<RowCount, calls>> /\ Executing' \subseteq Executing
    <3>1. PrimaryRows' = PrimaryRows /\ Used' = Used
      <4>1. \A t \in Trial : PrimaryRows'[t] = PrimaryRows[t] /\ Used'[t] = Used[t]
        BY <1>1, <1>2, <2>1
      <4> HIDE DEF PrimaryRows, Used
      <4> QED BY <1>1, <1>2, <4>1
    <3>2. Sigma(PrimaryRows', Trial) = Sigma(PrimaryRows, Trial) /\ CallsUsed' = CallsUsed
      BY <1>1, <1>2, <3>1
    <3> QED BY <1>0, <1>1, <1>3, <1>4, <2>1, <3>2
  <2>2. ASSUME NEW t \in Trial, BeginsRow(t)
        PROVE  Sigma(PrimaryRows', Trial) <= MaxTargetCalls /\ CallsUsed' + ofNow <= MaxTargetCalls + all
    <3>1. \A u \in Trial \ {t} : PrimaryRows'[u] = PrimaryRows[u] /\ Used'[u] = Used[u]
      BY <1>1, <1>2, <2>2 DEF BeginsRow
    <3>2. PrimaryRows'[t] - PrimaryRows[t] <= 1 /\ Used'[t] - Used[t] <= 1
      BY <1>1, <1>2, <2>2 DEF BeginsRow
    <3>3. /\ Sigma(PrimaryRows', Trial) = Sigma(PrimaryRows, Trial) + (PrimaryRows'[t] - PrimaryRows[t])
          /\ Sigma(Used', Trial) = Sigma(Used, Trial) + (Used'[t] - Used[t])
      <4> HIDE DEF PrimaryRows, Used
      <4>1. /\ \A x \in Trial : PrimaryRows[x] \in Int /\ PrimaryRows'[x] \in Int
            /\ \A x \in Trial : Used[x] \in Int /\ Used'[x] \in Int
        BY <1>1, <1>2
      <4>2. Sigma(PrimaryRows', Trial) = Sigma(PrimaryRows, Trial) + (PrimaryRows'[t] - PrimaryRows[t])
        <5>1. \A x \in Trial : PrimaryRows[x] \in Int /\ PrimaryRows'[x] \in Int
          BY <4>1
        <5>2. \A x \in Trial \ {t} : PrimaryRows'[x] = PrimaryRows[x]
          BY <3>1
        <5> QED BY <1>0, <5>1, <5>2, SigmaChange
      <4>3. Sigma(Used', Trial) = Sigma(Used, Trial) + (Used'[t] - Used[t])
        <5>1. \A x \in Trial : Used[x] \in Int /\ Used'[x] \in Int
          BY <4>1
        <5>2. \A x \in Trial \ {t} : Used'[x] = Used[x]
          BY <3>1
        <5> QED BY <1>0, <5>1, <5>2, SigmaChange
      <4> QED BY <4>2, <4>3
    <3>4. CallsUsed < MaxTargetCalls
      BY <1>0, <1>1, <2>2 DEF BeginsRow, BudgetSpent
    <3>5. Used[t] \in Nat /\ Used'[t] \in Nat /\ PrimaryRows[t] \in Nat /\ PrimaryRows'[t] \in Nat
      BY <1>1, <1>2
    <3> HIDE DEF PrimaryRows, Used
    <3>6. Sigma(PrimaryRows', Trial) <= MaxTargetCalls /\ Sigma(Used', Trial) <= MaxTargetCalls
      BY <1>0, <1>1, <1>2, <3>2, <3>3, <3>4, <3>5
    <3> QED BY <1>0, <1>2, <1>3, <3>6
  <2>3. ASSUME NEW t \in Trial, NEW p \in Executing, RecordsCalls(t), Executing' \subseteq Executing \ {p}
        PROVE  Sigma(PrimaryRows', Trial) <= MaxTargetCalls /\ CallsUsed' + ofNow <= MaxTargetCalls + all
    <3>1. PICK more \in MoreCalls : calls' = [calls EXCEPT ![t] = @ + more]
      BY <2>3 DEF RecordsCalls
    <3>2. more \in Nat /\ more <= Most
      BY ExecutingOK
    <3>3. PrimaryRows' = PrimaryRows
      <4>1. \A u \in Trial : PrimaryRows'[u] = PrimaryRows[u]
        BY <1>1, <1>2, <2>3 DEF RecordsCalls
      <4> HIDE DEF PrimaryRows
      <4> QED BY <1>1, <1>2, <4>1
    <3>4. \A u \in Trial \ {t} : Used'[u] = Used[u]
      BY <1>1, <1>2, <3>1, <3>3
    <3>5. Used'[t] = Used[t] + more
      BY <1>1, <1>2, <3>1, <3>2, <3>3
    <3>6. Sigma(Used', Trial) = Sigma(Used, Trial) + (Used'[t] - Used[t])
      <4> HIDE DEF Used
      <4>1. \A x \in Trial : Used[x] \in Int /\ Used'[x] \in Int
        BY <1>1, <1>2
      <4> QED BY <1>0, <3>4, <4>1, SigmaChange
    <3>7. Used[t] \in Nat /\ Sigma(Used, Trial) \in Nat
      BY <1>1
    <3> HIDE DEF PrimaryRows, Used
    <3>8. CallsUsed' = CallsUsed + more
      BY <1>1, <1>2, <3>2, <3>5, <3>6, <3>7
    <3>9. ofNow + Most <= of
      BY <1>3, <2>3
    <3> QED BY <1>0, <1>1, <1>3, <1>4, <3>2, <3>3, <3>8, <3>9
  <2> QED BY <2>1, <2>2, <2>3, BudgetMoves
<1> QED BY <1>5 DEF BudgetInv, AllSlots, Most

LEMMA BudgetImplies == RunInv /\ BudgetInv => CallLimitHolds
<1> SUFFICES ASSUME RunInv, BudgetInv PROVE CallLimitHolds
  OBVIOUS
<1>1. EvaluationOK /\ MaxTargetCalls \in Nat
  BY LifecycleAssumption, TypeParts DEF RunInv
<1>2. /\ MapThenSumSet(PrimaryCalls, Trial) = Sigma(PrimaryRows, Trial)
      /\ CallsUsed \in Nat
  BY <1>1, CountsOK DEF Counts
<1> DEFINE of  == Cardinality(Executing) * Most
           all == Cardinality(AllSlots) * Most
<1>3. of \in Nat /\ all \in Nat
  BY ExecutingOK, ProductShrinks
<1>4. Sigma(PrimaryRows, Trial) <= MaxTargetCalls /\ CallsUsed + of <= MaxTargetCalls + all
  BY DEF BudgetInv
<1> HIDE DEF of, all
<1>5. CallsUsed <= MaxTargetCalls + all
  BY <1>1, <1>2, <1>3, <1>4
<1> QED BY <1>2, <1>4, <1>5 DEF CallLimitHolds, all, AllSlots, Most

(* Whatever is retried or recovered, first calls on record never exceed   *)
(* max_target_calls, and all calls exceed it by no more than one          *)
(* execution's further rows per worker slot, for stateless, agent and     *)
(* memory runs alike: _prepare counts the calls on record before it adds  *)
(* a row, and only what executes then is still to be recorded.            *)
THEOREM CallLimitKept == Spec => []CallLimitHolds
<1>1. Init => AttemptInv /\ BudgetInv
  BY AttemptInvInit, BudgetInit
<1>2. RunInv /\ AttemptInv /\ BudgetInv /\ [Next]_vars => AttemptInv' /\ BudgetInv'
  BY AttemptInvStep, BudgetStep
<1>3. RunInv /\ BudgetInv => CallLimitHolds
  BY BudgetImplies
<1> QED BY <1>1, <1>2, <1>3, RunInvHolds, PTL DEF Spec

(***************************************************************************)
(* The books: what the rows of the table say about trials and grades.      *)
(***************************************************************************)
Closed(t) == jobs[TrialJob(t)].status = "succeeded" \/ TrialJob(t) \in reconciled
Graded(t) == grade["initial"][t] # "none"

BooksInv ==
  /\ \A t \in Trial : Closed(t) => trial[t] \in TrialTerminal
  /\ \A w \in Worker, s \in Slot :
       At(w, s, "return") \/ At(w, s, "after") =>
         /\ JobIn(w, s) \in TrialJobs => trial[JobIn(w, s).trial] \in TrialTerminal
         /\ JobIn(w, s) \in GradeJobs("initial") => Graded(JobIn(w, s).trial)
  /\ \A t \in Trial :
       /\ jobs[GradeJob("initial", t)].status = "succeeded" => Graded(t)
       /\ jobs[GradeJob("initial", t)].status # "cancelled"
       /\ trial[t] \in TrialTerminal => run.cancel \/ jobs[GradeJob("initial", t)].status # "absent"
  /\ \A j \in Job : jobs[j].status \in {"failed", "absent"} => jobs[j].owner = NoWorker
  /\ grading["initial"] = "none" => run.status = "absent"

(* The status of a row and how a step may change it: a row that is not     *)
(* (re)inserted never goes back to absent, only a queued trial job is      *)
(* cancelled, a failed row stays failed, and only the task that holds it   *)
(* completes it.                                                           *)
Inserted(j) ==
  \/ CreateRun /\ j \in TrialJobs
  \/ Regrade /\ j \in GradeJobs("regrade")
  \/ \E t \in OpenTrials(trial) : j = GradeJob("initial", t) /\ trial'[t] \in TrialTerminal

RowMove(j) ==
  /\ jobs'[j].status = "absent" <=> jobs[j].status = "absent"
  /\ jobs'[j].status = "cancelled" => jobs[j].status = "cancelled" \/ j \in TrialJobs
  /\ jobs[j].status = "failed" => jobs'[j].status = "failed" /\ jobs'[j].owner = jobs[j].owner
  /\ jobs'[j].status = "failed" => jobs[j].status = "failed" \/ jobs'[j].owner = NoWorker
  /\ jobs'[j].status = "absent" => jobs'[j].owner = jobs[j].owner
  /\ jobs'[j].status = "succeeded" =>
       \/ jobs[j].status = "succeeded"
       \/ \E w \in Worker, s \in Slot : At(w, s, "return") /\ JobIn(w, s) = j

LEMMA FailRow ==
  ASSUME TableOK(jobs), NEW j \in Job, NEW i \in Job, NEW w \in Worker,
         jobs[j].status \in {"failed", "absent"} => jobs[j].owner = NoWorker,
         jobs' = Fail(jobs, i, w, TRUE) \/ jobs' = Defer(jobs, i, w)
  PROVE  RowMove(j)
<1>1. jobs[j] \in Row /\ w # NoWorker
  BY LifecycleAssumption DEF TableOK
<1>2. CASE jobs'[j] = jobs[j]
  BY <1>2 DEF RowMove
<1>3. CASE i = j /\ jobs[j].owner = w
  <2>1. jobs[j].status \notin {"failed", "absent"}
    BY <1>1, <1>3
  <2>2. jobs' = Fail(jobs, i, w, TRUE) => jobs'[j] = Requeued(jobs[j], FALSE) \/ jobs'[j] = GivenUp(jobs[j])
    BY <1>3 DEF Fail, TableOK
  <2> DEFINE n == IF jobs[j].attempts = 0 THEN 0 ELSE jobs[j].attempts - 1
  <2>3. jobs' = Defer(jobs, i, w) => jobs'[j] = [Requeued(jobs[j], FALSE) EXCEPT !.attempts = n]
    BY <1>3 DEF Defer, TableOK
  <2> HIDE DEF n
  <2>4. /\ Requeued(jobs[j], FALSE).status = "queued"
        /\ [Requeued(jobs[j], FALSE) EXCEPT !.attempts = n].status = "queued"
        /\ GivenUp(jobs[j]).status = "failed" /\ GivenUp(jobs[j]).owner = NoWorker
    BY <1>1 DEF Requeued, GivenUp, Row
  <2> QED BY <2>1, <2>2, <2>3, <2>4 DEF RowMove
<1> QED BY <1>2, <1>3 DEF Fail, Defer, TableOK

LEMMA RowMoves ==
  ASSUME RunInv, [Next]_vars, NEW j \in Job, jobs[j].status \in {"failed", "absent"} => jobs[j].owner = NoWorker
  PROVE  RowMove(j) \/ (Inserted(j) /\ jobs'[j].status = "queued")
<1>0. TableOK(jobs) /\ SlotsOK /\ jobs[j] \in Row
  BY TypeParts DEF RunInv, TableOK
<1>1. jobs'[j] = jobs[j] => RowMove(j)
  BY DEF RowMove
<1>2. \A S : jobs' = Enqueue(jobs, S) => jobs'[j] = jobs[j] \/ (j \in S /\ jobs'[j].status = "queued")
  BY DEF Enqueue, AbsentRow
<1>3. UNCHANGED jobs => RowMove(j)
  BY <1>1
<1>4. CASE CreateRun
  BY <1>1, <1>2, <1>4 DEF CreateRun, Inserted
<1>5. CASE CancelRun
  BY <1>0, <1>5 DEF CancelRun, CancelQueued, RowMove, Row
<1>6. CASE Regrade
  <2>1. {GradeJob("regrade", t) : t \in Trial \ OpenTrials(trial)} \subseteq GradeJobs("regrade")
    BY DEF GradeJobs
  <2> QED BY <1>1, <1>2, <1>6, <2>1 DEF Regrade, Inserted
<1>7. ASSUME NEW i \in Job, LeaseExpires(i) \/ Stall(i) \/ BecomesReady(i) PROVE RowMove(j)
  BY <1>0, <1>7 DEF LeaseExpires, Stall, BecomesReady, LeaseRunsOut, RowMove, TableOK, Row
<1>8. ASSUME NEW w \in Worker, Recover(w) PROVE RowMove(j)
  <2>1. \/ jobs'[j] = jobs[j]
        \/ jobs[j].status = "running" /\ (jobs'[j] = Requeued(jobs[j], TRUE) \/ jobs'[j] = GivenUp(jobs[j]))
    BY <1>8 DEF Recover, RecoverExpired, Expired, With
  <2> QED BY <1>0, <1>1, <2>1 DEF RowMove, Requeued, GivenUp, Row
<1>9. ASSUME NEW w \in Worker, ReconcileFailedJobs(w)
      PROVE  RowMove(j) \/ (Inserted(j) /\ jobs'[j].status = "queued")
  <2> DEFINE failed == With(jobs, "failed") \ reconciled
             closed == {t \in OpenTrials(trial) : TrialJob(t) \in failed}
  <2>1. jobs' = Enqueue(jobs, {GradeJob("initial", t) : t \in closed})
    BY <1>9 DEF ReconcileFailedJobs
  <2>2. j \in {GradeJob("initial", t) : t \in closed} => Inserted(j)
    BY <1>9 DEF Inserted, ReconcileFailedJobs, OpenTrials, TrialTerminal, ProblemStatuses
  <2> QED BY <1>1, <1>2, <2>1, <2>2
<1>10. ASSUME NEW w \in Worker, Crash(w) PROVE RowMove(j)
  BY <1>3, <1>10 DEF Crash
<1>11. ASSUME NEW w \in Worker, NEW s \in Slot, ClaimNext(w, s) PROVE RowMove(j)
  <2>1. PICK i \in Claimable(jobs) : jobs' = Claim(jobs, i, w)
    BY <1>11 DEF ClaimNext
  <2>2. i \in Job /\ jobs[i].status = "queued"
    BY DEF Claimable, Admitted, Scanned, Ready, With
  <2> QED BY <1>0, <2>1, <2>2 DEF Claim, RowMove, TableOK
<1>12. ASSUME NEW w \in Worker, NEW s \in Slot, TaskStep(w, s) \/ Raise(w, s) \/ OutcomeLost(w, s)
       PROVE  RowMove(j) \/ (Inserted(j) /\ jobs'[j].status = "queued")
  <2> DEFINE t == JobIn(w, s).trial
  <2>1. slots[w][s] # Idle
    BY <1>12, PhaseBusy DEF TaskStep, Raise, OutcomeLost, Prepare, Finish, Load, Persist, Return, AfterJob, Yield
  <2>2. JobIn(w, s) \in Job /\ t \in Trial /\ (At(w, s, "execute") => JobIn(w, s) = TrialJob(t))
    BY <1>0, <2>1, BusySlot, TaskParts, JobParts
  <2> HIDE DEF t
  <2>3. ASSUME NEW status \in TrialTerminal, Terminate(t, status), trial[t] \notin TrialTerminal
        PROVE  RowMove(j) \/ (Inserted(j) /\ jobs'[j].status = "queued")
    <3>1. t \in OpenTrials(trial) /\ trial'[t] \in TrialTerminal
      BY <2>2, <2>3, SettledNotOpen, TypeParts DEF RunInv, EvaluationOK, Terminate
    <3>2. j \in {GradeJob("initial", t)} => Inserted(j)
      BY <3>1 DEF Inserted
    <3> QED BY <1>1, <1>2, <2>3, <3>2 DEF Terminate
  <2>4. CASE Prepare(w, s)
    <3>1. \/ UNCHANGED jobs
          \/ trial[t] \notin TrialTerminal /\ \E status \in TrialTerminal : Terminate(t, status)
      <4>1. {"cancelled", "indeterminate", "skipped"} \subseteq TrialTerminal
        BY DEF TrialTerminal, ProblemStatuses
      <4> QED BY <2>4, <4>1
              DEF Prepare, PrepareSettled, PrepareCancelled, PrepareRejected, PrepareDefers, PrepareBegins, t
    <3> QED BY <1>3, <2>3, <3>1
  <2>5. CASE Finish(w, s)
    <3>1. \/ UNCHANGED jobs
          \/ trial[t] \notin TrialTerminal /\ \E status \in TrialTerminal : Terminate(t, status)
          \/ At(w, s, "execute") /\ jobs' = Fail(jobs, TrialJob(t), w, TRUE)
      BY <2>5, LifecycleAssumption DEF Finish, FinishTooLate, FinishRecords, FinishRaises, t
    <3> QED BY <1>0, <1>3, <2>2, <2>3, <3>1, FailRow
  <2>6. CASE Load(w, s) \/ Persist(w, s) \/ AfterJob(w, s) \/ OutcomeLost(w, s)
    BY <1>3, <2>6 DEF Load, Persist, AfterJob, OutcomeLost
  <2>7. CASE Return(w, s)
    BY <1>0, <2>2, <2>7 DEF Return, Complete, Holds, RowMove, TableOK, Row
  <2>8. CASE Yield(w, s) \/ Raise(w, s)
    BY <1>0, <2>2, <2>8, FailRow DEF Yield, Raise
  <2> QED BY <1>12, <2>4, <2>5, <2>6, <2>7, <2>8 DEF TaskStep
<1>13. CASE UNCHANGED vars
  BY <1>3, <1>13 DEF vars
<1> QED BY <1>4, <1>5, <1>6, <1>7, <1>8, <1>9, <1>10, <1>11, <1>12, <1>13 DEF Next

LEMMA AbsentStep ==
  ASSUME RunInv, [Next]_vars, run.status = "absent"
  PROVE  UNCHANGED evaluation \/ CreateRun
<1>1. /\ jobs = [j \in Job |-> AbsentRow] /\ \A w \in Worker, s \in Slot : slots[w][s] = Idle
  BY DEF RunInv, NothingYet
<1>2. \A w \in Worker : ~ReconcileFailedJobs(w)
  BY <1>1 DEF ReconcileFailedJobs, With, AbsentRow
<1>3. \A w \in Worker, s \in Slot : ~Evaluates(w, s)
  BY <1>1, PhaseBusy DEF Evaluates, Cancelled, Rejected, Defers, Begins, Records, Persist, AfterJob
<1> QED BY <1>2, <1>3, NextOnEvaluation DEF CancelRun, Regrade

LEMMA CancelStays ==
  ASSUME RunInv, [Next]_vars, run.cancel
  PROVE  run.cancel'
<1>1. Promise!Next => run.cancel'
  BY DEF Promise!Next, Promise!Create, Promise!Finish, Promise!RequestCancel, Promise!Begin, Promise!Settle
<1> QED BY <1>1, PromiseStep DEF RunInv

LEMMA GradedStays ==
  ASSUME RunInv, [Next]_vars, NEW t \in Trial, Graded(t)
  PROVE  Graded(t)'
  BY GradesStep DEF RunInv, Graded, Grading

LEMMA ReturnStep ==
  ASSUME RunInv, BooksInv, [Next]_vars, NEW w \in Worker, NEW s \in Slot,
         At(w, s, "return")' \/ At(w, s, "after")'
  PROVE  /\ JobIn(w, s)' \in TrialJobs => trial'[JobIn(w, s)'.trial] \in TrialTerminal
         /\ JobIn(w, s)' \in GradeJobs("initial") => grade'["initial"][JobIn(w, s)'.trial] # "none"
<1> DEFINE t == JobIn(w, s).trial
<1>0. SlotsOK /\ EvaluationOK
  BY TypeParts DEF RunInv
<1>1. ASSUME At(w, s, "return") \/ At(w, s, "after"), JobIn(w, s)' = JobIn(w, s)
      PROVE  /\ JobIn(w, s)' \in TrialJobs => trial'[JobIn(w, s)'.trial] \in TrialTerminal
             /\ JobIn(w, s)' \in GradeJobs("initial") => grade'["initial"][JobIn(w, s)'.trial] # "none"
  <2>1. t \in Trial
    BY <1>0, <1>1, PhaseBusy, BusySlot, JobParts
  <2>2. /\ JobIn(w, s) \in TrialJobs => trial[t] \in TrialTerminal
        /\ JobIn(w, s) \in GradeJobs("initial") => Graded(t)
    BY <1>1 DEF BooksInv
  <2>3. trial[t] \in TrialTerminal => trial'[t] \in TrialTerminal
    BY <2>1, SettledStays
  <2>4. Graded(t) => grade'["initial"][t] # "none"
    BY <2>1, GradedStays DEF Graded
  <2> QED BY <1>1, <2>2, <2>3, <2>4 DEF Graded
<1>2. CASE slots'[w][s] = slots[w][s]
  <2>1. (At(w, s, "return") \/ At(w, s, "after")) /\ JobIn(w, s)' = JobIn(w, s)
    BY <1>2 DEF At, JobIn
  <2> QED BY <1>1, <2>1
<1>3. CASE slots'[w][s] = Idle
  BY <1>3 DEF At, Idle
<1>4. CASE ClaimNext(w, s)
  BY <1>0, <1>4, ClaimedSlot DEF At
<1>5. CASE TaskStep(w, s) /\ slots'[w][s] # Idle
  <2>1. slots[w][s] # Idle /\ (Begins(w, s) => At(w, s, "execute")')
    BY <1>0, <1>5, TaskMoves DEF Begins, PrepareBegins, At, SlotsOK
  <2>2. /\ JobIn(w, s)' = JobIn(w, s) /\ ~Begins(w, s)
        /\ At(w, s, "after")' => At(w, s, "return")
        /\ At(w, s, "return")' => ~At(w, s, "return")
    BY <1>0, <1>5, <2>1, TaskMoves DEF At
  <2>3. CASE At(w, s, "after")'
    BY <1>1, <2>2, <2>3
  <2>4. CASE At(w, s, "return")'
    <3>1. JobIn(w, s) \in Job /\ t \in Trial
      BY <1>0, <2>1, BusySlot, JobParts
    <3>2. \A p : Goto(w, s, p) => At(w, s, p)'
      BY <1>0 DEF Goto, SlotsOK, At
    <3>3. \A p : Goto(w, s, p) => p = "return"
      BY <2>4, <3>2 DEF At
    <3>4. \A x, status \in TrialTerminal : Terminate(t, status) => trial'[t] \in TrialTerminal
      BY <1>0, <3>1 DEF Terminate, EvaluationOK
    <3>5. Free(w, s) => FALSE
      BY <1>0, <1>5 DEF Free, SlotsOK
    <3>6. CASE Prepare(w, s)
      <4>1. JobIn(w, s) \in TrialJobs /\ JobIn(w, s) \notin GradeJobs("initial")
        BY <1>0, <2>1, <3>6, TaskParts DEF Prepare, TrialJobs, GradeJobs, TrialJob, GradeJob
      <4>2. {"cancelled", "indeterminate", "skipped"} \subseteq TrialTerminal
        BY DEF TrialTerminal, ProblemStatuses
      <4>3. \/ trial'[t] = trial[t] /\ trial[t] \in TrialTerminal
            \/ \E status \in TrialTerminal : Terminate(t, status)
        BY <2>2, <3>3, <3>6, <4>2 DEF Prepare, PrepareSettled, PrepareCancelled, PrepareRejected, PrepareDefers,
           Begins, evaluation
      <4> QED BY <2>2, <3>4, <4>1, <4>3
    <3>7. CASE Finish(w, s)
      <4>1. JobIn(w, s) \in TrialJobs /\ JobIn(w, s) \notin GradeJobs("initial")
        BY <1>0, <2>1, <3>7, TaskParts DEF Finish, TrialJobs, GradeJobs, TrialJob, GradeJob
      <4>2. \/ trial'[t] = trial[t] /\ trial[t] \in TrialTerminal
            \/ \E status \in TrialTerminal : Terminate(t, status)
        BY <3>5, <3>7, LifecycleAssumption DEF Finish, FinishTooLate, FinishRecords, FinishRaises, evaluation
      <4> QED BY <2>2, <3>4, <4>1, <4>2
    <3>8. CASE Persist(w, s)
      <4>1. JobIn(w, s) \notin TrialJobs
        BY <1>0, <2>1, <3>8, TaskParts DEF Persist
      <4>2. JobIn(w, s) \in GradeJobs("initial") => JobIn(w, s).kind = "initial"
        BY DEF GradeJobs, GradeJob
      <4>3. PICK verdict \in {"pass", "error"} :
              grade' = [grade EXCEPT ![JobIn(w, s).kind][t] = IF @ = "none" THEN verdict ELSE @]
        BY <3>8 DEF Persist
      <4>4. JobIn(w, s).kind = "initial" => grade'["initial"][t] # "none"
        BY <1>0, <3>1, <4>3 DEF EvaluationOK, Grading
      <4> QED BY <2>2, <4>1, <4>2, <4>4 DEF Graded
    <3>9. ~Load(w, s) /\ ~Return(w, s) /\ ~AfterJob(w, s) /\ ~Yield(w, s)
      BY <2>2, <2>4, <3>3, <3>5 DEF Load, Return, AfterJob, Yield, At
    <3> QED BY <1>5, <3>6, <3>7, <3>8, <3>9 DEF TaskStep
  <2> QED BY <2>3, <2>4
<1> QED BY <1>0, <1>2, <1>3, <1>4, <1>5, SlotMoves

(* A trial that settles in a step gets its grade job in that step, unless  *)
(* it is cancelled before it began.                                        *)
LEMMA NewlySettled ==
  ASSUME RunInv, [Next]_vars, NEW t \in Trial, trial[t] \notin TrialTerminal, trial'[t] \in TrialTerminal
  PROVE  run.cancel' \/ jobs'[GradeJob("initial", t)].status = "queued"
<1>0. EvaluationOK /\ SlotsOK /\ GradeJob("initial", t) \in Job
  BY TypeParts DEF RunInv, Job, RunJobs, GradeJobs
<1>1. \A S : GradeJob("initial", t) \in S /\ jobs' = Enqueue(jobs, S) => jobs'[GradeJob("initial", t)].status = "queued"
  BY <1>0 DEF Enqueue, AbsentRow
<1>2. UNCHANGED evaluation \/ CreateRun \/ Regrade => trial' = trial
  BY DEF evaluation, CreateRun, Regrade
<1>3. CASE CancelRun
  BY <1>3 DEF CancelRun, Finalize
<1>4. ASSUME NEW w \in Worker, ReconcileFailedJobs(w) PROVE jobs'[GradeJob("initial", t)].status = "queued"
  <2> DEFINE closed == {u \in OpenTrials(trial) : TrialJob(u) \in With(jobs, "failed") \ reconciled}
  <2>1. t \in closed
    BY <1>4 DEF ReconcileFailedJobs
  <2>2. jobs' = Enqueue(jobs, {GradeJob("initial", u) : u \in closed})
    BY <1>4 DEF ReconcileFailedJobs
  <2> HIDE DEF closed
  <2> QED BY <1>1, <2>1, <2>2
<1>5. ASSUME NEW w \in Worker, NEW s \in Slot, Evaluates(w, s)
      PROVE  jobs'[GradeJob("initial", t)].status = "queued"
  <2> DEFINE u == JobIn(w, s).trial
  <2>1. ASSUME NEW status, Terminate(u, status) PROVE jobs'[GradeJob("initial", t)].status = "queued"
    <3>1. u = t
      BY <1>0, <2>1 DEF Terminate, EvaluationOK
    <3> QED BY <1>1, <2>1, <3>1 DEF Terminate
  <2>2. CASE Cancelled(w, s) \/ Rejected(w, s) \/ Records(w, s)
    BY <2>1, <2>2 DEF Cancelled, Rejected, Records, PrepareCancelled, PrepareRejected, FinishRecords
  <2>3. CASE Defers(w, s) \/ Persist(w, s) \/ AfterJob(w, s)
    BY <2>3 DEF Defers, PrepareDefers, Persist, AfterJob
  <2>4. CASE Begins(w, s)
    <3>1. trial' = [trial EXCEPT ![u] = "running"]
      BY <2>4 DEF Begins, PrepareBegins
    <3> QED BY <1>0, <3>1 DEF EvaluationOK, TrialTerminal, ProblemStatuses
  <2> QED BY <1>5, <2>2, <2>3, <2>4 DEF Evaluates
<1> QED BY <1>2, <1>3, <1>4, <1>5, NextOnEvaluation

LEMMA BooksInit == Init => BooksInv
<1> SUFFICES ASSUME Init PROVE BooksInv
  OBVIOUS
<1>1. \A j \in Job : jobs[j].status = "absent" /\ jobs[j].owner = NoWorker
  BY DEF Init, AbsentRow
<1>2. \A t \in Trial : TrialJob(t) \in Job /\ GradeJob("initial", t) \in Job
  BY DEF Job, RunJobs, TrialJobs, GradeJobs
<1>3. \A w \in Worker, s \in Slot : ~At(w, s, "return") /\ ~At(w, s, "after")
  BY DEF Init, At, Idle
<1>4. \A t \in Trial : trial[t] \notin TrialTerminal /\ ~Closed(t)
  BY <1>1, <1>2 DEF Init, Closed, TrialTerminal, ProblemStatuses
<1>5. run.status = "absent"
  BY DEF Init
<1> QED BY <1>1, <1>2, <1>3, <1>4, <1>5 DEF BooksInv

LEMMA ClosedStep ==
  ASSUME RunInv, BooksInv, [Next]_vars, NEW t \in Trial, Closed(t)'
  PROVE  trial'[t] \in TrialTerminal
<1> DEFINE j == TrialJob(t)
<1>0. j \in Job /\ j \in TrialJobs /\ EvaluationOK /\ SlotsOK /\ j.trial = t
  BY TypeParts DEF RunInv, Job, RunJobs, TrialJobs, TrialJob
<1>1. trial[t] \in TrialTerminal => trial'[t] \in TrialTerminal
  BY SettledStays
<1>2. Closed(t) => trial[t] \in TrialTerminal
  BY DEF BooksInv
<1>3. CASE jobs'[j].status = "succeeded"
  <2>1. RowMove(j)
    BY <1>0, <1>3, RowMoves DEF BooksInv
  <2>2. CASE jobs[j].status = "succeeded"
    BY <1>1, <1>2, <2>2 DEF Closed
  <2>3. ASSUME NEW w \in Worker, NEW s \in Slot, At(w, s, "return"), JobIn(w, s) = j
        PROVE  trial[t] \in TrialTerminal
    BY <1>0, <2>3 DEF BooksInv
  <2> QED BY <1>1, <1>3, <2>1, <2>2, <2>3 DEF RowMove
<1>4. CASE j \in reconciled' /\ j \notin reconciled
  <2>1. \E w \in Worker : ReconcileFailedJobs(w)
    <3>1. UNCHANGED evaluation \/ CreateRun \/ CancelRun \/ Regrade => reconciled' = reconciled
      BY DEF evaluation, CreateRun, CancelRun, Regrade
    <3>2. ASSUME NEW w \in Worker, NEW s \in Slot, Evaluates(w, s) PROVE reconciled' = reconciled
      BY <3>2 DEF Evaluates, Cancelled, Rejected, Defers, Begins, Records, Persist, AfterJob, PrepareCancelled,
         PrepareRejected, PrepareDefers, PrepareBegins, FinishRecords
    <3> QED BY <1>4, <3>1, <3>2, NextOnEvaluation
  <2>2. /\ j \in With(jobs, "failed") \ reconciled
        /\ trial' = [u \in Trial |-> IF u \in {v \in OpenTrials(trial) : TrialJob(v) \in With(jobs, "failed") \ reconciled}
                                     THEN "provider_error" ELSE trial[u]]
    BY <1>4, <2>1 DEF ReconcileFailedJobs
  <2>3. t \in OpenTrials(trial) => trial'[t] = "provider_error"
    BY <2>2
  <2>4. t \notin OpenTrials(trial) => trial[t] \in TrialTerminal
    BY <1>0, SettledNotOpen DEF EvaluationOK
  <2> QED BY <1>1, <2>3, <2>4 DEF TrialTerminal, ProblemStatuses
<1> QED BY <1>1, <1>2, <1>3, <1>4 DEF Closed

LEMMA GradeRowStep ==
  ASSUME RunInv, BooksInv, [Next]_vars, NEW t \in Trial
  PROVE  /\ jobs'[GradeJob("initial", t)].status = "succeeded" => Graded(t)'
         /\ jobs'[GradeJob("initial", t)].status # "cancelled"
         /\ trial'[t] \in TrialTerminal => run.cancel' \/ jobs'[GradeJob("initial", t)].status # "absent"
<1> DEFINE j == GradeJob("initial", t)
<1>0. j \in Job /\ j \notin TrialJobs /\ j \in GradeJobs("initial") /\ j.trial = t
  BY DEF Job, RunJobs, TrialJobs, TrialJob, GradeJobs, GradeJob
<1>1. RowMove(j) \/ jobs'[j].status = "queued"
  BY <1>0, RowMoves DEF BooksInv
<1>2. /\ jobs[j].status = "succeeded" => Graded(t) /\ jobs[j].status # "cancelled"
      /\ jobs[j].status # "cancelled"
      /\ trial[t] \in TrialTerminal => run.cancel \/ jobs[j].status # "absent"
  BY DEF BooksInv
<1>3. Graded(t) => Graded(t)'
  BY GradedStays
<1>4. ASSUME NEW w \in Worker, NEW s \in Slot, At(w, s, "return"), JobIn(w, s) = j PROVE Graded(t)
  BY <1>0, <1>4 DEF BooksInv
<1>5. trial[t] \notin TrialTerminal /\ trial'[t] \in TrialTerminal => run.cancel' \/ jobs'[j].status = "queued"
  BY NewlySettled
<1>6. run.cancel => run.cancel'
  BY CancelStays
<1> HIDE DEF j
<1>7. jobs'[j].status = "succeeded" => Graded(t)'
  BY <1>1, <1>2, <1>3, <1>4 DEF RowMove
<1>8. jobs'[j].status # "cancelled"
  BY <1>0, <1>1, <1>2 DEF RowMove
<1>9. trial'[t] \in TrialTerminal => run.cancel' \/ jobs'[j].status # "absent"
  BY <1>1, <1>2, <1>5, <1>6 DEF RowMove
<1> QED BY <1>7, <1>8, <1>9 DEF j

LEMMA GradingStep ==
  ASSUME RunInv, [Next]_vars, grading'["initial"] # grading["initial"]
  PROVE  \/ CreateRun
         \/ grading["initial"] = "queued" /\ grading'["initial"] = "completed"
<1>1. \A gs : CloseGradings(gs) =>
        \/ grading'["initial"] = grading["initial"]
        \/ grading["initial"] = "queued" /\ grading'["initial"] = "completed"
  BY DEF CloseGradings, GradingDue, Grading
<1>2. \A gs, r : Finalize(gs, r) =>
        \/ grading'["initial"] = grading["initial"]
        \/ grading["initial"] = "queued" /\ grading'["initial"] = "completed"
  BY <1>1 DEF Finalize
<1>3. UNCHANGED evaluation \/ Regrade => grading'["initial"] = grading["initial"]
  BY TypeParts DEF evaluation, Regrade, RunInv, EvaluationOK, Grading
<1>4. CancelRun => \E gs, r : Finalize(gs, r)
  BY DEF CancelRun
<1>5. \A w \in Worker : ReconcileFailedJobs(w) => (\E gs, r : Finalize(gs, r)) \/ grading' = grading
  BY DEF ReconcileFailedJobs
<1>6. ASSUME NEW w \in Worker, NEW s \in Slot, Evaluates(w, s)
      PROVE  (\E gs, r : Finalize(gs, r)) \/ (\E gs : CloseGradings(gs)) \/ grading' = grading
  BY <1>6 DEF Evaluates, Cancelled, Rejected, Defers, Begins, Records, Persist, AfterJob, PrepareCancelled,
     PrepareRejected, PrepareDefers, PrepareBegins, FinishRecords
<1> QED BY <1>1, <1>2, <1>3, <1>4, <1>5, <1>6, NextOnEvaluation

LEMMA BooksStep == ASSUME RunInv, BooksInv, [Next]_vars PROVE BooksInv'
<1>1. \A t \in Trial : Closed(t)' => trial'[t] \in TrialTerminal
  BY ClosedStep
<1>2. \A w \in Worker, s \in Slot :
        At(w, s, "return")' \/ At(w, s, "after")' =>
          /\ JobIn(w, s)' \in TrialJobs => trial'[JobIn(w, s)'.trial] \in TrialTerminal
          /\ JobIn(w, s)' \in GradeJobs("initial") => grade'["initial"][JobIn(w, s)'.trial] # "none"
  BY ReturnStep
<1>3. \A t \in Trial :
        /\ jobs'[GradeJob("initial", t)].status = "succeeded" => Graded(t)'
        /\ jobs'[GradeJob("initial", t)].status # "cancelled"
        /\ trial'[t] \in TrialTerminal => run.cancel' \/ jobs'[GradeJob("initial", t)].status # "absent"
  BY GradeRowStep
<1>4. ASSUME NEW j \in Job, jobs'[j].status \in {"failed", "absent"} PROVE jobs'[j].owner = NoWorker
  <2>1. jobs[j].status \in {"failed", "absent"} => jobs[j].owner = NoWorker
    BY DEF BooksInv
  <2>2. RowMove(j)
    BY <1>4, <2>1, RowMoves
  <2> QED BY <1>4, <2>1, <2>2 DEF RowMove
<1>5. grading'["initial"] = "none" => run.status' = "absent"
  <2>1. CASE CreateRun
    BY <2>1, TypeParts DEF CreateRun, RunInv, EvaluationOK, Grading
  <2>2. CASE ~CreateRun /\ grading'["initial"] = "none"
    <3>1. grading["initial"] = "none"
      BY <2>2, GradingStep
    <3>2. UNCHANGED evaluation /\ run.status = "absent"
      BY <2>2, <3>1, AbsentStep DEF BooksInv
    <3> QED BY <3>2 DEF evaluation
  <2> QED BY <2>1, <2>2
<1> QED BY <1>1, <1>2, <1>3, <1>4, <1>5 DEF BooksInv, Graded

FinishedInv ==
  /\ run.status \in RunTerminal => grading["initial"] = "completed"
  /\ run.status \in {"completed", "completed_with_errors"} =>
       \A t \in Trial : Graded(t) \/ jobs[GradeJob("initial", t)].status = "failed"

LEMMA FinishedStays ==
  ASSUME RunInv, BooksInv, FinishedInv, [Next]_vars, run.status \in RunTerminal
  PROVE  FinishedInv'
<1>1. OpenTrials(trial) = {} /\ run.status # "absent"
  BY DEF RunInv, PromiseInv, RunTerminal
<1>2. run' = run
  <2>1. ~Promise!Live
    BY SameStatuses DEF Promise!Live
  <2>2. ~Promise!Next
    BY <1>1, <2>1 DEF Promise!Next, Promise!Create, Promise!Finish, Promise!RequestCancel, Promise!Begin, Promise!Settle
  <2> QED BY <2>2, PromiseStep DEF RunInv
<1>3. grading'["initial"] = "completed"
  BY <1>1, GradingStep DEF FinishedInv, CreateRun
<1>4. ASSUME NEW t \in Trial, jobs[GradeJob("initial", t)].status = "failed"
      PROVE  jobs'[GradeJob("initial", t)].status = "failed"
  <2>1. GradeJob("initial", t) \in Job /\ GradeJob("initial", t) \notin GradeJobs("regrade")
    BY DEF Job, RunJobs, GradeJobs, GradeJob
  <2>2. ~Inserted(GradeJob("initial", t))
    BY <1>1, <2>1 DEF Inserted, CreateRun
  <2> QED BY <1>4, <2>1, <2>2, RowMoves DEF BooksInv, RowMove
<1>5. \A t \in Trial : Graded(t) => Graded(t)'
  BY GradedStays
<1> QED BY <1>2, <1>3, <1>4, <1>5 DEF FinishedInv

LEMMA FinishedOnce ==
  ASSUME RunInv, BooksInv, [Next]_vars, run.status \notin RunTerminal, run.status' \in RunTerminal
  PROVE  FinishedInv'
<1>0. EvaluationOK /\ RunInv' /\ BooksInv'
  BY TypeParts, RunInvStep, BooksStep DEF RunInv
<1>1. run.status # "absent"
  BY <1>0, AbsentStep DEF evaluation, CreateRun, RunTerminal, EvaluationOK
<1>2. \E gs, r : RunDue(r) /\ Finalize(gs, r)
  <2>1. UNCHANGED evaluation \/ CreateRun \/ Regrade => run.status' \notin RunTerminal
    BY <1>0, <1>1 DEF evaluation, CreateRun, Regrade
  <2>2. \A gs : Finalize(gs, run) => RunDue(run)
    BY DEF Finalize
  <2>3. CASE CancelRun
    BY <2>3 DEF CancelRun, Finalize, RunTerminal
  <2>4. ASSUME NEW w \in Worker, ReconcileFailedJobs(w) PROVE \E gs : Finalize(gs, run)
    BY <2>4 DEF ReconcileFailedJobs
  <2>5. ASSUME NEW w \in Worker, NEW s \in Slot, Evaluates(w, s) PROVE \E gs : Finalize(gs, run)
    <3>1. CASE Begins(w, s)
      BY <1>0, <3>1 DEF Begins, PrepareBegins, EvaluationOK, RunTerminal
    <3>2. CASE Defers(w, s) \/ Records(w, s)
      BY <3>2 DEF Defers, PrepareDefers, Records, FinishRecords
    <3>3. CASE Cancelled(w, s) \/ Rejected(w, s) \/ Persist(w, s) \/ AfterJob(w, s)
      BY <3>3 DEF Cancelled, PrepareCancelled, Rejected, PrepareRejected, Persist, AfterJob
    <3> QED BY <2>5, <3>1, <3>2, <3>3 DEF Evaluates
  <2> QED BY <2>1, <2>2, <2>3, <2>4, <2>5, NextOnEvaluation
<1>3. PICK gs, r : RunDue(r) /\ Finalize(gs, r)
  BY <1>2
<1>4. CloseGradings(Grading) /\ OpenTrials(trial') = {} /\ Open(jobs') \cap RunJobs = {}
  BY <1>3 DEF Finalize, RunDue
<1>5. GradeJobs("initial") \subseteq RunJobs
  BY DEF RunJobs
<1>6. grading'["initial"] = "completed"
  <2>1. grading["initial"] \in {"queued", "completed"}
    BY <1>0, <1>1 DEF BooksInv, EvaluationOK, Grading
  <2>2. grading["initial"] = "queued" => GradingDue("initial")
    BY <1>4, <1>5 DEF GradingDue
  <2> QED BY <1>4, <2>1, <2>2 DEF CloseGradings, Grading
<1>7. ASSUME NEW t \in Trial, run.status' \in {"completed", "completed_with_errors"}
      PROVE  Graded(t)' \/ jobs'[GradeJob("initial", t)].status = "failed"
  <2> DEFINE j == GradeJob("initial", t)
  <2>1. j \in Job /\ j \in RunJobs
    BY DEF Job, RunJobs, GradeJobs
  <2>2. ~run.cancel'
    BY <1>0, <1>7 DEF RunInv, PromiseInv
  <2>3. trial'[t] \in TrialTerminal
    BY <1>0, <1>4 DEF RunInv, TypeOK, OpenTrials, TrialStatus
  <2>4. jobs'[j] \in Row /\ jobs'[j].status \notin {"queued", "running"}
    BY <1>0, <1>4, <2>1 DEF Open, With, RunInv, TypeOK
  <2>5. /\ jobs'[j].status = "succeeded" => Graded(t)'
        /\ jobs'[j].status # "cancelled" /\ jobs'[j].status # "absent"
    BY <1>0, <2>2, <2>3 DEF BooksInv
  <2> HIDE DEF j
  <2>6. Graded(t)' \/ jobs'[j].status = "failed"
    BY <2>4, <2>5 DEF Row
  <2> QED BY <2>6 DEF j
<1> QED BY <1>6, <1>7 DEF FinishedInv

LEMMA FinishedStep == ASSUME RunInv, BooksInv, FinishedInv, [Next]_vars PROVE FinishedInv'
<1>1. run.status' \notin RunTerminal => FinishedInv'
  BY DEF FinishedInv, RunTerminal
<1> QED BY <1>1, FinishedStays, FinishedOnce

(* No path through retries, recovery, cancellation and reconciliation      *)
(* loses a trial, a finished run is at rest, and one that was not          *)
(* cancelled has every trial graded whose grade job did not fail for good. *)
THEOREM AccountsHold == Spec => []TrialsAreAccountedFor
<1>1. Init => BooksInv /\ FinishedInv
  BY BooksInit DEF Init, FinishedInv, RunTerminal
<1>2. RunInv /\ BooksInv /\ FinishedInv /\ [Next]_vars => BooksInv' /\ FinishedInv'
  BY BooksStep, FinishedStep
<1>3. RunInv /\ BooksInv /\ FinishedInv => TrialsAreAccountedFor
  BY DEF RunInv, PromiseInv, BooksInv, FinishedInv, TrialsAreAccountedFor, Closed, Graded
<1> QED BY <1>1, <1>2, <1>3, RunInvHolds, PTL DEF Spec

(***************************************************************************)
(* The run uses the queue as JobQueue specifies it.  The one thing to show *)
(* beyond matching steps is that no row is inserted twice.                 *)
(***************************************************************************)
FreshInv ==
  /\ \A t \in OpenTrials(trial) : jobs[GradeJob("initial", t)].status = "absent"
  /\ grading["regrade"] = "none" => \A j \in GradeJobs("regrade") : jobs[j].status = "absent"

LEMMA FreshInit == Init => FreshInv
<1>1. GradeJobs("regrade") \subseteq Job /\ \A t \in Trial : GradeJob("initial", t) \in Job
  BY DEF Job, RunJobs, GradeJobs
<1>2. OpenTrials(trial) \subseteq Trial
  BY DEF OpenTrials
<1>3. Init => \A j \in Job : jobs[j].status = "absent"
  BY DEF Init, AbsentRow
<1> QED BY <1>1, <1>2, <1>3 DEF FreshInv

LEMMA RegradeStays ==
  ASSUME RunInv, [Next]_vars, grading'["regrade"] = "none"
  PROVE  grading["regrade"] = "none" /\ ~Regrade
<1>0. EvaluationOK
  BY TypeParts DEF RunInv
<1>1. \A gs : CloseGradings(gs) => grading["regrade"] = "none"
  BY DEF CloseGradings, Grading
<1>2. \A gs, r : Finalize(gs, r) => grading["regrade"] = "none"
  BY <1>1 DEF Finalize
<1>3. ~Regrade
  BY <1>0 DEF Regrade, EvaluationOK, Grading
<1>4. UNCHANGED evaluation \/ CreateRun \/ CancelRun => grading["regrade"] = "none"
  BY <1>0, <1>2 DEF evaluation, CreateRun, CancelRun, EvaluationOK, Grading
<1>5. \A w \in Worker : ReconcileFailedJobs(w) => grading["regrade"] = "none"
  BY <1>2 DEF ReconcileFailedJobs
<1>6. ASSUME NEW w \in Worker, NEW s \in Slot, Evaluates(w, s) PROVE grading["regrade"] = "none"
  <2>1. (\E gs, r : Finalize(gs, r)) \/ (\E gs : CloseGradings(gs)) \/ grading' = grading
    BY <1>6 DEF Evaluates, Cancelled, Rejected, Defers, Begins, Records, Persist, AfterJob, PrepareCancelled,
       PrepareRejected, PrepareDefers, PrepareBegins, FinishRecords
  <2> QED BY <1>1, <1>2, <2>1
<1> QED BY <1>3, <1>4, <1>5, <1>6, NextOnEvaluation

LEMMA FreshStep == ASSUME RunInv, BooksInv, FreshInv, [Next]_vars PROVE FreshInv'
<1>0. \A t \in Trial : /\ GradeJob("initial", t) \in Job /\ GradeJob("initial", t) \notin TrialJobs
                       /\ GradeJob("initial", t) \notin GradeJobs("regrade")
                       /\ \A u \in Trial : GradeJob("initial", u) = GradeJob("initial", t) => u = t
  BY DEF Job, RunJobs, TrialJobs, GradeJobs, TrialJob, GradeJob
<1>1. ASSUME NEW t \in OpenTrials(trial') PROVE jobs'[GradeJob("initial", t)].status = "absent"
  <2>1. t \in OpenTrials(trial) /\ t \in Trial /\ trial'[t] \notin TrialTerminal
    BY OpenShrinks DEF OpenTrials, TrialTerminal, ProblemStatuses
  <2>2. ~Inserted(GradeJob("initial", t))
    BY <1>0, <2>1 DEF Inserted, OpenTrials
  <2> QED BY <1>0, <2>1, <2>2, RowMoves DEF BooksInv, FreshInv, RowMove
<1>2. ASSUME grading'["regrade"] = "none", NEW j \in GradeJobs("regrade") PROVE jobs'[j].status = "absent"
  <2>1. j \in Job /\ j \notin TrialJobs /\ \A t \in Trial : j # GradeJob("initial", t)
    BY DEF Job, RunJobs, TrialJobs, GradeJobs, TrialJob, GradeJob
  <2>2. grading["regrade"] = "none" /\ ~Inserted(j)
    BY <1>2, <2>1, RegradeStays DEF Inserted, OpenTrials
  <2> QED BY <2>1, <2>2, RowMoves DEF BooksInv, FreshInv, RowMove
<1> QED BY <1>1, <1>2 DEF FreshInv

(* The operators of jobs.py mean the same there and here. *)
LEMMA SameTable ==
  /\ \A T, S : Queue!Enqueue(T, S) = Enqueue(T, S)
  /\ \A T, S : Queue!CancelQueued(T, S) = CancelQueued(T, S)
  /\ \A T : Queue!RecoverExpired(T) = RecoverExpired(T)
  /\ \A T, j, w : Queue!Claim(T, j, w) = Claim(T, j, w)
  /\ \A T, j, w : Queue!Complete(T, j, w) = Complete(T, j, w)
  /\ \A T, j, w : Queue!Defer(T, j, w) = Defer(T, j, w)
  /\ \A T, j, w : Queue!Fail(T, j, w, TRUE) = Fail(T, j, w, TRUE)
  /\ \A T, j, w : Queue!Holds(T, j, w) <=> Holds(T, j, w)
  /\ \A T : Queue!Claimable(T) = Claimable(T)
  /\ \A T, x : Queue!With(T, x) = With(T, x)
<1>1. \A T, S : Queue!Enqueue(T, S) = Enqueue(T, S)
  BY DEF Queue!Enqueue, Enqueue, Queue!AbsentRow, AbsentRow
<1>2. \A T, S : Queue!CancelQueued(T, S) = CancelQueued(T, S)
  BY DEF Queue!CancelQueued, CancelQueued
<1>3. \A T, x : Queue!With(T, x) = With(T, x)
  BY DEF Queue!With, With
<1>4. \A r, b : Queue!Requeued(r, b) = Requeued(r, b) /\ Queue!GivenUp(r) = GivenUp(r)
  BY DEF Queue!Requeued, Requeued, Queue!GivenUp, GivenUp
<1>5. \A T : Queue!Expired(T) = Expired(T)
  BY <1>3 DEF Queue!Expired, Expired
<1>6. \A T : Queue!RecoverExpired(T) = RecoverExpired(T)
  BY <1>4, <1>5 DEF Queue!RecoverExpired, RecoverExpired
<1>7. \A T, j, w : Queue!Holds(T, j, w) <=> Holds(T, j, w)
  BY DEF Queue!Holds, Holds
<1>8. \A T, j, w : Queue!Claim(T, j, w) = Claim(T, j, w)
  BY DEF Queue!Claim, Claim
<1>9. \A T, j, w : Queue!Complete(T, j, w) = Complete(T, j, w)
  BY <1>7 DEF Queue!Complete, Complete
<1>10. \A T, j, w : Queue!Defer(T, j, w) = Defer(T, j, w)
  BY <1>4 DEF Queue!Defer, Defer
<1>11. \A T, j, w : Queue!Fail(T, j, w, TRUE) = Fail(T, j, w, TRUE)
  BY <1>4 DEF Queue!Fail, Fail
<1>12. ASSUME NEW T PROVE Queue!Admitted(T) = Admitted(T)
  <2>1. Queue!Scanned(T) = Scanned(T)
    BY DEF Queue!Scanned, Scanned, Queue!Ready, Ready, Queue!With, With, Queue!Cardinality, Cardinality
  <2>2. \A j : Queue!RunningOn(T, KeyOf[j]) = RunningOn(T, KeyOf[j])
    BY <1>3 DEF Queue!RunningOn, RunningOn
  <2>3. \A S : Queue!Cardinality(S) = Cardinality(S)
    BY DEF Queue!Cardinality, Cardinality
  <2>4. \A j : Queue!Cardinality(Queue!RunningOn(T, KeyOf[j])) = Cardinality(RunningOn(T, KeyOf[j]))
    BY <2>2, <2>3
  <2> QED BY <2>1, <2>4 DEF Queue!Admitted, Admitted
<1>13. \A T : Queue!Claimable(T) = Claimable(T)
  BY <1>12 DEF Queue!Claimable, Claimable
<1> QED BY <1>1, <1>2, <1>3, <1>6, <1>7, <1>8, <1>9, <1>10, <1>11, <1>13

(* What the queue sees of a slot. *)
View(x) ==
  IF x = Idle THEN Idle
  ELSE IF x.phase = "after" THEN [phase |-> "after", job |-> x.job]
  ELSE [phase |-> "working", job |-> x.job, beat |-> TRUE]

LEMMA ViewOfSlots ==
  /\ QueueSlots = [w \in Worker |-> [s \in Slot |-> View(slots[w][s])]]
  /\ QueueSlots' = [w \in Worker |-> [s \in Slot |-> View(slots'[w][s])]]
  BY DEF QueueSlots, View, At, JobIn

LEMMA ViewMoves ==
  ASSUME SlotsOK, NEW w \in Worker, NEW s \in Slot, NEW x, slots' = [slots EXCEPT ![w][s] = x]
  PROVE  QueueSlots' = [QueueSlots EXCEPT ![w][s] = View(x)]
<1>1. slots' = [slots EXCEPT ![w] = [slots[w] EXCEPT ![s] = x]] /\ slots[w] \in [Slot -> Task \cup {Idle}]
  BY DEF SlotsOK
<1>2. slots'[w] = [slots[w] EXCEPT ![s] = x] /\ \A v \in Worker \ {w} : slots'[v] = slots[v]
  BY <1>1 DEF SlotsOK
<1>3. [r \in Slot |-> View(slots'[w][r])] = [[r \in Slot |-> View(slots[w][r])] EXCEPT ![s] = View(x)]
  BY <1>1, <1>2
<1> HIDE DEF View
<1> DEFINE row == [r \in Slot |-> View(slots[w][r])]
<1>4. QueueSlots[w] = row /\ QueueSlots \in [Worker -> [Slot -> {View(y) : y \in Task \cup {Idle}}]]
  BY ViewOfSlots DEF SlotsOK
<1>5. QueueSlots'[w] = [row EXCEPT ![s] = View(x)]
  BY <1>3, ViewOfSlots
<1>6. \A v \in Worker \ {w} : QueueSlots'[v] = QueueSlots[v]
  BY <1>2, ViewOfSlots
<1> HIDE DEF row
<1>7. QueueSlots' = [QueueSlots EXCEPT ![w] = [row EXCEPT ![s] = View(x)]]
  BY <1>5, <1>6, ViewOfSlots
<1> QED BY <1>4, <1>7

LEMMA SameView ==
  ASSUME SlotsOK, NEW w \in Worker, NEW s \in Slot, NEW x, slots' = [slots EXCEPT ![w][s] = x],
         View(x) = View(slots[w][s])
  PROVE  QueueSlots' = QueueSlots
<1>1. \A v \in Worker, r \in Slot : View(slots'[v][r]) = View(slots[v][r])
  <2> HIDE DEF View
  <2> SUFFICES ASSUME NEW v \in Worker, NEW r \in Slot PROVE View(slots'[v][r]) = View(slots[v][r])
    OBVIOUS
  <2>1. slots'[v][r] = IF v = w /\ r = s THEN x ELSE slots[v][r]
    BY DEF SlotsOK
  <2> QED BY <2>1
<1> QED BY <1>1, ViewOfSlots

LEMMA Inserts ==
  ASSUME NEW S \in SUBSET Job, \A j \in S : jobs[j].status = "absent", TableOK(jobs),
         jobs' = Enqueue(jobs, S), QueueSlots' = QueueSlots
  PROVE  [Queue!Next]_(Queue!vars)
<1>1. CASE S = {}
  <2>1. jobs' = jobs
    BY <1>1 DEF Enqueue, TableOK
  <2> QED BY <2>1 DEF Queue!vars
<1>2. CASE S # {}
  <2>1. Queue!EnqueueJobs(S)
    BY <1>2, SameTable DEF Queue!EnqueueJobs, With
  <2> QED BY <2>1 DEF Queue!Next
<1> QED BY <1>1, <1>2

LEMMA GotoSameView ==
  ASSUME SlotsOK, NEW w \in Worker, NEW s \in Slot, slots[w][s] # Idle, ~At(w, s, "after"),
         NEW p, p \notin {"idle", "after"}, Goto(w, s, p)
  PROVE  QueueSlots' = QueueSlots
<1> DEFINE x == [phase |-> p, job |-> JobIn(w, s)]
<1>1. x # Idle /\ x.phase # "after" /\ x.job = slots[w][s].job
  BY DEF Idle, JobIn
<1>2. View(x) = View(slots[w][s])
  BY <1>1 DEF View, At
<1> QED BY <1>2, SameView DEF Goto

LEMMA FreeView ==
  ASSUME SlotsOK, NEW w \in Worker, NEW s \in Slot, Free(w, s)
  PROVE  Queue!Free(w, s)
<1>1. QueueSlots' = [QueueSlots EXCEPT ![w][s] = View(Idle)]
  BY ViewMoves DEF Free
<1> QED BY <1>1 DEF View, Queue!Free, Queue!Put, Queue!Idle, Idle

LEMMA BusyView ==
  ASSUME SlotsOK, NEW w \in Worker, NEW s \in Slot, slots[w][s] # Idle
  PROVE  /\ Queue!Busy(w, s) /\ QueueSlots[w][s].job = JobIn(w, s) /\ JobIn(w, s) \in Job
         /\ At(w, s, "after") => Queue!InAfter(w, s)
         /\ ~At(w, s, "after") => Queue!Working(w, s)
  BY BusySlot, ViewOfSlots DEF View, Queue!Busy, Queue!InAfter, Queue!Working, Queue!Idle, Idle, At, JobIn

LEMMA QueueTask ==
  ASSUME RunInv, FreshInv, NEW w \in Worker, NEW s \in Slot,
         TaskStep(w, s) \/ Raise(w, s) \/ OutcomeLost(w, s)
  PROVE  [Queue!Next]_(Queue!vars)
<1> DEFINE t == JobIn(w, s).trial
<1>0. SlotsOK /\ EvaluationOK /\ TableOK(jobs)
  BY TypeParts DEF RunInv
<1>1. slots[w][s] # Idle
  BY PhaseBusy DEF TaskStep, Raise, OutcomeLost, Prepare, Finish, Load, Persist, Return, AfterJob, Yield
<1>2. JobIn(w, s) \in Job /\ t \in Trial /\ (JobIn(w, s) \in TrialJobs => JobIn(w, s) = TrialJob(t))
  BY <1>0, <1>1, BusySlot, JobParts
<1>3. ASSUME \/ Queue!Succeed(w, s) \/ Queue!AfterJob(w, s) \/ Queue!Raise(w, s)
             \/ Queue!RaiseDefer(w, s) \/ Queue!OutcomeLost(w, s)
      PROVE  [Queue!Next]_(Queue!vars)
  BY <1>3 DEF Queue!Next, Queue!WorkerStep
<1>4. UNCHANGED jobs /\ QueueSlots' = QueueSlots => [Queue!Next]_(Queue!vars)
  BY DEF Queue!vars
<1> HIDE DEF t
<1>5. \A p : ~At(w, s, "after") /\ p \in {"return", "yield", "grade"} /\ Goto(w, s, p) => QueueSlots' = QueueSlots
  BY <1>0, <1>1, GotoSameView
<1>6. ASSUME NEW status, Terminate(t, status), trial[t] \notin TrialTerminal, QueueSlots' = QueueSlots
      PROVE  [Queue!Next]_(Queue!vars)
  <2>1. jobs[GradeJob("initial", t)].status = "absent" /\ GradeJob("initial", t) \in Job
    BY <1>0, <1>2, <1>6, SettledNotOpen DEF FreshInv, EvaluationOK, Job, RunJobs, GradeJobs
  <2>2. {GradeJob("initial", t)} \in SUBSET Job /\ \A j \in {GradeJob("initial", t)} : jobs[j].status = "absent"
    BY <2>1
  <2>3. jobs' = Enqueue(jobs, {GradeJob("initial", t)})
    BY <1>6 DEF Terminate
  <2> QED BY <1>0, <1>6, <2>2, <2>3, Inserts
<1>16. Free(w, s) => Queue!Free(w, s)
  BY <1>0, FreeView
<1>17. /\ Queue!Busy(w, s) /\ QueueSlots[w][s].job = JobIn(w, s)
       /\ At(w, s, "after") => Queue!InAfter(w, s)
       /\ ~At(w, s, "after") => Queue!Working(w, s)
  BY <1>0, <1>1, BusyView
<1>7. CASE Prepare(w, s) /\ ~Begins(w, s)
  <2>1. /\ At(w, s, "prepare") /\ \E p \in {"return", "yield"} : Goto(w, s, p)
        /\ UNCHANGED jobs \/ (trial[t] \notin TrialTerminal /\ \E status : Terminate(t, status))
    BY <1>7 DEF Prepare, PrepareSettled, PrepareCancelled, PrepareRejected, PrepareDefers, Begins, t
  <2>2. QueueSlots' = QueueSlots
    BY <1>5, <2>1 DEF At
  <2> QED BY <1>4, <1>6, <2>1, <2>2
<1>8. CASE Begins(w, s)
  <2> DEFINE x == [phase |-> "execute", job |-> TrialJob(t), attempt |-> Len(attempts[t]) + 1]
  <2>1. At(w, s, "prepare") /\ slots' = [slots EXCEPT ![w][s] = x] /\ UNCHANGED jobs
    BY <1>8 DEF Begins, PrepareBegins, t
  <2>2. x.job = slots[w][s].job
    BY <1>0, <1>1, <1>2, <2>1, TaskParts DEF JobIn
  <2>3. View(x) = View(slots[w][s])
    BY <1>1, <2>1, <2>2 DEF View, Idle, At
  <2> HIDE DEF x
  <2> QED BY <1>0, <1>4, <2>1, <2>3, SameView
<1>9. CASE Finish(w, s)
  <2>1. At(w, s, "execute") /\ JobIn(w, s) = TrialJob(t)
    BY <1>0, <1>1, <1>2, <1>9, TaskParts DEF Finish
  <2>2. \/ /\ Goto(w, s, "return")
           /\ UNCHANGED jobs \/ (trial[t] \notin TrialTerminal /\ \E status : Terminate(t, status))
        \/ jobs' = Fail(jobs, TrialJob(t), w, TRUE) /\ Free(w, s)
    BY <1>9 DEF Finish, FinishTooLate, FinishRecords, FinishRaises, t
  <2>3. CASE Goto(w, s, "return") /\ (UNCHANGED jobs \/ (trial[t] \notin TrialTerminal /\ \E status : Terminate(t, status)))
    <3>1. QueueSlots' = QueueSlots
      BY <1>5, <2>1, <2>3 DEF At
    <3> QED BY <1>4, <1>6, <2>3, <3>1
  <2>4. CASE jobs' = Fail(jobs, TrialJob(t), w, TRUE) /\ Free(w, s)
    <3>1. Queue!Raise(w, s)
      BY <1>16, <1>17, <2>1, <2>4, SameTable DEF Queue!Raise
    <3> QED BY <1>3, <3>1
  <2> QED BY <2>2, <2>3, <2>4
<1>10. CASE Load(w, s) \/ Persist(w, s)
  <2>1. At(w, s, "load") \/ At(w, s, "grade")
    BY <1>10 DEF Load, Persist
  <2>2. UNCHANGED jobs /\ \E p \in {"return", "yield", "grade"} : Goto(w, s, p)
    BY <1>10 DEF Load, Persist
  <2> QED BY <1>4, <1>5, <2>1, <2>2 DEF At
<1>11. CASE Return(w, s)
  <2>1. At(w, s, "return") /\ jobs' = Complete(jobs, JobIn(w, s), w)
        /\ IF Holds(jobs, JobIn(w, s), w) THEN Goto(w, s, "after") ELSE Free(w, s)
    BY <1>11 DEF Return
  <2>2. Goto(w, s, "after") => QueueSlots' = [QueueSlots EXCEPT ![w][s] = [phase |-> "after", job |-> JobIn(w, s)]]
    <3> DEFINE x == [phase |-> "after", job |-> JobIn(w, s)]
    <3>1. View(x) = x
      BY DEF View, Idle
    <3> HIDE DEF x
    <3>2. ASSUME slots' = [slots EXCEPT ![w][s] = x] PROVE QueueSlots' = [QueueSlots EXCEPT ![w][s] = View(x)]
      BY <1>0, <3>2, ViewMoves
    <3> QED BY <3>1, <3>2 DEF Goto, x
  <2>3. Queue!Succeed(w, s)
    BY <1>2, <1>16, <1>17, <2>1, <2>2, SameTable DEF Queue!Succeed, Queue!Put, At
  <2> QED BY <1>3, <2>3
<1>12. CASE AfterJob(w, s)
  <2>1. Queue!AfterJob(w, s)
    BY <1>12, <1>16, <1>17 DEF AfterJob, Queue!AfterJob
  <2> QED BY <1>3, <2>1
<1>13. CASE Yield(w, s)
  <2>1. Queue!RaiseDefer(w, s)
    BY <1>2, <1>13, <1>16, <1>17, SameTable DEF Yield, Queue!RaiseDefer, At
  <2> QED BY <1>3, <2>1
<1>14. CASE Raise(w, s)
  <2>1. Queue!Raise(w, s)
    BY <1>14, <1>16, <1>17, SameTable DEF Raise, Queue!Raise
  <2> QED BY <1>3, <2>1
<1>15. CASE OutcomeLost(w, s)
  <2>1. Queue!OutcomeLost(w, s)
    BY <1>15, <1>16, <1>17 DEF OutcomeLost, Queue!OutcomeLost
  <2> QED BY <1>3, <2>1
<1> QED BY <1>7, <1>8, <1>9, <1>10, <1>11, <1>12, <1>13, <1>14, <1>15 DEF TaskStep

LEMMA QueueStep ==
  ASSUME RunInv, FreshInv, [Next]_vars
  PROVE  [Queue!Next]_(Queue!vars)
<1>0. SlotsOK /\ EvaluationOK /\ TableOK(jobs)
  BY TypeParts DEF RunInv
<1>1. slots' = slots => QueueSlots' = QueueSlots
  BY ViewOfSlots
<1>2. CASE UNCHANGED vars
  BY <1>1, <1>2 DEF vars, Queue!vars
<1>3. CASE CreateRun
  <2>1. TrialJobs \in SUBSET Job /\ \A j \in TrialJobs : jobs[j].status = "absent"
    BY <1>3 DEF CreateRun, RunInv, NothingYet, AbsentRow, Job, RunJobs
  <2> QED BY <1>0, <1>1, <1>3, <2>1, Inserts DEF CreateRun
<1>4. CASE CancelRun
  <2>1. Queue!CancelJobs(TrialJobs)
    BY <1>1, <1>4, SameTable DEF CancelRun, Queue!CancelJobs
  <2> QED BY <2>1 DEF Queue!Next
<1>5. CASE Regrade
  <2> DEFINE S == {GradeJob("regrade", t) : t \in Trial \ OpenTrials(trial)}
  <2>1. S \in SUBSET Job /\ S \subseteq GradeJobs("regrade")
    BY DEF Job, RunJobs, GradeJobs
  <2>2. \A j \in S : jobs[j].status = "absent"
    BY <1>5, <2>1 DEF Regrade, FreshInv
  <2>3. jobs' = Enqueue(jobs, S) /\ slots' = slots
    BY <1>5 DEF Regrade
  <2> HIDE DEF S
  <2> QED BY <1>0, <1>1, <2>1, <2>2, <2>3, Inserts
<1>6. ASSUME NEW j \in Job, LeaseExpires(j) \/ Stall(j) \/ BecomesReady(j) PROVE [Queue!Next]_(Queue!vars)
  <2>1. Queue!LeaseExpires(j) \/ Queue!BecomesReady(j)
    BY <1>1, <1>6 DEF LeaseExpires, Stall, BecomesReady, LeaseRunsOut, Queue!LeaseExpires, Queue!BecomesReady
  <2> QED BY <2>1 DEF Queue!Next
<1>7. ASSUME NEW w \in Worker, Recover(w) PROVE [Queue!Next]_(Queue!vars)
  <2>1. Queue!Recover(w)
    BY <1>1, <1>7, SameTable DEF Recover, Queue!Recover
  <2> QED BY <2>1 DEF Queue!Next, Queue!WorkerStep
<1>8. ASSUME NEW w \in Worker, ReconcileFailedJobs(w) PROVE [Queue!Next]_(Queue!vars)
  <2> DEFINE S == {GradeJob("initial", t) : t \in {u \in OpenTrials(trial) : TrialJob(u) \in With(jobs, "failed") \ reconciled}}
  <2>1. S \in SUBSET Job /\ \A j \in S : jobs[j].status = "absent"
    BY DEF Job, RunJobs, GradeJobs, FreshInv, OpenTrials
  <2>2. jobs' = Enqueue(jobs, S) /\ slots' = slots
    BY <1>8 DEF ReconcileFailedJobs
  <2> HIDE DEF S
  <2> QED BY <1>0, <1>1, <2>1, <2>2, Inserts
<1>9. ASSUME NEW w \in Worker, Crash(w) PROVE [Queue!Next]_(Queue!vars)
  <2>1. slots' = [slots EXCEPT ![w] = [s \in Slot |-> Idle]] /\ UNCHANGED jobs
    BY <1>9 DEF Crash
  <2>2. QueueSlots' = [QueueSlots EXCEPT ![w] = [s \in Slot |-> Queue!Idle]]
    BY <1>0, <2>1, ViewOfSlots DEF SlotsOK, View, Queue!Idle, Idle
  <2>3. Queue!Crash(w)
    BY <2>1, <2>2 DEF Queue!Crash
  <2> QED BY <2>3 DEF Queue!Next, Queue!WorkerStep
<1>10. ASSUME NEW w \in Worker, NEW s \in Slot, ClaimNext(w, s) PROVE [Queue!Next]_(Queue!vars)
  <2>1. PICK j \in Claimable(jobs) : /\ jobs' = Claim(jobs, j, w)
          /\ slots' = [slots EXCEPT ![w][s] = [phase |-> IF j \in TrialJobs THEN "prepare" ELSE "load", job |-> j]]
    BY <1>10 DEF ClaimNext
  <2> DEFINE x == [phase |-> IF j \in TrialJobs THEN "prepare" ELSE "load", job |-> j]
  <2>2. View(x) = [phase |-> "working", job |-> j, beat |-> TRUE]
    BY DEF View, Idle
  <2>3. QueueSlots' = [QueueSlots EXCEPT ![w][s] = View(x)]
    <3> HIDE DEF x
    <3>1. ASSUME slots' = [slots EXCEPT ![w][s] = x] PROVE QueueSlots' = [QueueSlots EXCEPT ![w][s] = View(x)]
      BY <1>0, <3>1, ViewMoves
    <3> QED BY <2>1, <3>1 DEF x
  <2>4. QueueSlots[w][s] = Idle
    BY <1>10, ViewOfSlots DEF View, ClaimNext
  <2>5. Queue!ClaimNext(w, s)
    BY <2>1, <2>2, <2>3, <2>4, SameTable DEF Queue!ClaimNext, Queue!Busy, Queue!Put, Queue!Idle, Idle
  <2> QED BY <2>5 DEF Queue!Next, Queue!WorkerStep
<1>11. ASSUME NEW w \in Worker, NEW s \in Slot, TaskStep(w, s) \/ Raise(w, s) \/ OutcomeLost(w, s)
       PROVE  [Queue!Next]_(Queue!vars)
  BY <1>11, QueueTask
<1> QED BY <1>2, <1>3, <1>4, <1>5, <1>6, <1>7, <1>8, <1>9, <1>10, <1>11 DEF Next

(* Every transaction of the run's handlers, its API and the worker loop is *)
(* one step of the queue of jobs.py and worker.py, so what JobQueue is     *)
(* proved to keep is kept under every run.                                 *)
THEOREM UsesQueue == Spec => UsesQueueAsSpecified
<1>1. Init => BooksInv /\ FreshInv
  BY BooksInit, FreshInit
<1>2. RunInv /\ BooksInv /\ FreshInv /\ [Next]_vars => BooksInv' /\ FreshInv'
  BY BooksStep, FreshStep
<1>3. RunInv /\ FreshInv /\ [Next]_vars => [Queue!Next]_(Queue!vars)
  BY QueueStep
<1>4. Init => Queue!Init
  BY ViewOfSlots DEF Init, Queue!Init, View, Queue!AbsentRow, AbsentRow, Queue!Idle, Idle
<1> QED BY <1>1, <1>2, <1>3, <1>4, RunInvHolds, PTL DEF Spec, UsesQueueAsSpecified, Queue!Spec
=============================================================================
