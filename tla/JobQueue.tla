------------------------------ MODULE JobQueue ------------------------------
(***************************************************************************)
(* The job queue with the worker processes that drive it: jobs.py together *)
(* with class Worker of worker.py.  What a handler does between its claim  *)
(* and its outcome is left open here; RunLifecycle fills it in for the     *)
(* trial and grade handlers.                                               *)
(*                                                                         *)
(* A worker process is its id and its slots.  A slot is one asyncio task   *)
(* running _handle.  Ownership in the table is by worker id alone, so two  *)
(* slots of one worker that hold the same job cannot be told apart by      *)
(* jobs.py.  A process that is stopping, or down, is one whose loop takes  *)
(* no step: it claims and recovers nothing, and any number of processes    *)
(* may be in that state for as long as they like.                          *)
(***************************************************************************)
EXTENDS Jobs

CONSTANTS
  Slot,         (* the slots of one worker (worker_slots)                    *)
  Handled,      (* jobs whose kind has an entry in HANDLERS                  *)
  Deferring,    (* jobs whose handler may raise Defer                        *)
  Mortal,       (* workers whose process may crash, stop or stay down        *)
  CancelGroups  (* the sets of jobs a cancel_queued may select               *)

ASSUME QueueAssumption ==
  /\ Handled \subseteq Job
  /\ Deferring \subseteq Handled
  /\ Mortal \subseteq Worker
  /\ CancelGroups \subseteq SUBSET Job

VARIABLES
  jobs,         (* the table                                                 *)
  slots         (* per worker and slot: the task in it                       *)

vars == <<jobs, slots>>

(***************************************************************************)
(* A task is idle, or in its handler ("working"), or between the commit of *)
(* complete and the end of _after_job ("after").  "beat" is the heartbeat  *)
(* task still being in its loop.                                           *)
(***************************************************************************)
Idle == [phase |-> "idle"]
Task == [phase : {"working"}, job : Job, beat : BOOLEAN] \cup [phase : {"after"}, job : Job]

Busy(w, s)    == slots[w][s] # Idle
Working(w, s) == slots[w][s].phase = "working"
InAfter(w, s) == slots[w][s].phase = "after"

Put(w, s, task) == slots' = [slots EXCEPT ![w][s] = task]
Free(w, s)      == Put(w, s, Idle)

TypeOK ==
  /\ jobs \in [Job -> Row]
  /\ slots \in [Worker -> [Slot -> Task \cup {Idle}]]

Init ==
  /\ jobs = [j \in Job |-> AbsentRow]
  /\ slots = [w \in Worker |-> [s \in Slot |-> Idle]]

(***************************************************************************)
(* Transactions of the API and of handlers on the table.                   *)
(***************************************************************************)
EnqueueJobs(S) ==
  /\ S # {} /\ S \subseteq With(jobs, "absent")
  /\ jobs' = Enqueue(jobs, S)
  /\ UNCHANGED slots

CancelJobs(S) ==
  /\ jobs' = CancelQueued(jobs, S)
  /\ UNCHANGED slots

(***************************************************************************)
(* The loop of Worker.run.                                                 *)
(***************************************************************************)
ClaimNext(w, s) ==
  /\ ~Busy(w, s)
  /\ \E j \in Claimable(jobs) :
       /\ jobs' = Claim(jobs, j, w)
       /\ Put(w, s, [phase |-> "working", job |-> j, beat |-> TRUE])

Recover(w) ==
  /\ jobs' = RecoverExpired(jobs)
  /\ UNCHANGED slots

(***************************************************************************)
(* A process dies with everything it held in memory; it may be started     *)
(* again.  Reusing its id is no weaker than a fresh one: after a crash no  *)
(* task that acts on the rows left behind exists.                          *)
(***************************************************************************)
Crash(w) ==
  /\ w \in Mortal
  /\ slots' = [slots EXCEPT ![w] = [s \in Slot |-> Idle]]
  /\ UNCHANGED jobs

(***************************************************************************)
(* Time: a lease runs out, a delay ends.  The beat of a live task keeps a  *)
(* lease fresh only if its event loop and the database are not stalled for *)
(* the length of the lease, so any lease may run out.                      *)
(***************************************************************************)
LeaseExpires(j) ==
  /\ jobs[j].status = "running" /\ jobs[j].lease
  /\ jobs' = [jobs EXCEPT ![j].lease = FALSE]
  /\ UNCHANGED slots

BecomesReady(j) ==
  /\ jobs[j].status = "queued" /\ ~jobs[j].ready
  /\ jobs' = [jobs EXCEPT ![j].ready = TRUE]
  /\ UNCHANGED slots

(***************************************************************************)
(* The task of a slot, _handle.  The beat task of a slot stops at its      *)
(* first refused renewal.                                                  *)
(***************************************************************************)
Beat(w, s) ==
  /\ Working(w, s) /\ slots[w][s].beat
  /\ LET j == slots[w][s].job IN
       /\ jobs' = Heartbeat(jobs, j, w)
       /\ slots' = [slots EXCEPT ![w][s].beat = Holds(jobs, j, w)]

Succeed(w, s) ==
  /\ Working(w, s) /\ slots[w][s].job \in Handled
  /\ LET j == slots[w][s].job IN
       /\ jobs' = Complete(jobs, j, w)
       /\ IF Holds(jobs, j, w) THEN Put(w, s, [phase |-> "after", job |-> j]) ELSE Free(w, s)

AfterJob(w, s) ==
  /\ InAfter(w, s)
  /\ Free(w, s)
  /\ UNCHANGED jobs

(* An exception of the handler, of complete, of _after_job, or of the fail *)
(* that a missing handler calls for.                                       *)
Raise(w, s) ==
  /\ Busy(w, s)
  /\ jobs' = Fail(jobs, slots[w][s].job, w, TRUE)
  /\ Free(w, s)

NoHandler(w, s) ==
  /\ Working(w, s) /\ slots[w][s].job \notin Handled
  /\ jobs' = Fail(jobs, slots[w][s].job, w, FALSE)
  /\ Free(w, s)

RaiseDefer(w, s) ==
  /\ Working(w, s) /\ slots[w][s].job \in Deferring
  /\ jobs' = Defer(jobs, slots[w][s].job, w)
  /\ Free(w, s)

(* jobs.fail or jobs.defer itself fails: the task ends, the row stays. *)
OutcomeLost(w, s) ==
  /\ Busy(w, s)
  /\ Free(w, s)
  /\ UNCHANGED jobs

Deferral == \E w \in Worker, s \in Slot : RaiseDefer(w, s)

WorkerStep(w) ==
  \/ Recover(w) \/ Crash(w)
  \/ \E s \in Slot :
       \/ ClaimNext(w, s) \/ Beat(w, s) \/ Succeed(w, s) \/ AfterJob(w, s)
       \/ Raise(w, s) \/ NoHandler(w, s) \/ RaiseDefer(w, s) \/ OutcomeLost(w, s)

Next ==
  \/ \E S \in SUBSET Job : EnqueueJobs(S)
  \/ \E S \in CancelGroups : CancelJobs(S)
  \/ \E j \in Job : LeaseExpires(j) \/ BecomesReady(j)
  \/ \E w \in Worker : WorkerStep(w)

Spec == Init /\ [][Next]_vars

(***************************************************************************)
(* What holds of the table in every state.                                 *)
(***************************************************************************)

(* The limit of claim_next (jobs.py 44-46), for keys whose jobs carry      *)
(* different limits (trials of a target, limit N, share its key with its   *)
(* connection test, limit 1): whichever jobs of a key run together, one of *)
(* them allows that many.  With one limit per key it is count <= limit.    *)
ConcurrencyRespected ==
  \A k \in Key : \A S \in SUBSET RunningOn(jobs, k) :
    S # {} => \E j \in S : Cardinality(S) <= LimitOf[j]

(* No order of retries, deferrals and recoveries lets a job run more than  *)
(* max_attempts times at a stretch, whatever waits in the queue still has  *)
(* an attempt left (jobs.py 89, 105, 137), and a job is given up on only   *)
(* when they are spent, unless it has no handler (worker.py 115-119).      *)
AttemptsWithinBudget ==
  \A j \in Job : /\ jobs[j].attempts <= MaxAttempts[j]
                 /\ jobs[j].status = "queued" => jobs[j].attempts < MaxAttempts[j]
                 /\ jobs[j].status = "failed" /\ j \in Handled => jobs[j].attempts = MaxAttempts[j]

(* fail and defer test the owner and not the status (jobs.py 84, 102), so  *)
(* every row that is not running must have lost its owner, save the        *)
(* succeeded ones, whose owner complete leaves in place.                   *)
OwnerMatchesStatus ==
  \A j \in Job : jobs[j].owner # NoWorker <=> jobs[j].status \in {"running", "succeeded"}

(***************************************************************************)
(* What no step does.                                                      *)
(***************************************************************************)

(* A task that outlives its lease cannot bring back a job that failed or   *)
(* was cancelled: those rows never change again.                           *)
FailedAndCancelledAreFinal ==
  [][\A j \in Job : jobs[j].status \in {"failed", "cancelled"} => jobs'[j] = jobs[j]]_vars

(* A succeeded job re-enters the queue only by the worker that completed   *)
(* it, whose _after_job raised or which still has a stale task on it: no   *)
(* other process can reopen it.                                            *)
SucceededReopenedByItsWorkerOnly ==
  [][\A j \in Job : jobs[j].status = "succeeded" /\ jobs'[j].status # "succeeded" =>
        \E s \in Slot : /\ Busy(jobs[j].owner, s) /\ slots[jobs[j].owner][s].job = j
                        /\ slots'[jobs[j].owner][s] = Idle]_vars

(* The rows that are settled stay so: the two together. *)
SettledRowsStay == FailedAndCancelledAreFinal /\ SucceededReopenedByItsWorkerOnly

(***************************************************************************)
(* Liveness.  A worker that is not Mortal keeps looping (claims and        *)
(* recovers), the task in a slot ends (calls and waits have timeouts), a   *)
(* delay ends, and a lease that no task renews runs out.                   *)
(***************************************************************************)
Abandoned(j) ==
  ~\E w \in Worker, s \in Slot : Working(w, s) /\ slots[w][s].job = j /\ slots[w][s].beat

TaskEnds(w, s) ==
  Succeed(w, s) \/ AfterJob(w, s) \/ Raise(w, s) \/ NoHandler(w, s) \/ RaiseDefer(w, s)

Fairness ==
  /\ \A w \in Worker \ Mortal :
       WF_vars(Recover(w)) /\ \A s \in Slot : WF_vars(ClaimNext(w, s))
  /\ \A w \in Worker, s \in Slot : WF_vars(TaskEnds(w, s))
  /\ \A j \in Job : WF_vars(BecomesReady(j)) /\ WF_vars(Abandoned(j) /\ LeaseExpires(j))

FairSpec == Spec /\ Fairness

Settled(j) == jobs[j].status \in {"succeeded", "failed", "cancelled"}

(* Whatever crashes, stalls or raises, a job in the queue is eventually    *)
(* finished or given up on for good (recover_expired, fail with retry), as *)
(* long as handlers do not defer for ever and one worker stays up.         *)
QueueDrains ==
  <>[][~Deferral]_vars => \A j \in Job : <>[](jobs[j].status = "absent" \/ Settled(j))
=============================================================================
