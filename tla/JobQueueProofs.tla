--------------------------- MODULE JobQueueProofs ---------------------------
(***************************************************************************)
(* Proofs about JobQueue, for any number of jobs, workers and slots.       *)
(*                                                                         *)
(* All but the concurrency limit is a property of single rows: RowOK is    *)
(* kept by each operator of jobs.py.  What makes it inductive is           *)
(* OwnerMatchesStatus, since fail and defer test only the owner.  A step   *)
(* that is not a claim starts no job ("Tame"), so the limit can only be    *)
(* passed by a claim, which counts.                                        *)
(***************************************************************************)
EXTENDS JobQueue, FiniteSetTheorems, TLAPS

(***************************************************************************)
(* The inductive invariant.                                                *)
(***************************************************************************)
RowOK(j, r) ==
  /\ r \in Row
  /\ r.owner # NoWorker <=> r.status \in {"running", "succeeded"}
  /\ r.attempts <= MaxAttempts[j]
  /\ r.status = "queued" => r.attempts < MaxAttempts[j]
  /\ j \in Handled /\ r.status = "failed" => r.attempts = MaxAttempts[j]

TableOK(T) == T \in [Job -> Row] /\ \A j \in Job : RowOK(j, T[j])

SlotsOK == slots \in [Worker -> [Slot -> Task \cup {Idle}]]

IInv == TableOK(jobs) /\ SlotsOK /\ ConcurrencyRespected

(* A change of the table that starts no job and leaves what failed or was  *)
(* cancelled as it is.                                                     *)
Final(T, U) == \A j \in Job : T[j].status \in {"failed", "cancelled"} => U[j] = T[j]

Tame(T, U) ==
  /\ TableOK(U)
  /\ \A j \in Job : U[j].status = "running" => T[j].status = "running"
  /\ Final(T, U)

(***************************************************************************)
(* Rows.                                                                   *)
(***************************************************************************)
LEMMA RequeuedOK ==
  ASSUME NEW j \in Job, NEW r, RowOK(j, r), r.attempts < MaxAttempts[j], NEW b \in BOOLEAN
  PROVE  RowOK(j, Requeued(r, b)) /\ Requeued(r, b).status = "queued"
  BY DEF RowOK, Requeued, Row

LEMMA GivenUpOK ==
  ASSUME NEW j \in Job, NEW r, RowOK(j, r), j \in Handled => r.attempts = MaxAttempts[j]
  PROVE  RowOK(j, GivenUp(r)) /\ GivenUp(r).status = "failed"
  BY DEF RowOK, GivenUp, Row

(* One row changes: enough to look at that row. *)
Update(T, j, r) == [T EXCEPT ![j] = r]

LEMMA OneRow ==
  ASSUME NEW T, TableOK(T), NEW j \in Job, NEW r, RowOK(j, r),
         r.status = "running" => T[j].status = "running",
         T[j].status \in {"failed", "cancelled"} => r = T[j]
  PROVE  Tame(T, Update(T, j, r))
  BY DEF Update, Tame, Final, TableOK, RowOK

LEMMA NoRow ==
  ASSUME NEW T, TableOK(T)
  PROVE  Tame(T, T)
  BY DEF Tame, Final

(***************************************************************************)
(* The operations of jobs.py.                                              *)
(***************************************************************************)
LEMMA EnqueueTame ==
  ASSUME NEW T, TableOK(T), NEW S \in SUBSET With(T, "absent")
  PROVE  Tame(T, Enqueue(T, S))
<1> DEFINE U == Enqueue(T, S)
           r == [AbsentRow EXCEPT !.status = "queued", !.ready = TRUE]
<1>1. r \in Row /\ r.status = "queued" /\ r.owner = NoWorker /\ r.attempts = 0
  BY DEF Row, AbsentRow
<1>2. \A j \in Job : RowOK(j, r)
  BY <1>1, JobsAssumption DEF RowOK
<1>3. U \in [Job -> Row] /\ \A j \in Job : U[j] = IF j \in S THEN r ELSE T[j]
  BY <1>1 DEF TableOK, Enqueue
<1>4. \A j \in S : T[j].status = "absent"
  BY DEF With
<1> HIDE DEF U, r
<1> QED BY <1>1, <1>2, <1>3, <1>4 DEF Tame, Final, TableOK, U

LEMMA HeartbeatTame ==
  ASSUME NEW T, TableOK(T), NEW j \in Job, NEW w \in Worker
  PROVE  Tame(T, Heartbeat(T, j, w))
<1>1. CASE ~Holds(T, j, w)
  BY <1>1, NoRow DEF Heartbeat
<1>2. CASE Holds(T, j, w)
  <2> DEFINE r == [T[j] EXCEPT !.lease = TRUE]
  <2>1. RowOK(j, r) /\ r.status = "running"
    BY <1>2 DEF TableOK, RowOK, Row, Holds
  <2>2. Heartbeat(T, j, w) = Update(T, j, r)
    BY <1>2 DEF Update, Heartbeat
  <2> HIDE DEF r
  <2> QED BY <1>2, <2>1, <2>2, OneRow DEF Holds
<1> QED BY <1>1, <1>2

LEMMA CompleteTame ==
  ASSUME NEW T, TableOK(T), NEW j \in Job, NEW w \in Worker
  PROVE  Tame(T, Complete(T, j, w))
<1>1. CASE ~Holds(T, j, w)
  BY <1>1, NoRow DEF Complete
<1>2. CASE Holds(T, j, w)
  <2> DEFINE r == [T[j] EXCEPT !.status = "succeeded", !.lease = FALSE]
  <2>1. RowOK(j, r) /\ r.status = "succeeded"
    BY <1>2 DEF TableOK, RowOK, Row, Holds
  <2>2. Complete(T, j, w) = Update(T, j, r)
    BY <1>2 DEF Update, Complete, TableOK
  <2> HIDE DEF r
  <2> QED BY <1>2, <2>1, <2>2, OneRow DEF Holds
<1> QED BY <1>1, <1>2

(* A row that has an owner is neither failed nor cancelled. *)
LEMMA OwnedRow ==
  ASSUME NEW T, TableOK(T), NEW j \in Job, NEW w \in Worker, T[j].owner = w
  PROVE  RowOK(j, T[j]) /\ T[j].status \in {"running", "succeeded"}
  BY JobsAssumption DEF TableOK, RowOK

LEMMA FailTame ==
  ASSUME NEW T, TableOK(T), NEW j \in Job, NEW w \in Worker, NEW retry \in BOOLEAN,
         retry \/ j \notin Handled
  PROVE  Tame(T, Fail(T, j, w, retry))
<1>1. CASE T[j].owner # w
  BY <1>1, NoRow DEF Fail
<1>2. CASE T[j].owner = w
  <2>1. RowOK(j, T[j]) /\ T[j].status \in {"running", "succeeded"}
    BY <1>2, OwnedRow
  <2>2. CASE retry /\ T[j].attempts < MaxAttempts[j]
    <3>1. RowOK(j, Requeued(T[j], FALSE)) /\ Requeued(T[j], FALSE).status = "queued"
      BY <2>1, <2>2, RequeuedOK
    <3>2. Fail(T, j, w, retry) = Update(T, j, Requeued(T[j], FALSE))
      BY <1>2, <2>2 DEF Update, Fail
    <3> QED BY <2>1, <3>1, <3>2, OneRow
  <2>3. CASE ~(retry /\ T[j].attempts < MaxAttempts[j])
    <3>1. j \in Handled => T[j].attempts = MaxAttempts[j]
      BY <2>1, <2>3, JobsAssumption DEF RowOK, Row
    <3>2. RowOK(j, GivenUp(T[j])) /\ GivenUp(T[j]).status = "failed"
      BY <2>1, <3>1, GivenUpOK
    <3>3. Fail(T, j, w, retry) = Update(T, j, GivenUp(T[j]))
      BY <1>2, <2>3 DEF Update, Fail
    <3> QED BY <2>1, <3>2, <3>3, OneRow
  <2> QED BY <2>2, <2>3
<1> QED BY <1>1, <1>2

LEMMA DeferTame ==
  ASSUME NEW T, TableOK(T), NEW j \in Job, NEW w \in Worker
  PROVE  Tame(T, Defer(T, j, w))
<1>1. CASE T[j].owner # w
  BY <1>1, NoRow DEF Defer
<1>2. CASE T[j].owner = w
  <2> DEFINE n == IF T[j].attempts = 0 THEN 0 ELSE T[j].attempts - 1
             r == [Requeued(T[j], FALSE) EXCEPT !.attempts = n]
  <2>1. RowOK(j, T[j]) /\ T[j].status \in {"running", "succeeded"}
    BY <1>2, OwnedRow
  <2>2. n \in Nat /\ n < MaxAttempts[j]
    BY <2>1, JobsAssumption DEF RowOK, Row
  <2>3. Defer(T, j, w) = Update(T, j, r)
    BY <1>2 DEF Update, Defer
  <2> HIDE DEF n
  <2>4. r \in Row /\ r.status = "queued" /\ r.owner = NoWorker /\ r.attempts = n
    BY <2>1, <2>2 DEF RowOK, Requeued, Row
  <2> HIDE DEF r
  <2>5. RowOK(j, r)
    BY <2>2, <2>4, JobsAssumption DEF RowOK
  <2> QED BY <2>1, <2>3, <2>4, <2>5, OneRow
<1> QED BY <1>1, <1>2

LEMMA CancelQueuedTame ==
  ASSUME NEW T, TableOK(T), NEW S
  PROVE  Tame(T, CancelQueued(T, S))
<1> DEFINE U == CancelQueued(T, S)
<1> SUFFICES ASSUME NEW j \in Job
             PROVE  /\ RowOK(j, U[j])
                    /\ U[j].status = "running" => T[j].status = "running"
                    /\ T[j].status \in {"failed", "cancelled"} => U[j] = T[j]
  <2>1. U = [j \in Job |-> U[j]]
    BY DEF CancelQueued
  <2>2. \A j \in Job : RowOK(j, U[j]) => U[j] \in Row
    BY DEF RowOK
  <2> HIDE DEF U
  <2> QED BY <2>1, <2>2 DEF Tame, Final, TableOK, U
<1>1. RowOK(j, T[j])
  BY DEF TableOK
<1>2. CASE j \in S /\ T[j].status = "queued"
  <2>1. U[j] = [T[j] EXCEPT !.status = "cancelled"]
    BY <1>2 DEF CancelQueued
  <2> QED BY <1>1, <1>2, <2>1 DEF RowOK, Row
<1>3. CASE ~(j \in S /\ T[j].status = "queued")
  BY <1>1, <1>3 DEF CancelQueued
<1> QED BY <1>2, <1>3

LEMMA RecoverExpiredTame ==
  ASSUME NEW T, TableOK(T)
  PROVE  Tame(T, RecoverExpired(T))
<1> DEFINE U == RecoverExpired(T)
<1> SUFFICES ASSUME NEW j \in Job
             PROVE  /\ RowOK(j, U[j])
                    /\ U[j].status = "running" => T[j].status = "running"
                    /\ T[j].status \in {"failed", "cancelled"} => U[j] = T[j]
  <2>1. U = [j \in Job |-> U[j]]
    BY DEF RecoverExpired
  <2>2. \A j \in Job : RowOK(j, U[j]) => U[j] \in Row
    BY DEF RowOK
  <2> HIDE DEF U
  <2> QED BY <2>1, <2>2 DEF Tame, Final, TableOK, U
<1>1. RowOK(j, T[j])
  BY DEF TableOK
<1>2. CASE j \notin Expired(T)
  BY <1>1, <1>2 DEF RecoverExpired
<1>3. CASE j \in Expired(T) /\ T[j].attempts < MaxAttempts[j]
  <2>1. U[j] = Requeued(T[j], TRUE) /\ T[j].status = "running"
    BY <1>3 DEF RecoverExpired, Expired, With
  <2> QED BY <1>1, <1>3, <2>1, RequeuedOK
<1>4. CASE j \in Expired(T) /\ ~(T[j].attempts < MaxAttempts[j])
  <2>1. U[j] = GivenUp(T[j]) /\ T[j].status = "running"
    BY <1>4 DEF RecoverExpired, Expired, With
  <2>2. T[j].attempts = MaxAttempts[j]
    BY <1>1, <1>4, JobsAssumption DEF RowOK, Row
  <2> QED BY <1>1, <2>1, <2>2, GivenUpOK
<1> QED BY <1>2, <1>3, <1>4

(***************************************************************************)
(* A claim.                                                                *)
(***************************************************************************)
LEMMA ClaimableIsQueued ==
  ASSUME NEW T, NEW j \in Claimable(T)
  PROVE  /\ j \in Job /\ T[j].status = "queued"
         /\ Cardinality(RunningOn(T, KeyOf[j])) < LimitOf[j]
  BY DEF Claimable, Admitted, Scanned, Ready, With

LEMMA ClaimOK ==
  ASSUME NEW T, TableOK(T), NEW j \in Claimable(T), NEW w \in Worker
  PROVE  /\ TableOK(Claim(T, j, w)) /\ Final(T, Claim(T, j, w))
         /\ \A i \in Job : Claim(T, j, w)[i].status = "running" => i = j \/ T[i].status = "running"
<1> DEFINE r == [status |-> "running", owner |-> w, lease |-> TRUE,
                 attempts |-> T[j].attempts + 1, ready |-> TRUE]
<1>1. j \in Job /\ T[j].status = "queued"
  BY ClaimableIsQueued
<1>2. RowOK(j, T[j])
  BY <1>1 DEF TableOK
<1>3. r \in Row /\ r.status = "running" /\ r.owner = w /\ r.attempts = T[j].attempts + 1
  BY <1>2 DEF RowOK, Row
<1>4. Claim(T, j, w) = [T EXCEPT ![j] = r]
  BY DEF Claim
<1> HIDE DEF r
<1>5. RowOK(j, r)
  BY <1>1, <1>2, <1>3, JobsAssumption DEF RowOK, Row
<1> QED BY <1>1, <1>3, <1>4, <1>5 DEF TableOK, Final

(***************************************************************************)
(* The concurrency limit.  Jobs that run together on a key after a claim   *)
(* of j either ran together before it, or are j and jobs that ran before,  *)
(* no more than what j itself allows.                                      *)
(***************************************************************************)
LEMMA RunningFinite ==
  ASSUME NEW T, NEW k
  PROVE  IsFiniteSet(RunningOn(T, k)) /\ RunningOn(T, k) \subseteq Job
<1>1. RunningOn(T, k) \subseteq Job
  BY DEF RunningOn, With
<1> QED BY <1>1, FS_Subset, JobsAssumption

LEMMA TameKeepsLimit ==
  ASSUME ConcurrencyRespected, Tame(jobs, jobs')
  PROVE  ConcurrencyRespected'
<1>1. \A k \in Key : RunningOn(jobs', k) \subseteq RunningOn(jobs, k)
  BY DEF Tame, RunningOn, With
<1> QED BY <1>1 DEF ConcurrencyRespected

LEMMA ClaimKeepsLimit ==
  ASSUME ConcurrencyRespected, NEW j \in Claimable(jobs),
         \A i \in Job : jobs'[i].status = "running" => i = j \/ jobs[i].status = "running"
  PROVE  ConcurrencyRespected'
<1> SUFFICES ASSUME NEW k \in Key, NEW S \in SUBSET RunningOn(jobs', k), S # {}
             PROVE  \E i \in S : Cardinality(S) <= LimitOf[i]
  BY DEF ConcurrencyRespected
<1>1. /\ j \in Job /\ jobs[j].status = "queued"
      /\ Cardinality(RunningOn(jobs, KeyOf[j])) < LimitOf[j]
  BY ClaimableIsQueued
<1>2. S \ {j} \subseteq RunningOn(jobs, k)
  BY DEF RunningOn, With
<1>3. CASE j \notin S
  BY <1>2, <1>3 DEF ConcurrencyRespected
<1>4. CASE j \in S
  <2>1. k = KeyOf[j]
    BY <1>4 DEF RunningOn
  <2>2. IsFiniteSet(RunningOn(jobs, k)) /\ IsFiniteSet(S \ {j})
    BY <1>2, RunningFinite, FS_Subset
  <2>3. /\ Cardinality(S \ {j}) <= Cardinality(RunningOn(jobs, k))
        /\ Cardinality(S \ {j}) \in Nat /\ Cardinality(RunningOn(jobs, k)) \in Nat
    BY <1>2, <2>2, FS_Subset, FS_CardinalityType
  <2>4. Cardinality(S) = Cardinality(S \ {j}) + 1
    <3>1. (S \ {j}) \cup {j} = S
      BY <1>4
    <3> QED BY <2>2, <3>1, FS_AddElement
  <2>5. LimitOf[j] \in Nat
    BY <1>1, JobsAssumption
  <2> QED BY <1>1, <1>4, <2>1, <2>3, <2>4, <2>5
<1> QED BY <1>3, <1>4

(***************************************************************************)
(* What each step does to the table.                                       *)
(***************************************************************************)
LEMMA TaskJob ==
  ASSUME SlotsOK, NEW w \in Worker, NEW s \in Slot, Busy(w, s)
  PROVE  slots[w][s].job \in Job
  BY DEF SlotsOK, Busy, Task, Idle

LEMMA AtWorkIsBusy ==
  ASSUME NEW w, NEW s, Working(w, s) \/ InAfter(w, s)
  PROVE  Busy(w, s)
<1>1. Idle.phase = "idle"
  BY DEF Idle
<1> QED BY <1>1 DEF Busy, Working, InAfter

LEMMA NextOnTable ==
  ASSUME TableOK(jobs), SlotsOK, Next
  PROVE  \/ Tame(jobs, jobs')
         \/ \E w \in Worker : \E j \in Claimable(jobs) : jobs' = Claim(jobs, j, w)
<1>1. CASE \E S \in SUBSET Job : EnqueueJobs(S)
  BY <1>1, EnqueueTame DEF EnqueueJobs
<1>2. CASE \E S \in CancelGroups : CancelJobs(S)
  BY <1>2, CancelQueuedTame DEF CancelJobs
<1>3. ASSUME NEW j \in Job, LeaseExpires(j)
      PROVE  Tame(jobs, jobs')
  <2> DEFINE r == [jobs[j] EXCEPT !.lease = FALSE]
  <2>1. RowOK(j, r) /\ r.status = "running" /\ jobs[j].status = "running"
    BY <1>3 DEF LeaseExpires, TableOK, RowOK, Row
  <2>2. jobs' = Update(jobs, j, r)
    BY <1>3 DEF LeaseExpires, Update
  <2> HIDE DEF r
  <2> QED BY <2>1, <2>2, OneRow
<1>4. ASSUME NEW j \in Job, BecomesReady(j)
      PROVE  Tame(jobs, jobs')
  <2> DEFINE r == [jobs[j] EXCEPT !.ready = TRUE]
  <2>1. RowOK(j, r) /\ r.status = "queued" /\ jobs[j].status = "queued"
    BY <1>4 DEF BecomesReady, TableOK, RowOK, Row
  <2>2. jobs' = Update(jobs, j, r)
    BY <1>4 DEF BecomesReady, Update
  <2> HIDE DEF r
  <2> QED BY <2>1, <2>2, OneRow
<1>5. ASSUME NEW w \in Worker, Recover(w) \/ Crash(w)
      PROVE  Tame(jobs, jobs')
  BY <1>5, RecoverExpiredTame, NoRow DEF Recover, Crash
<1>6. ASSUME NEW w \in Worker, NEW s \in Slot, Busy(w, s),
             Beat(w, s) \/ Succeed(w, s) \/ AfterJob(w, s) \/ Raise(w, s)
               \/ NoHandler(w, s) \/ RaiseDefer(w, s) \/ OutcomeLost(w, s)
      PROVE  Tame(jobs, jobs')
  <2>1. slots[w][s].job \in Job
    BY <1>6, TaskJob
  <2>2. CASE Beat(w, s)
    BY <2>1, <2>2, HeartbeatTame DEF Beat
  <2>3. CASE Succeed(w, s)
    BY <2>1, <2>3, CompleteTame DEF Succeed
  <2>4. CASE AfterJob(w, s) \/ OutcomeLost(w, s)
    BY <2>4, NoRow DEF AfterJob, OutcomeLost
  <2>5. CASE Raise(w, s)
    BY <2>1, <2>5, FailTame DEF Raise
  <2>6. CASE NoHandler(w, s)
    BY <2>1, <2>6, FailTame DEF NoHandler
  <2>7. CASE RaiseDefer(w, s)
    BY <2>1, <2>7, DeferTame DEF RaiseDefer
  <2> QED BY <1>6, <2>2, <2>3, <2>4, <2>5, <2>6, <2>7
<1>7. ASSUME NEW w \in Worker, NEW s \in Slot, ClaimNext(w, s)
      PROVE  \E j \in Claimable(jobs) : jobs' = Claim(jobs, j, w)
  BY <1>7 DEF ClaimNext
<1>8. \A w \in Worker, s \in Slot :
        Beat(w, s) \/ Succeed(w, s) \/ AfterJob(w, s) \/ Raise(w, s)
          \/ NoHandler(w, s) \/ RaiseDefer(w, s) \/ OutcomeLost(w, s) => Busy(w, s)
  BY AtWorkIsBusy DEF Beat, Succeed, AfterJob, Raise, NoHandler, RaiseDefer, OutcomeLost
<1> QED BY <1>1, <1>2, <1>3, <1>4, <1>5, <1>6, <1>7, <1>8 DEF Next, WorkerStep

(***************************************************************************)
(* What each step does to the slots.                                       *)
(***************************************************************************)
LEMMA PutOK ==
  ASSUME SlotsOK, NEW w \in Worker, NEW s \in Slot, NEW task \in Task \cup {Idle}, Put(w, s, task)
  PROVE  SlotsOK'
  BY DEF SlotsOK, Put

LEMMA WorkingOK == \A j \in Job, b \in BOOLEAN : [phase |-> "working", job |-> j, beat |-> b] \in Task
  BY DEF Task

LEMMA NextOnSlots ==
  ASSUME TableOK(jobs), SlotsOK, [Next]_vars
  PROVE  SlotsOK'
<1>1. CASE UNCHANGED slots
  BY <1>1 DEF SlotsOK
<1>2. ASSUME NEW w \in Worker, Crash(w)
      PROVE  SlotsOK'
  BY <1>2 DEF Crash, SlotsOK
<1>3. ASSUME NEW w \in Worker, NEW s \in Slot, ClaimNext(w, s)
      PROVE  SlotsOK'
  <2>1. PICK j \in Claimable(jobs) : Put(w, s, [phase |-> "working", job |-> j, beat |-> TRUE])
    BY <1>3 DEF ClaimNext
  <2>2. [phase |-> "working", job |-> j, beat |-> TRUE] \in Task
    BY ClaimableIsQueued, WorkingOK
  <2> QED BY <2>1, <2>2, PutOK
<1>4. ASSUME NEW w \in Worker, NEW s \in Slot, Beat(w, s)
      PROVE  SlotsOK'
  <2> DEFINE b == Holds(jobs, slots[w][s].job, w)
             task == [slots[w][s] EXCEPT !.beat = b]
  <2>1. slots[w][s] \in [phase : {"working"}, job : Job, beat : BOOLEAN]
    BY <1>4 DEF Beat, Working, SlotsOK, Task, Idle
  <2>2. b \in BOOLEAN
    BY DEF Holds
  <2>3. slots' = [slots EXCEPT ![w] = [slots[w] EXCEPT ![s] = task]]
    BY <1>4 DEF Beat
  <2> HIDE DEF b
  <2>4. task \in Task
    BY <2>1, <2>2 DEF Task
  <2> HIDE DEF task
  <2> QED BY <2>3, <2>4 DEF SlotsOK
<1>5. ASSUME NEW w \in Worker, NEW s \in Slot, Succeed(w, s)
      PROVE  SlotsOK'
  <2>1. slots[w][s].job \in Job
    BY <1>5, TaskJob, AtWorkIsBusy DEF Succeed
  <2>2. [phase |-> "after", job |-> slots[w][s].job] \in Task
    BY <2>1 DEF Task
  <2>3. Put(w, s, Idle) \/ Put(w, s, [phase |-> "after", job |-> slots[w][s].job])
    BY <1>5 DEF Succeed, Free
  <2> QED BY <2>2, <2>3, PutOK
<1>6. ASSUME NEW w \in Worker, NEW s \in Slot,
             AfterJob(w, s) \/ Raise(w, s) \/ NoHandler(w, s) \/ RaiseDefer(w, s) \/ OutcomeLost(w, s)
      PROVE  SlotsOK'
  <2>1. Put(w, s, Idle)
    BY <1>6 DEF AfterJob, Raise, NoHandler, RaiseDefer, OutcomeLost, Free
  <2> QED BY <2>1, PutOK
<1> QED BY <1>1, <1>2, <1>3, <1>4, <1>5, <1>6
        DEF Next, WorkerStep, vars, EnqueueJobs, CancelJobs, LeaseExpires, BecomesReady, Recover

(***************************************************************************)
(* The invariant, and what follows from it.                                *)
(***************************************************************************)
LEMMA InitInvariant == Init => IInv
<1> SUFFICES ASSUME Init PROVE IInv
  OBVIOUS
<1>1. TableOK(jobs)
  BY JobsAssumption DEF Init, TableOK, RowOK, Row, AbsentRow
<1>2. SlotsOK
  BY DEF Init, SlotsOK
<1>3. \A k \in Key : RunningOn(jobs, k) = {}
  BY DEF Init, RunningOn, With, AbsentRow
<1> QED BY <1>1, <1>2, <1>3 DEF IInv, ConcurrencyRespected

(* A step keeps the invariant and what failed or was cancelled. *)
LEMMA StepInvariant == IInv /\ [Next]_vars => IInv' /\ Final(jobs, jobs')
<1> SUFFICES ASSUME IInv, [Next]_vars PROVE IInv' /\ Final(jobs, jobs')
  OBVIOUS
<1>1. TableOK(jobs) /\ SlotsOK /\ ConcurrencyRespected
  BY DEF IInv
<1>2. SlotsOK'
  BY <1>1, NextOnSlots
<1>3. CASE Tame(jobs, jobs')
  <2>1. TableOK(jobs)' /\ Final(jobs, jobs')
    BY <1>3 DEF Tame, TableOK
  <2> QED BY <1>1, <1>2, <1>3, <2>1, TameKeepsLimit DEF IInv
<1>4. CASE \E w \in Worker : \E j \in Claimable(jobs) : jobs' = Claim(jobs, j, w)
  <2>1. PICK w \in Worker, j \in Claimable(jobs) : jobs' = Claim(jobs, j, w)
    BY <1>4
  <2>2. /\ TableOK(jobs') /\ Final(jobs, jobs')
        /\ \A i \in Job : jobs'[i].status = "running" => i = j \/ jobs[i].status = "running"
    BY <1>1, <2>1, ClaimOK
  <2>3. ConcurrencyRespected'
    BY <1>1, <2>2, ClaimKeepsLimit
  <2> QED BY <1>2, <2>2, <2>3 DEF IInv, TableOK
<1>5. CASE UNCHANGED vars
  BY <1>1, <1>5, NoRow, <1>3 DEF vars
<1> QED BY <1>1, <1>3, <1>4, <1>5, NextOnTable

THEOREM Invariance == Spec => []IInv
  BY InitInvariant, StepInvariant, PTL DEF Spec

(* Types, for any number of jobs, workers and slots. *)
THEOREM TypeCorrect == Spec => []TypeOK
<1>1. IInv => TypeOK
  BY DEF IInv, TableOK, SlotsOK, TypeOK
<1> QED BY <1>1, Invariance, PTL

(* claim_next never runs more jobs of a key than one of them allows, for   *)
(* any mix of limits on the key (jobs.py 44-46).                           *)
THEOREM ConcurrencyIsRespected == Spec => []ConcurrencyRespected
<1>1. IInv => ConcurrencyRespected
  BY DEF IInv
<1> QED BY <1>1, Invariance, PTL

(* No order of retries, deferrals and recoveries exceeds max_attempts or   *)
(* leaves a job waiting that has none left (jobs.py 89, 105, 137), and a   *)
(* job with a handler fails for good only when its attempts are spent.     *)
THEOREM AttemptsStayWithinBudget == Spec => []AttemptsWithinBudget
<1>1. IInv => AttemptsWithinBudget
  BY QueueAssumption DEF IInv, TableOK, RowOK, AttemptsWithinBudget
<1> QED BY <1>1, Invariance, PTL

(* Exactly the running and the succeeded rows have an owner, which is what *)
(* makes the owner test of fail and defer enough for all other rows.       *)
THEOREM OwnersMatch == Spec => []OwnerMatchesStatus
<1>1. IInv => OwnerMatchesStatus
  BY DEF IInv, TableOK, RowOK, OwnerMatchesStatus
<1> QED BY <1>1, Invariance, PTL

(* A failed or cancelled job never changes again: no stale task of any     *)
(* worker brings it back.                                                  *)
THEOREM FailedAndCancelledStay == Spec => FailedAndCancelledAreFinal
<1>1. IInv /\ [Next]_vars =>
        [\A j \in Job : jobs[j].status \in {"failed", "cancelled"} => jobs'[j] = jobs[j]]_vars
  BY StepInvariant DEF Final
<1> QED BY <1>1, Invariance, PTL DEF Spec, FailedAndCancelledAreFinal

(***************************************************************************)
(* Who reopens a succeeded job.                                            *)
(***************************************************************************)
Reopened(j) == jobs[j].status = "succeeded" /\ jobs'[j].status # "succeeded"

(* Of a table's rows, fail and defer write one, and only for its owner. *)
LEMMA OutcomeWritesOwnRow ==
  ASSUME NEW T, TableOK(T), NEW i \in Job, NEW j \in Job, NEW w \in Worker, NEW retry,
         Fail(T, i, w, retry)[j] # T[j] \/ Defer(T, i, w)[j] # T[j]
  PROVE  i = j /\ T[j].owner = w
  BY DEF Fail, Defer, TableOK

(* The other operations leave a succeeded row alone. *)
LEMMA OthersKeepSucceeded ==
  ASSUME NEW T, TableOK(T), NEW j \in Job, T[j].status = "succeeded"
  PROVE  /\ \A S \in SUBSET With(T, "absent") : Enqueue(T, S)[j] = T[j]
         /\ \A S : CancelQueued(T, S)[j] = T[j]
         /\ RecoverExpired(T)[j] = T[j]
         /\ \A i \in Job, w \in Worker :
              Heartbeat(T, i, w)[j] = T[j] /\ Complete(T, i, w)[j] = T[j]
         /\ \A i \in Claimable(T), w \in Worker : Claim(T, i, w)[j] = T[j]
<1>1. \A S \in SUBSET With(T, "absent") : Enqueue(T, S)[j] = T[j]
  BY DEF Enqueue, With
<1>2. \A S : CancelQueued(T, S)[j] = T[j]
  BY DEF CancelQueued
<1>3. RecoverExpired(T)[j] = T[j]
  BY DEF RecoverExpired, Expired, With
<1>4. \A i \in Job, w \in Worker : Heartbeat(T, i, w)[j] = T[j] /\ Complete(T, i, w)[j] = T[j]
  BY DEF Heartbeat, Complete, Holds, TableOK
<1>5. \A i \in Claimable(T), w \in Worker : Claim(T, i, w)[j] = T[j]
  BY ClaimableIsQueued DEF Claim, TableOK
<1> QED BY <1>1, <1>2, <1>3, <1>4, <1>5

LEMMA StepReopens ==
  ASSUME TableOK(jobs), SlotsOK, Next, NEW j \in Job, Reopened(j)
  PROVE  \E s \in Slot : /\ Busy(jobs[j].owner, s) /\ slots[jobs[j].owner][s].job = j
                         /\ slots'[jobs[j].owner][s] = Idle
<1> DEFINE Ended(w, s) == Busy(w, s) /\ slots[w][s].job = j /\ slots'[w][s] = Idle
<1>1. /\ \A S \in SUBSET With(jobs, "absent") : jobs' # Enqueue(jobs, S)
      /\ \A S : jobs' # CancelQueued(jobs, S)
      /\ jobs' # RecoverExpired(jobs)
      /\ \A i \in Job, w \in Worker : jobs' # Heartbeat(jobs, i, w) /\ jobs' # Complete(jobs, i, w)
      /\ \A i \in Claimable(jobs), w \in Worker : jobs' # Claim(jobs, i, w)
      /\ jobs' # jobs
  BY OthersKeepSucceeded DEF Reopened
<1>2. ASSUME NEW i \in Job, LeaseExpires(i) \/ BecomesReady(i)
      PROVE  FALSE
  BY <1>2 DEF LeaseExpires, BecomesReady, Reopened, TableOK
<1>3. ASSUME NEW w \in Worker, NEW s \in Slot, Raise(w, s) \/ NoHandler(w, s) \/ RaiseDefer(w, s)
      PROVE  jobs[j].owner = w /\ Ended(w, s)
  <2>1. Busy(w, s) /\ Put(w, s, Idle)
    BY <1>3, AtWorkIsBusy DEF Raise, NoHandler, RaiseDefer, Free
  <2>2. slots[w][s].job \in Job
    BY <2>1, TaskJob
  <2>3. PICK retry \in BOOLEAN : \/ jobs' = Fail(jobs, slots[w][s].job, w, retry)
                                 \/ jobs' = Defer(jobs, slots[w][s].job, w)
    BY <1>3 DEF Raise, NoHandler, RaiseDefer
  <2>4. jobs[j].owner = w /\ slots[w][s].job = j
    BY <2>2, <2>3, OutcomeWritesOwnRow DEF Reopened
  <2>5. slots'[w][s] = Idle
    BY <2>1 DEF Put, SlotsOK
  <2> QED BY <2>1, <2>4, <2>5
<1>4. ASSUME NEW w \in Worker, NEW s \in Slot, Beat(w, s) \/ Succeed(w, s)
      PROVE  FALSE
  <2>1. slots[w][s].job \in Job
    BY <1>4, TaskJob, AtWorkIsBusy DEF Beat, Succeed
  <2> QED BY <1>1, <1>4, <2>1 DEF Beat, Succeed
<1>5. \E w \in Worker, s \in Slot : jobs[j].owner = w /\ Ended(w, s)
  BY <1>1, <1>2, <1>3, <1>4
     DEF Next, WorkerStep, EnqueueJobs, CancelJobs, Recover, Crash, ClaimNext, AfterJob, OutcomeLost
<1> QED BY <1>5

(* A succeeded job is reopened only as a task on it ends in the process    *)
(* whose worker id completed it; no other process can.                     *)
THEOREM ReopenedByItsWorker == Spec => SucceededReopenedByItsWorkerOnly
<1>1. IInv /\ [Next]_vars =>
        [\A j \in Job : jobs[j].status = "succeeded" /\ jobs'[j].status # "succeeded" =>
           \E s \in Slot : /\ Busy(jobs[j].owner, s) /\ slots[jobs[j].owner][s].job = j
                           /\ slots'[jobs[j].owner][s] = Idle]_vars
  BY StepReopens DEF IInv, Reopened
<1> QED BY <1>1, Invariance, PTL DEF Spec, SucceededReopenedByItsWorkerOnly

(* Whatever failed, was cancelled or succeeded stays so, but for what the  *)
(* completing worker itself does to a job it completed.                    *)
THEOREM SettledRowsAreKept == Spec => SettledRowsStay
  BY FailedAndCancelledStay, ReopenedByItsWorker DEF SettledRowsStay
=============================================================================
