-------------------------------- MODULE Jobs --------------------------------
(***************************************************************************)
(* The durable job table of src/backend/eval_triage/execution/jobs.py, as  *)
(* constant operators on a table T \in [Job -> Row].  Every function of    *)
(* jobs.py runs in one BEGIN IMMEDIATE transaction, so each is one         *)
(* operator from the table before to the table after.                      *)
(*                                                                         *)
(* Time is abstracted to the two comparisons the code makes with it:       *)
(* "lease" is lease_expires_at >= now and "ready" is                       *)
(* next_available_at <= now.  Columns set at insertion and never changed   *)
(* are functions of the job.                                               *)
(***************************************************************************)
EXTENDS Naturals, FiniteSets

CONSTANTS
  Job,          (* identities of the rows that may ever be inserted          *)
  Worker,       (* worker ids                                                *)
  NoWorker,     (* lease_owner IS NULL                                       *)
  Key,          (* values of concurrency_key                                 *)
  KeyOf,        (* concurrency_key of each job                               *)
  LimitOf,      (* concurrency_limit of each job, jobs on a key may differ   *)
  RankOf,       (* place in the order (priority, created_at, id)             *)
  MaxAttempts,  (* max_attempts of each job                                  *)
  ScanLimit     (* rows one claim looks at: LIMIT 500                        *)

ASSUME JobsAssumption ==
  /\ IsFiniteSet(Job)
  /\ NoWorker \notin Worker
  /\ KeyOf \in [Job -> Key]
  /\ LimitOf \in [Job -> Nat \ {0}]
  /\ RankOf \in [Job -> Nat]
  /\ MaxAttempts \in [Job -> Nat \ {0}]
  /\ ScanLimit \in Nat \ {0}

(***************************************************************************)
(* A row of the table.  A row that has not been inserted is "absent".      *)
(***************************************************************************)
Row == [status   : {"absent", "queued", "running", "succeeded", "failed", "cancelled"},
        owner    : Worker \cup {NoWorker},
        lease    : BOOLEAN,
        attempts : Nat,
        ready    : BOOLEAN]

AbsentRow ==
  [status |-> "absent", owner |-> NoWorker, lease |-> FALSE, attempts |-> 0, ready |-> FALSE]

With(T, s) == {j \in Job : T[j].status = s}
Open(T)    == With(T, "queued") \cup With(T, "running")

(***************************************************************************)
(* enqueue, for all the jobs S one transaction inserts.                    *)
(***************************************************************************)
Enqueue(T, S) ==
  [j \in Job |-> IF j \in S THEN [AbsentRow EXCEPT !.status = "queued", !.ready = TRUE]
                            ELSE T[j]]

(***************************************************************************)
(* claim_next.  Of the first ScanLimit ready rows the claim takes the      *)
(* first whose key has fewer running jobs than the row's own limit.        *)
(***************************************************************************)
RunningOn(T, k) == {j \in With(T, "running") : KeyOf[j] = k}
Ready(T)        == {j \in With(T, "queued") : T[j].ready}
Scanned(T)      == {j \in Ready(T) : Cardinality({i \in Ready(T) : RankOf[i] < RankOf[j]}) < ScanLimit}
(* slip: off by one in the count *)
AdmittedOneTooMany(T) == {j \in Scanned(T) : Cardinality(RunningOn(T, KeyOf[j])) <= LimitOf[j]}

Admitted(T)     == {j \in Scanned(T) : Cardinality(RunningOn(T, KeyOf[j])) < LimitOf[j]}
Claimable(T)    == {j \in Admitted(T) : \A i \in Admitted(T) : RankOf[j] <= RankOf[i]}

Claim(T, j, w) ==
  [T EXCEPT ![j] = [status |-> "running", owner |-> w, lease |-> TRUE,
                    attempts |-> T[j].attempts + 1, ready |-> TRUE]]

(***************************************************************************)
(* heartbeat and complete require the row to be running and owned by the   *)
(* caller's worker id.                                                     *)
(***************************************************************************)
Holds(T, j, w) == T[j].status = "running" /\ T[j].owner = w

Heartbeat(T, j, w) == IF Holds(T, j, w) THEN [T EXCEPT ![j].lease = TRUE] ELSE T

Complete(T, j, w) ==
  IF Holds(T, j, w) THEN [T EXCEPT ![j].status = "succeeded", ![j].lease = FALSE] ELSE T

(* slip: the owner is not reset *)
RequeuedWithOwner(row, ready) == [row EXCEPT !.status = "queued", !.lease = FALSE, !.ready = ready]

(***************************************************************************)
(* fail and defer look at the owner only, not at the status.               *)
(***************************************************************************)
Requeued(row, ready) ==
  [row EXCEPT !.status = "queued", !.owner = NoWorker, !.lease = FALSE, !.ready = ready]

GivenUp(row) == [row EXCEPT !.status = "failed", !.owner = NoWorker, !.lease = FALSE]

(* slip: max_attempts is forgotten *)
FailForever(T, j, w, retry) ==
  IF T[j].owner # w THEN T
  ELSE [T EXCEPT ![j] = IF retry THEN Requeued(T[j], FALSE) ELSE GivenUp(T[j])]

Fail(T, j, w, retry) ==
  IF T[j].owner # w THEN T
  ELSE [T EXCEPT ![j] = IF retry /\ T[j].attempts < MaxAttempts[j]
                        THEN Requeued(T[j], FALSE) ELSE GivenUp(T[j])]

(* slip: a deferral gives back two attempts *)
DeferTwice(T, j, w) ==
  IF T[j].owner # w THEN T
  ELSE [T EXCEPT ![j] = [Requeued(T[j], FALSE) EXCEPT !.attempts = T[j].attempts - 2]]

Defer(T, j, w) ==
  IF T[j].owner # w THEN T
  ELSE [T EXCEPT ![j] = [Requeued(T[j], FALSE) EXCEPT
                           !.attempts = IF T[j].attempts = 0 THEN 0 ELSE T[j].attempts - 1]]

(***************************************************************************)
(* cancel_queued for the jobs S selected by run and kind, and              *)
(* recover_expired for every running row whose lease ran out.              *)
(***************************************************************************)
CancelQueued(T, S) ==
  [j \in Job |-> IF j \in S /\ T[j].status = "queued" THEN [T[j] EXCEPT !.status = "cancelled"]
                                                      ELSE T[j]]

(* slip: a row with an owner is taken for a running one *)
ExpiredOwned(T) == {j \in Job : T[j].owner # NoWorker /\ ~T[j].lease}

Expired(T) == {j \in With(T, "running") : ~T[j].lease}

(* slip: recovery never gives up *)
RecoverLeavesSpent(T) ==
  [j \in Job |-> IF j \in Expired(T) /\ T[j].attempts < MaxAttempts[j]
                 THEN Requeued(T[j], TRUE) ELSE T[j]]

RecoverExpired(T) ==
  [j \in Job |-> IF j \notin Expired(T) THEN T[j]
                 ELSE IF T[j].attempts < MaxAttempts[j] THEN Requeued(T[j], TRUE)
                 ELSE GivenUp(T[j])]
=============================================================================
