--------------------------- MODULE EvaluationRun ----------------------------
(***************************************************************************)
(* What a run promises to whoever started it, without jobs, leases,        *)
(* workers or graders: the lifecycle of docs/plan.md section 4 as          *)
(* execution/finalize.py, runs.py and trial_runner.py realise it.          *)
(*                                                                         *)
(*   - a trial settles once and its result never changes;                  *)
(*   - a run finishes only when every planned trial has settled, and then  *)
(*     nothing about it changes;                                           *)
(*   - a run that was asked to cancel ends cancelled, starts no trial      *)
(*     after the request, and keeps what had settled;                      *)
(*   - a run that was not ends completed only if no trial had a problem.   *)
(***************************************************************************)
CONSTANT Trial

VARIABLES status, cancel, trial

vars == <<status, cancel, trial>>

Problem  == {"provider_error", "timeout", "unsupported", "indeterminate", "skipped"}
Settled  == Problem \cup {"success", "invalid_output", "cancelled"}
Finished == {"completed", "completed_with_errors", "cancelled"}

Init == status = "absent" /\ cancel = FALSE /\ trial = [t \in Trial |-> "pending"]

Live == status \notin Finished \cup {"absent"}

Create ==
  /\ status = "absent" /\ status' = "queued"
  /\ UNCHANGED <<cancel, trial>>

Begin(t) ==
  /\ Live /\ ~cancel
  /\ trial[t] = "pending" /\ trial' = [trial EXCEPT ![t] = "running"]
  /\ status' = "running"
  /\ UNCHANGED cancel

(* Any number of trials settle, none of those settled before. *)
Settle(S) ==
  /\ Live
  /\ \A t \in S : trial[t] \notin Settled
  /\ \E result \in [S -> Settled] :
       trial' = [t \in Trial |-> IF t \in S THEN result[t] ELSE trial[t]]
  /\ UNCHANGED <<status, cancel>>

(* The verdict on a run whose trials are tr, grading aside. *)
Verdict(tr, cancelled) ==
  IF cancelled THEN {"cancelled"}
  ELSE IF \E t \in Trial : tr[t] \in Problem THEN {"completed_with_errors"}
  ELSE {"completed", "completed_with_errors"}

Finish ==
  /\ Live
  /\ \A t \in Trial : trial[t] \in Settled
  /\ status' \in Verdict(trial, cancel)
  /\ UNCHANGED <<cancel, trial>>

(* Trials that have not started are cancelled with the request; if that    *)
(* leaves nothing to wait for, the run may finish at once.                 *)
RequestCancel ==
  /\ Live
  /\ cancel' = TRUE
  /\ trial' = [t \in Trial |-> IF trial[t] = "pending" THEN "cancelled" ELSE trial[t]]
  /\ \/ status' = "cancelling"
     \/ (\A t \in Trial : trial'[t] \in Settled) /\ status' = "cancelled"

Next ==
  \/ Create \/ Finish \/ RequestCancel
  \/ \E t \in Trial : Begin(t)
  \/ \E S \in SUBSET Trial : Settle(S)

Spec == Init /\ [][Next]_vars
=============================================================================
