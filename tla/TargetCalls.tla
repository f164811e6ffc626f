---------------------------- MODULE TargetCalls -----------------------------
(***************************************************************************)
(* One call of a provider with its transport retries: call_target          *)
(* (execution/executors.py) inside with_transport_retries                  *)
(* (execution/retry.py).  A reply is what adapter.execute returns, or what *)
(* call_target makes of a timeout; every one is handed to on_attempt.      *)
(*                                                                         *)
(* The call under way is "call"; "calls" is the list on_attempt builds.    *)
(***************************************************************************)
EXTENDS Naturals, Sequences

CONSTANT MaxRetries       (* execution.max_transport_retries, at most 2     *)

ASSUME RetriesAssumption == MaxRetries \in Nat

VARIABLES
  call,        (* the call being tried, or NoCall                           *)
  calls        (* every reply so far: stage, index of the try, reply        *)

NoCall == [open |-> FALSE]

Failures ==
  {[status |-> "provider_error", retryable |-> TRUE,  tools |-> <<>>],
   [status |-> "provider_error", retryable |-> FALSE, tools |-> <<>>],
   [status |-> "timeout",        retryable |-> TRUE,  tools |-> <<>>],
   [status |-> "unsupported",    retryable |-> FALSE, tools |-> <<>>]}

Success(tools) == [status |-> "success", retryable |-> FALSE, tools |-> tools]

(* slip: "A low-quality answer is never retried", but any failure is *)
RetryableIfFailed(reply) == reply.status # "success"

(* reply.retryable alone does not do: its status must be a transport failure *)
Retryable(reply) == reply.status \in {"provider_error", "timeout"} /\ reply.retryable

TriesLeft(try) == try < MaxRetries

BeginCall(stage) ==
  /\ call' = [open |-> TRUE, stage |-> stage, try |-> 0]
  /\ UNCHANGED calls

Logged(reply) == Append(calls, [stage |-> call.stage, try |-> call.try, reply |-> reply])

(* a reply that is retried, after a delay *)
Retry(reply) ==
  /\ call.open
  /\ Retryable(reply) /\ TriesLeft(call.try)
  /\ calls' = Logged(reply)
  /\ call' = [call EXCEPT !.try = @ + 1]

(* a reply that with_transport_retries returns *)
Return(reply) ==
  /\ call.open
  /\ ~(Retryable(reply) /\ TriesLeft(call.try))
  /\ calls' = Logged(reply)
  /\ call' = NoCall

(* an exception of the adapter goes through both functions *)
Throw ==
  /\ call.open
  /\ call' = NoCall
  /\ UNCHANGED calls
=============================================================================
