-------------------------- MODULE MCTrialExecution --------------------------
(***************************************************************************)
(* TrialExecution for TLC: every accepted episode of up to three steps of  *)
(* the kinds below, and agents of up to two turns.                         *)
(***************************************************************************)
EXTENDS TrialExecution

CONSTANTS search, pay, nothere

NoSteps == <<>>

(* a step at position n; position and id coincide *)
StepAt(n) ==
  LET step(action, store, target, context) ==
        [id |-> n, action |-> action, candidate |-> action = "assert",
         store |-> store, target |-> target, context |-> context]
      ids == 1 .. 3 IN
  {step("assert", store, NoStep, NoStep) : store \in {"main", "other"}}
    \cup {step("approve", "main", id, NoStep) : id \in ids}
    \cup {step("forget", "main", id, NoStep) : id \in ids}
    \cup {step("recall", "main", NoStep, NoStep)}
    \cup {step("generate", "main", NoStep, id) : id \in ids \cup {NoStep}}

Episodes ==
  {steps \in UNION {{f \in [1 .. k -> UNION {StepAt(n) : n \in 1 .. k}] : \A n \in 1 .. k : f[n].id = n} : k \in {2, 3}} :
     Accepted(steps)}

MemoryCases ==
  {[pack |-> "memory", steps |-> steps, frozen |-> frozen, answers |-> answers, turns |-> 1, prior |-> prior] :
     steps \in Episodes, frozen \in BOOLEAN, answers \in {"adapter", "backend"}, prior \in {0}}
    \cup
  {[pack |-> "memory", steps |-> steps, frozen |-> FALSE, answers |-> answers, turns |-> 1, prior |-> 1] :
     steps \in {e \in Episodes : Len(e) = 2}, answers \in {"adapter", "nobody"}}

OtherCases ==
  {[pack |-> pack, steps |-> NoSteps, frozen |-> FALSE, answers |-> "adapter", turns |-> turns, prior |-> prior] :
     pack \in {"single", "agent"}, turns \in {0, 1, 2}, prior \in {0, 1}}

AllCases == MemoryCases \cup OtherCases

(* an episode that asks for an answer *)
Asking == {c \in MemoryCases : c.prior = 0 /\ ~c.frozen /\ c.answers = "adapter" /\ Len(c.steps) = 2}

ToolCall(tool, args) == [tool |-> tool, args |-> args]

SomeAsks ==
  {<<>>, <<ToolCall(pay, "plain")>>, <<ToolCall(search, "invalid"), ToolCall(pay, "confirmed")>>,
   <<ToolCall(nothere, "plain"), ToolCall(search, "plain"), ToolCall(pay, "text")>>}
=============================================================================
