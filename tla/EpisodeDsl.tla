----------------------------- MODULE EpisodeDsl -----------------------------
(***************************************************************************)
(* The steps of a memory episode (domain/episode.py): which actions        *)
(* change the store, what a step depends on, and which lists of steps are  *)
(* accepted when a scenario is stored.                                     *)
(*                                                                         *)
(* A step is [id, action, candidate, store, target, context].  target is   *)
(* args.step and context the step id of args.context_ref, NoStep where the *)
(* action has none; candidate says of an assert that its status is         *)
(* "candidate".                                                            *)
(***************************************************************************)
EXTENDS Naturals, Sequences

CONSTANT NoStep

MutatingActions ==
  {"remember", "assert", "approve", "reject", "wrong", "forget", "rebuild", "tool_call"}

Mutating(step) == step.action \in MutatingActions

(* "Earlier steps whose failure makes this step meaningless" *)
Dependencies(step) == {step.target, step.context} \ {NoStep}

(* ids seen before position n, and the first step that carries an id *)
SeenBefore(steps, n) == {steps[m].id : m \in 1 .. n - 1}
FirstWithId(steps, id) ==
  steps[CHOOSE m \in DOMAIN steps :
          steps[m].id = id /\ \A k \in 1 .. m - 1 : steps[k].id # id]

(* what approve and reject, wrong and forget may be aimed at *)
MayTarget(action, prior) ==
  /\ action \in {"approve", "reject"} => prior.action = "assert" /\ prior.candidate
  /\ action \in {"wrong", "forget"}   => prior.action \in {"remember", "assert"}

(* slip: a reference is looked up among all steps of the episode *)
AcceptedAnywhere(steps, n) ==
  LET step == steps[n]
      ids  == {steps[m].id : m \in DOMAIN steps} IN
  /\ step.id \notin SeenBefore(steps, n)
  /\ Dependencies(step) \subseteq ids
  /\ step.target # NoStep =>
       LET prior == FirstWithId(steps, step.target) IN
       MayTarget(step.action, prior) /\ prior.store = step.store

AcceptedAt(steps, n) ==
  LET step == steps[n]
      seen == SeenBefore(steps, n) IN
  /\ step.id \notin seen
  /\ Dependencies(step) \subseteq seen
  /\ step.target # NoStep =>
       LET prior == FirstWithId(steps, step.target) IN
       MayTarget(step.action, prior) /\ prior.store = step.store

(* episode_errors(steps) finds nothing *)
Accepted(steps) == \A n \in DOMAIN steps : AcceptedAt(steps, n)
=============================================================================
