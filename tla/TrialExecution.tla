--------------------------- MODULE TrialExecution ---------------------------
(***************************************************************************)
(* What happens to one trial between the transactions of its handler:      *)
(* _execute and _execute_episode of trial_runner.py, with the stateless    *)
(* and agent executors, the episode runner, the replay of a frozen         *)
(* context, and the part of _finish that writes attempt rows.              *)
(* RunLifecycle has all of this as one choice of outcome; here the trial   *)
(* is alone and the environment is what it talks to: a provider that       *)
(* replies, fails, times out or raises, and a memory backend of which the  *)
(* caller sees less than what happened in the store.                       *)
(***************************************************************************)
EXTENDS TargetCalls, EpisodeDsl, ToolSandbox, Functions, FiniteSets

CONSTANTS
  Cases,       (* the trials to be executed, see CaseType                   *)
  Asks         (* the tool calls a reply may ask for: a set of sequences    *)

StepType ==
  [id : Nat, action : MutatingActions \cup {"recall", "generate"}, candidate : BOOLEAN,
   store : {"main", "other"}, target : Nat \cup {NoStep}, context : Nat \cup {NoStep}]

(* pack, or rather the executor the pack leads to *)
CaseType ==
  [pack   : {"single", "agent", "memory"},
   steps  : Seq(StepType),
   frozen : BOOLEAN,                     (* replays the context of repeat 0 *)
   answers : {"adapter", "backend", "nobody"},    (* who executes generate  *)
   turns  : Nat,                         (* parameters.max_turns            *)
   prior  : Nat]                         (* interrupted attempts before     *)

(* A scenario is stored only with an accepted episode; a replay needs a repeat
   0 that succeeded, so somebody answered there. *)
ASSUME CasesAssumption ==
  \A c \in Cases :
    /\ c \in CaseType /\ Accepted(c.steps)
    /\ c.frozen => c.pack = "memory" /\ c.answers # "nobody"

ASSUME AsksAssumption ==
  \A tools \in Asks : tools \in Seq(Range(tools)) /\ \A n \in DOMAIN tools : tools[n].args \in ArgumentKind

VARIABLES
  case,        (* the trial                                                 *)
  pc,
  at,          (* number of the step or turn                                *)
  records,     (* status of each step so far                                *)
  sent,        (* positions of the steps handed to the memory backend       *)
  applied,     (* positions of the mutations that took effect in the store  *)
  sandbox,     (* sandbox.calls                                             *)
  effects,     (* sandbox.effects, by the call that had them                *)
  result,      (* status the executor arrived at                            *)
  truncated,
  raised,      (* an exception left _execute                                *)
  rows         (* attempt rows of the trial                                 *)

execution == <<case, pc, at, records, sent, applied, sandbox, effects, result, truncated, raised, rows>>
vars == <<execution, call, calls>>

Memory == case.pack = "memory"

(* the row that _prepare writes before the call *)
PrimaryStage ==
  CASE case.pack = "single" -> <<"target", 0>>
    [] case.pack = "agent"  -> <<"execution", 0>>
    [] case.pack = "memory" -> <<"episode", 0>>
Primary == case.prior + 1

Row(stage, index, status, known, retry) ==
  [stage |-> stage, index |-> index, status |-> status, known |-> known, retry |-> retry]

Init ==
  /\ case \in Cases
  /\ pc = "prepare"
  /\ at = 1
  /\ records = <<>> /\ sent = <<>> /\ applied = {}
  /\ sandbox = <<>> /\ effects = <<>>
  /\ result = "none" /\ truncated = FALSE /\ raised = FALSE
  /\ call = NoCall /\ calls = <<>>
  /\ rows = [n \in 1 .. Primary |->
               Row(PrimaryStage, n - 1, IF n = Primary THEN "running" ELSE "interrupted", ~Memory, FALSE)]

KeepCall    == UNCHANGED <<call, calls>>
KeepEpisode == UNCHANGED <<records, sent, applied>>
KeepTools   == UNCHANGED <<sandbox, effects, truncated>>
KeepEnd     == UNCHANGED <<result, raised, rows>>

(***************************************************************************)
(* adapter.prepare or backend.prepare: when it raises there is no session  *)
(* to close.                                                               *)
(***************************************************************************)
Prepare ==
  /\ pc = "prepare"
  /\ \/ pc' = (IF Memory THEN "step" ELSE "turn") /\ raised' = FALSE
     \/ pc' = "finish" /\ raised' = TRUE
  /\ KeepCall /\ KeepEpisode /\ KeepTools
  /\ UNCHANGED <<case, at, result, rows>>

(***************************************************************************)
(* The stateless and the agent executor.                                   *)
(***************************************************************************)
BeginTurn ==
  /\ pc = "turn"
  /\ case.pack = "agent" => at <= case.turns
  /\ BeginCall(IF case.pack = "single" THEN <<"target", 0>> ELSE <<"turn", at>>)
  /\ pc' = "calling"
  /\ KeepEpisode /\ KeepTools /\ KeepEnd
  /\ UNCHANGED <<case, at>>

Replies == Failures \cup {Success(tools) : tools \in (IF case.pack = "agent" THEN Asks ELSE {<<>>})}

(* normalize_output: the text parses, or it does not *)
Normalised == {"success", "invalid_output"}

TryAgain ==
  /\ pc = "calling"
  /\ \E reply \in Replies : Retry(reply)
  /\ UNCHANGED execution

CallRaises ==
  /\ pc = "calling" /\ ~Memory
  /\ Throw
  /\ raised' = TRUE /\ pc' = "close"
  /\ KeepEpisode /\ KeepTools
  /\ UNCHANGED <<case, at, result, rows>>

CallFails ==
  /\ pc = "calling" /\ ~Memory
  /\ \E reply \in Failures : Return(reply) /\ result' = reply.status
  /\ pc' = "close"
  /\ KeepEpisode /\ KeepTools
  /\ UNCHANGED <<case, at, raised, rows>>

(* no tool is asked for: the answer stands *)
Answer ==
  /\ pc = "calling" /\ ~Memory
  /\ Return(Success(<<>>))
  /\ result' \in Normalised
  /\ pc' = "close"
  /\ KeepEpisode /\ KeepTools
  /\ UNCHANGED <<case, at, raised, rows>>

RunTools ==
  /\ pc = "calling" /\ case.pack = "agent"
  /\ \E tools \in Asks \ {<<>>} :
       /\ Return(Success(tools))
       /\ sandbox' = sandbox \o Recorded(tools)
       /\ effects' = effects \o Effects(tools)
  /\ at' = at + 1
  /\ pc' = "turn"
  /\ KeepEpisode /\ KeepEnd
  /\ UNCHANGED <<case, truncated>>

(* the else branch of the for loop: also when max_turns allows no turn *)
OutOfTurns ==
  /\ pc = "turn" /\ case.pack = "agent" /\ at > case.turns
  /\ truncated' = TRUE
  /\ result' \in Normalised
  /\ pc' = "close"
  /\ KeepCall /\ KeepEpisode
  /\ UNCHANGED <<case, at, sandbox, effects, raised, rows>>

(***************************************************************************)
(* The episode runner: steps one after another, those skipped first.       *)
(***************************************************************************)
Step == case.steps[at]
AtStep == pc = "step" /\ at <= Len(case.steps)

(* slip: only the step just before is looked at *)
UnknownIfLast == records # <<>> /\ Last(records) = "indeterminate"

Unknown == "indeterminate" \in Range(records)

(* the set "failed": steps that ended in an error, a timeout or a skip *)
FailedSteps == {case.steps[n].id : n \in {m \in DOMAIN records : records[m] # "ok"}}
Blocked == Dependencies(Step) \cap FailedSteps # {}

(* slip: a frozen context is captured anew *)
RunnableAgain == AtStep /\ ~Unknown /\ ~Blocked

Runnable == AtStep /\ ~case.frozen /\ ~Unknown /\ ~Blocked

StepRecorded(status) ==
  /\ records' = Append(records, status)
  /\ at' = at + 1
  /\ pc' = "step"
  /\ UNCHANGED <<case, result, raised, rows>> /\ KeepTools

SkipStep ==
  /\ AtStep /\ ~case.frozen
  /\ Unknown \/ Blocked
  /\ StepRecorded("skipped")
  /\ KeepCall /\ UNCHANGED <<sent, applied>>

ByBackend(step) == step.action # "generate" \/ case.answers = "backend"

TimedOut(step) == IF Mutating(step) THEN "indeterminate" ELSE "timeout"

(* A step that fails or times out may have changed the store all the same. *)
BackendStep ==
  /\ Runnable /\ ByBackend(Step)
  /\ sent' = Append(sent, at)
  /\ \/ /\ StepRecorded("ok")
        /\ applied' = IF Mutating(Step) THEN applied \cup {at} ELSE applied
     \/ /\ \/ StepRecorded("error")
           \/ StepRecorded(TimedOut(Step))
        /\ \/ applied' = applied
           \/ Mutating(Step) /\ applied' = applied \cup {at}
  /\ KeepCall

(* nothing is called: the context does not resolve, or no target generates *)
GenerateRefused ==
  /\ Runnable /\ Step.action = "generate"
  /\ Step.context # NoStep \/ case.answers = "nobody"
  /\ StepRecorded("error")
  /\ KeepCall /\ UNCHANGED <<sent, applied>>

BeginGenerate ==
  /\ AtStep /\ Step.action = "generate" /\ case.answers = "adapter"
  /\ case.frozen \/ Runnable
  /\ BeginCall(<<"generate", Step.id>>)
  /\ pc' = "calling"
  /\ KeepEpisode /\ KeepTools /\ KeepEnd
  /\ UNCHANGED <<case, at>>

GenerateEnds ==
  /\ pc = "calling" /\ Memory
  /\ \/ Return(Success(<<>>)) /\ StepRecorded("ok")
     \/ \E reply \in Failures : Return(reply) /\ StepRecorded("error")
     \/ ~case.frozen /\ Throw /\ StepRecorded("error")
  /\ UNCHANGED <<sent, applied>>

(***************************************************************************)
(* The replay of a frozen context: the records of repeat 0, which          *)
(* succeeded, and fresh answers.  Nothing here catches an exception.       *)
(***************************************************************************)
ReplayStep ==
  /\ AtStep /\ case.frozen /\ Step.action # "generate"
  /\ StepRecorded("ok")
  /\ KeepCall /\ UNCHANGED <<sent, applied>>

FrozenAnswer ==
  /\ AtStep /\ case.frozen
  /\ Step.action = "generate" /\ case.answers = "backend"
  /\ sent' = Append(sent, at)
  /\ StepRecorded("ok")
  /\ KeepCall /\ UNCHANGED applied

FrozenRaises ==
  /\ case.frozen
  /\ \/ pc = "calling" /\ Throw
     \/ /\ AtStep /\ Step.action = "generate" /\ case.answers = "backend"
        /\ KeepCall
  /\ raised' = TRUE /\ pc' = "close"
  /\ KeepEpisode /\ KeepTools
  /\ UNCHANGED <<case, at, result, rows>>

(***************************************************************************)
(* The end: status of the episode, close of the session, _finish.          *)
(***************************************************************************)
(* slip: only errors count *)
EpisodeStatusOfErrors ==
  CASE Unknown -> "indeterminate"
    [] ~Unknown /\ "error" \in Range(records) -> "provider_error"
    [] OTHER -> "success"

EpisodeStatus ==
  CASE Unknown -> "indeterminate"
    [] ~Unknown /\ Range(records) \cap {"error", "timeout"} # {} -> "provider_error"
    [] OTHER -> "success"

(* final states are captured; a failure to do so is noted and no more *)
EndEpisode ==
  /\ pc = "step" /\ at > Len(case.steps)
  /\ result' = EpisodeStatus
  /\ pc' = "close"
  /\ KeepCall /\ KeepEpisode /\ KeepTools
  /\ UNCHANGED <<case, at, raised, rows>>

(* adapter.close and backend.close may raise, whatever the outcome *)
Close ==
  /\ pc = "close"
  /\ raised' \in {raised, TRUE}
  /\ pc' = "finish"
  /\ KeepCall /\ KeepEpisode /\ KeepTools
  /\ UNCHANGED <<case, at, result, rows>>

(* slip: the exception is not turned into an outcome *)
OutcomeStatusAsLeft == result

(* run_trial_job puts an outcome without attempts in the place of an exception *)
OutcomeStatus == IF raised THEN "provider_error" ELSE result
OutcomeCalls  == IF raised THEN <<>> ELSE calls

(* the first call of a stateless trial is told in the primary row *)
PrimaryUsed(logged) == case.pack = "single" /\ logged # <<>>

(* slip: the number of the try, as on_attempt reports it *)
AddRowOfTry(table, logged) ==
  Append(table, Row(logged.stage, logged.try, logged.reply.status, TRUE, logged.try > 0))

AddRow(table, logged) ==
  Append(table, Row(logged.stage, Cardinality({n \in DOMAIN table : table[n].stage = logged.stage}),
                    logged.reply.status, TRUE, logged.try > 0))

Finish ==
  /\ pc = "finish"
  /\ LET reused  == PrimaryUsed(OutcomeCalls)
         own     == IF reused THEN Head(OutcomeCalls).reply.status ELSE OutcomeStatus
         known   == Memory => OutcomeStatus # "indeterminate"
         primary == [rows EXCEPT ![Primary].status = own, ![Primary].known = known]
     IN rows' = FoldLeft(AddRow, primary, IF reused THEN Tail(OutcomeCalls) ELSE OutcomeCalls)
  /\ result' = OutcomeStatus
  /\ pc' = "done"
  /\ KeepCall /\ KeepEpisode /\ KeepTools
  /\ UNCHANGED <<case, at, raised>>

Done == pc = "done" /\ UNCHANGED vars

Next ==
  \/ Prepare
  \/ BeginTurn \/ TryAgain \/ CallRaises \/ CallFails \/ Answer \/ RunTools \/ OutOfTurns
  \/ SkipStep \/ BackendStep \/ GenerateRefused \/ BeginGenerate \/ GenerateEnds
  \/ ReplayStep \/ FrozenAnswer \/ FrozenRaises
  \/ EndEpisode \/ Close \/ Finish \/ Done

Spec == Init /\ [][Next]_vars
-----------------------------------------------------------------------------
(***************************************************************************)
(* Properties.                                                             *)
(***************************************************************************)
Positions == DOMAIN case.steps

(* Every variable has the values the code gives it. *)
TypeOK ==
  /\ pc \in {"prepare", "turn", "calling", "step", "close", "finish", "done"}
  /\ at \in Nat \ {0}
  /\ \A n \in DOMAIN records : records[n] \in {"ok", "error", "timeout", "skipped", "indeterminate"}
  /\ Len(records) <= Len(case.steps)
  /\ Range(sent) \subseteq Positions /\ applied \subseteq Range(sent)
  /\ \A n \in DOMAIN effects : effects[n] \in {sandbox[m].call : m \in DOMAIN sandbox}
  /\ pc = "done" => result # "none"
  /\ result \in {"none", "success", "invalid_output", "provider_error", "timeout", "unsupported", "indeterminate"}
  /\ \A n \in DOMAIN rows : rows[n].status = "running" => n = Primary /\ pc # "done"

(* "The episode stops as indeterminate": after a mutating step timed out no
   later step reaches the backend or a generation target, in any store. *)
NothingAfterUnknown ==
  \A n \in DOMAIN records : records[n] = "indeterminate" =>
    /\ \A m \in Range(sent) : m <= n
    /\ \A c \in Range(calls) : \E m \in 1 .. n : c.stage = <<"generate", case.steps[m].id>>
    /\ ~call.open

(* A step acts on what earlier steps did: one that is sent, or whose
   generation is called, names only steps that have been executed before it
   with success, and its target lives in its own store.  (A replay has its
   context from repeat 0.) *)
SourcesExecuted ==
  ~case.frozen => \A m \in Positions :
    (\/ m \in Range(sent)
     \/ \E c \in Range(calls) : Memory /\ c.stage = <<"generate", case.steps[m].id>>) =>
      \A id \in Dependencies(case.steps[m]) :
        \E n \in 1 .. m - 1 :
          /\ case.steps[n].id = id /\ n \in DOMAIN records /\ records[n] = "ok"
          /\ case.steps[m].target = id => case.steps[n].store = case.steps[m].store

(* A result is earned.  A memory trial that succeeds ran all of its scenario:
   every step has its record, all are ok, each mutation took effect, and each
   step was sent once; in a replay nothing took effect.  A stateless or agent
   trial has an output only if its last reply succeeded, and an agent that was
   not cut off ended with a reply that asks for no tool. *)
ResultIsEarned ==
  /\ Memory /\ pc = "done" /\ result = "success" =>
       /\ Len(records) = Len(case.steps) /\ Range(records) \subseteq {"ok"}
       /\ IF case.frozen THEN applied = {}
          ELSE applied = {n \in Positions : Mutating(case.steps[n])}
       /\ IsInjective(sent)
  /\ ~Memory /\ pc = "done" /\ result \in Normalised /\ case.turns > 0 =>
       /\ calls # <<>> /\ Last(calls).reply.status = "success"
       /\ truncated = (Last(calls).reply.tools # <<>>)

(* A replay only asks for answers: repeats of a frozen context change no store. *)
FrozenNeverMutates ==
  Memory /\ case.frozen =>
    applied = {} /\ \A n \in Range(sent) : case.steps[n].action = "generate"

(* "retries exist only for transport failures": a reply follows another of the
   same call only when that one failed in transport, and at most MaxRetries do. *)
RetriesOnlyTransport ==
  \A n \in DOMAIN calls :
    LET c == calls[n] IN
    c.try > 0 =>
      /\ n > 1 /\ calls[n - 1].stage = c.stage /\ calls[n - 1].try = c.try - 1
      /\ calls[n - 1].reply.status \in {"provider_error", "timeout"} /\ calls[n - 1].reply.retryable
      /\ c.try <= MaxRetries

(* the calls the rows tell of, in the order of the rows *)
Told ==
  LET ofCall(row) == row.stage \notin {<<"execution", 0>>, <<"episode", 0>>} /\ row.status # "interrupted"
      new == Select(rows, {row \in Range(rows) : ofCall(row)}) IN
  [n \in DOMAIN new |-> <<new[n].stage, new[n].status, new[n].retry>>]

LoggedCalls == [n \in DOMAIN calls |-> <<calls[n].stage, calls[n].reply.status, calls[n].try > 0>>]

(* Every reply is kept: the rows have distinct keys (trial, stage, index), also
   when earlier attempts were interrupted and calls were retried, and unless an
   exception left the executor the rows of the finished trial tell each call and
   retry, in order, and nothing else. *)
RowsTellTheCalls ==
  /\ IsInjective([n \in DOMAIN rows |-> <<rows[n].stage, rows[n].index>>])
  /\ pc = "done" /\ ~raised => Told = LoggedCalls

(* "Every attempt is preserved by the caller's on_attempt callback": each reply
   a provider gave has its row in the end, however the execution ended. *)
EveryCallIsKept ==
  pc = "done" => Len(calls) <= Len(Told)

(* "Tools that require confirmation do nothing unless called with confirmed:
   true": whatever the order of calls and turns, the declared effects are those
   of valid calls, the guarded ones confirmed in that very call, and they came
   about as often as a call reports no error. *)
EffectsAreConfirmed ==
  /\ \A n \in DOMAIN effects :
       effects[n].tool \in Tool /\ Valid(effects[n]) /\ (effects[n].tool \in Guarded => effects[n].args = "confirmed")
  /\ Len(effects) = Cardinality({n \in DOMAIN sandbox : sandbox[n].error = "none"})
=============================================================================
