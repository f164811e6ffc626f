------------------------ MODULE TrialExecutionProofs ------------------------
(***************************************************************************)
(* Proofs about TrialExecution, for any set of cases, any tool calls and   *)
(* any number of retries.                                                  *)
(*                                                                         *)
(* Groups of variables are looked at apart: the call under way with the    *)
(* list of replies (which of Next's steps retried, returned, or left them  *)
(* alone is all that matters of a step); the records of an episode with    *)
(* what was sent and what it did; the sandbox; what stands behind a        *)
(* result; and the rows, with the recursion of _finish over the replies.   *)
(***************************************************************************)
EXTENDS TrialExecution, Induction, TLAPS

(***************************************************************************)
(* The call and its retries.                                               *)
(***************************************************************************)
Stage == {"target", "turn", "generate"} \X Nat

AnyReply == Failures \cup {Success(tools) : tools \in Asks \cup {<<>>}}

LoggedCall == [stage : Stage, try : Nat, reply : AnyReply]

(* the reply before a retry is one that deserves it *)
Follows(before, stage, try) ==
  before.stage = stage /\ before.try = try - 1 /\ Retryable(before.reply)

CallOK ==
  \/ call = NoCall
  \/ /\ call \in [open : {TRUE}, stage : Stage, try : 0 .. MaxRetries]
     /\ call.try > 0 => calls # <<>> /\ Follows(calls[Len(calls)], call.stage, call.try)

CallsOK ==
  /\ calls \in Seq(LoggedCall)
  /\ \A n \in 1 .. Len(calls) :
       /\ calls[n].try <= MaxRetries
       /\ calls[n].try > 0 => n > 1 /\ Follows(calls[n - 1], calls[n].stage, calls[n].try)

CaseOK == case \in Cases /\ at \in Nat \ {0}

CallInv == CaseOK /\ CallOK /\ CallsOK

(* all that a step can do to the call *)
CallChange ==
  \/ KeepCall
  \/ \E stage \in Stage : BeginCall(stage)
  \/ \E reply \in AnyReply : Retry(reply) \/ Return(reply)
  \/ Throw

LEMMA StepId ==
  ASSUME CaseOK, at <= Len(case.steps)
  PROVE  Step.id \in Nat
<1>1. case.steps \in Seq(StepType)
  BY CasesAssumption DEF CaseOK, CaseType
<1>2. Step \in StepType
  BY <1>1 DEF CaseOK, Step
<1> QED BY <1>2 DEF StepType

LEMMA StepChangesCall ==
  ASSUME CaseOK, [Next]_vars
  PROVE  CaseOK' /\ CallChange
<1>0. \A reply \in Replies : reply \in AnyReply
  BY DEF Replies, AnyReply
<1>1. CASE UNCHANGED vars
  BY <1>1 DEF vars, execution, CaseOK, CallChange, KeepCall
<1>2. CASE Prepare \/ OutOfTurns \/ EndEpisode \/ Close \/ Finish
  BY <1>2 DEF Prepare, OutOfTurns, EndEpisode, Close, Finish, CaseOK, CallChange, KeepCall
<1>3. CASE SkipStep \/ BackendStep \/ GenerateRefused \/ ReplayStep \/ FrozenAnswer
  BY <1>3 DEF SkipStep, BackendStep, GenerateRefused, ReplayStep, FrozenAnswer, StepRecorded,
              CaseOK, CallChange, KeepCall
<1>4. CASE BeginTurn
  <2>1. (IF case.pack = "single" THEN <<"target", 0>> ELSE <<"turn", at>>) \in Stage
    BY DEF Stage, CaseOK
  <2> QED BY <1>4, <2>1 DEF BeginTurn, CaseOK, CallChange
<1>5. CASE BeginGenerate
  <2>1. <<"generate", Step.id>> \in Stage
    BY <1>5, StepId DEF BeginGenerate, AtStep, Stage
  <2> QED BY <1>5, <2>1 DEF BeginGenerate, CaseOK, CallChange
<1>6. CASE TryAgain
  BY <1>0, <1>6 DEF TryAgain, execution, CaseOK, CallChange
<1>7. CASE CallRaises \/ FrozenRaises
  BY <1>7 DEF CallRaises, FrozenRaises, CaseOK, CallChange
<1>8. CASE CallFails \/ Answer \/ RunTools
  BY <1>8 DEF CallFails, Answer, RunTools, AnyReply, CaseOK, CallChange
<1>9. CASE GenerateEnds
  BY <1>9 DEF GenerateEnds, StepRecorded, AnyReply, CaseOK, CallChange
<1> QED BY <1>1, <1>2, <1>3, <1>4, <1>5, <1>6, <1>7, <1>8, <1>9 DEF Next, Done

LEMMA OpenIsNoNoCall == call.open => call # NoCall
<1> SUFFICES ASSUME call = NoCall PROVE ~call.open
  OBVIOUS
<1>1. call.open = FALSE
  BY DEF NoCall
<1> QED BY <1>1, Zenon

LEMMA LoggingKeepsOrder ==
  ASSUME CallOK, CallsOK, call.open, NEW reply \in AnyReply, calls' = Logged(reply)
  PROVE  /\ CallsOK'
         /\ calls' # <<>> /\ Len(calls') \in Nat
         /\ calls'[Len(calls')] = [stage |-> call.stage, try |-> call.try, reply |-> reply]
<1> DEFINE new == [stage |-> call.stage, try |-> call.try, reply |-> reply]
<1>1. /\ call \in [open : {TRUE}, stage : Stage, try : 0 .. MaxRetries]
      /\ call.try > 0 => calls # <<>> /\ Follows(calls[Len(calls)], call.stage, call.try)
  BY OpenIsNoNoCall DEF CallOK
<1>2. new \in LoggedCall
  BY <1>1 DEF LoggedCall
<1>3. calls' = Append(calls, new)
  BY DEF Logged
<1>4. /\ calls' \in Seq(LoggedCall) /\ Len(calls') = Len(calls) + 1
      /\ calls'[Len(calls')] = new
      /\ \A n \in 1 .. Len(calls) : calls'[n] = calls[n]
  BY <1>2, <1>3 DEF CallsOK
<1>5. calls' # <<>>
  BY <1>4 DEF CallsOK
<1>6. ASSUME NEW n \in 1 .. Len(calls')
      PROVE  /\ calls'[n].try <= MaxRetries
             /\ calls'[n].try > 0 => n > 1 /\ Follows(calls'[n - 1], calls'[n].stage, calls'[n].try)
  <2>1. CASE n \in 1 .. Len(calls)
    BY <1>4, <2>1 DEF CallsOK
  <2>2. CASE n = Len(calls) + 1
    <3>1. calls'[n] = new
      BY <1>4, <2>2
    <3>2. new.try <= MaxRetries
      BY <1>1, RetriesAssumption
    <3>3. ASSUME new.try > 0 PROVE n > 1 /\ calls'[n - 1] = calls[Len(calls)]
      BY <1>1, <1>4, <2>2, <3>3 DEF CallsOK
    <3> QED BY <1>1, <3>1, <3>2, <3>3
  <2> QED BY <1>4, <1>6, <2>1, <2>2 DEF CallsOK
<1> QED BY <1>4, <1>5, <1>6 DEF CallsOK

LEMMA CallsStayOK ==
  ASSUME CallInv, CallChange
  PROVE  CallOK' /\ CallsOK'
<1> USE DEF CallInv
<1>1. CASE KeepCall
  BY <1>1 DEF KeepCall, CallOK, CallsOK
<1>2. ASSUME NEW stage \in Stage, BeginCall(stage) PROVE CallOK' /\ CallsOK'
  BY <1>2, RetriesAssumption DEF BeginCall, CallOK, CallsOK
<1>3. ASSUME NEW reply \in AnyReply, Retry(reply) PROVE CallOK' /\ CallsOK'
  <2>1. call \in [open : {TRUE}, stage : Stage, try : 0 .. MaxRetries]
    BY <1>3, OpenIsNoNoCall DEF Retry, CallOK
  <2>2. CallsOK' /\ calls' # <<>> /\ calls'[Len(calls')] = [stage |-> call.stage, try |-> call.try, reply |-> reply]
    BY <1>3, LoggingKeepsOrder DEF Retry
  <2>3. call' \in [open : {TRUE}, stage : Stage, try : 0 .. MaxRetries]
    <3>1. call' = [call EXCEPT !.try = call.try + 1]
      BY <1>3 DEF Retry
    <3>2. call.try + 1 \in 0 .. MaxRetries
      BY <1>3, <2>1, RetriesAssumption DEF Retry, TriesLeft
    <3> QED BY <2>1, <3>1, <3>2
  <2>4. Follows(calls'[Len(calls')], call'.stage, call'.try)
    BY <1>3, <2>1, <2>2 DEF Retry, Follows
  <2> QED BY <2>2, <2>3, <2>4 DEF CallOK
<1>4. ASSUME NEW reply \in AnyReply, Return(reply) PROVE CallOK' /\ CallsOK'
  BY <1>4, LoggingKeepsOrder DEF Return, CallOK
<1>5. CASE Throw
  BY <1>5 DEF Throw, CallOK, CallsOK
<1> QED BY <1>1, <1>2, <1>3, <1>4, <1>5 DEF CallChange

LEMMA CallInvariant == Spec => []CallInv
<1>1. Init => CallInv
  BY DEF Init, CallInv, CaseOK, CallOK, CallsOK
<1>2. CallInv /\ [Next]_vars => CallInv'
  BY StepChangesCall, CallsStayOK DEF CallInv
<1> QED BY <1>1, <1>2, PTL DEF Spec

(* "retries exist only for transport failures" (execution/retry.py), for any
   executor, any number of retries and whatever else happens to the trial. *)
THEOREM RetriesAreForTransport == Spec => []RetriesOnlyTransport
<1>1. CallInv => RetriesOnlyTransport
  BY DEF CallInv, CallsOK, RetriesOnlyTransport, Follows, Retryable
<1> QED BY <1>1, CallInvariant, PTL

(***************************************************************************)
(* The records of an episode.  Executed says of a position what            *)
(* SourcesExecuted asks of it; since records only grow it stays true.      *)
(***************************************************************************)
StepStatus == {"ok", "error", "timeout", "skipped", "indeterminate"}

Executed(m) ==
  \A id \in Dependencies(case.steps[m]) :
    \E n \in 1 .. m - 1 :
      /\ case.steps[n].id = id /\ n \in 1 .. Len(records) /\ records[n] = "ok"
      /\ case.steps[m].target = id => case.steps[n].store = case.steps[m].store

CalledBy(c, m) == c.stage = <<"generate", case.steps[m].id>>

(* positions whose step has been looked at *)
Reached == IF pc = "calling" THEN Len(records) + 1 ELSE Len(records)

UnknownAt(n) == n \in 1 .. Len(records) /\ records[n] = "indeterminate"

Placed ==
  /\ pc = "prepare" => at = 1 /\ records = <<>>
  /\ pc = "turn" => ~Memory
  /\ pc = "step" => Memory
  /\ call # NoCall => pc = "calling"
  /\ Memory /\ pc \in {"step", "calling"} => at = Len(records) + 1
  /\ Memory /\ pc = "calling" =>
       /\ at <= Len(case.steps)
       /\ call # NoCall => CalledBy(call, at)
       /\ case.frozen \/ (~Unknown /\ Executed(at))

RecordsOK ==
  /\ records \in Seq(StepStatus) /\ Len(records) <= Len(case.steps)
  /\ ~Memory => records = <<>>
  /\ sent \in Seq(Nat) /\ \A k \in 1 .. Len(sent) : sent[k] \in 1 .. Len(records)

FrozenOK ==
  case.frozen =>
    /\ Memory /\ applied = {} /\ \A n : ~UnknownAt(n)
    /\ \A k \in 1 .. Len(sent) : case.steps[sent[k]].action = "generate"

SourcesOK ==
  Memory /\ ~case.frozen =>
    /\ \A k \in 1 .. Len(sent) : Executed(sent[k])
    /\ \A k \in 1 .. Len(calls) :
         \E m \in 1 .. Reached : m <= Len(case.steps) /\ CalledBy(calls[k], m) /\ Executed(m)

StoppedOK ==
  \A n : UnknownAt(n) =>
    /\ call = NoCall /\ pc # "calling"
    /\ \A k \in 1 .. Len(sent) : sent[k] <= n
    /\ \A k \in 1 .. Len(calls) : \E m \in 1 .. n : CalledBy(calls[k], m)

EpisodeInv == Placed /\ RecordsOK /\ FrozenOK /\ SourcesOK /\ StoppedOK

LEMMA CaseFacts ==
  ASSUME CaseOK
  PROVE  /\ case.steps \in Seq(StepType) /\ Len(case.steps) \in Nat
         /\ Accepted(case.steps)
         /\ case.frozen => Memory
  BY CasesAssumption DEF CaseOK, CaseType, Memory

LEMMA UnknownIsSomewhere ==
  ASSUME RecordsOK
  PROVE  Unknown <=> \E n : UnknownAt(n)
  BY DEF Unknown, UnknownAt, Range, RecordsOK

(***************************************************************************)
(* What a step that may run has behind it.                                 *)
(***************************************************************************)
LEMMA RunnableHasSources ==
  ASSUME CaseOK, RecordsOK, at = Len(records) + 1, at <= Len(case.steps), ~Blocked
  PROVE  Executed(at)
<1> DEFINE steps == case.steps
<1>1. steps \in Seq(StepType) /\ Accepted(steps) /\ at \in DOMAIN steps
  BY CaseFacts DEF CaseOK
<1>2. AcceptedAt(steps, at)
  BY <1>1 DEF Accepted
<1> SUFFICES ASSUME NEW id \in Dependencies(steps[at])
             PROVE  \E n \in 1 .. at - 1 :
                      /\ steps[n].id = id /\ n \in 1 .. Len(records) /\ records[n] = "ok"
                      /\ steps[at].target = id => steps[n].store = steps[at].store
  BY DEF Executed
<1>3. PICK n \in 1 .. at - 1 : steps[n].id = id
  BY <1>2 DEF AcceptedAt, SeenBefore
<1>4. ASSUME NEW k \in 1 .. at - 1, steps[k].id = id
      PROVE  k \in 1 .. Len(records) /\ records[k] = "ok"
  <2>1. k \in DOMAIN records
    BY <1>4 DEF RecordsOK
  <2>2. id \notin FailedSteps
    BY DEF Blocked, Step
  <2> QED BY <1>4, <2>1, <2>2 DEF FailedSteps, RecordsOK
<1>5. CASE steps[at].target # id
  BY <1>3, <1>4, <1>5
<1>6. CASE steps[at].target = id
  <2>1. \E m \in DOMAIN steps : steps[m].id = id /\ \A k \in 1 .. m - 1 : steps[k].id # id
    <3>1. \A a, b \in DOMAIN steps : a < b => steps[a].id # steps[b].id
      BY <1>1 DEF Accepted, AcceptedAt, SeenBefore
    <3>2. n \in DOMAIN steps /\ \A k \in 1 .. n - 1 : k \in DOMAIN steps /\ k < n
      BY <1>1, <1>3 DEF CaseOK
    <3> QED BY <1>3, <3>1, <3>2
  <2>2. PICK m \in DOMAIN steps :
          /\ steps[m].id = id /\ \A k \in 1 .. m - 1 : steps[k].id # id
          /\ FirstWithId(steps, id) = steps[m]
    BY <2>1 DEF FirstWithId
  <2>3. m \in 1 .. at - 1
    BY <1>1, <1>3, <2>2
  <2>4. steps[m].store = steps[at].store
    <3>1. id # NoStep
      BY DEF Dependencies
    <3> QED BY <1>2, <1>6, <2>2, <3>1 DEF AcceptedAt
  <2> QED BY <1>4, <1>6, <2>2, <2>3, <2>4
<1> QED BY <1>5, <1>6

LEMMA ExecutedStays ==
  ASSUME case' = case, \A n \in 1 .. Len(records) : n \in 1 .. Len(records') /\ records'[n] = records[n],
         NEW m, Executed(m)
  PROVE  Executed(m)'
  BY DEF Executed

(* a list of replies that is known to be placed stays so when no reply comes *)
LEMMA SourcesStay ==
  ASSUME SourcesOK, case' = case, sent' = sent, calls' = calls, Reached' = Reached,
         \A n \in 1 .. Len(records) : n \in 1 .. Len(records') /\ records'[n] = records[n]
  PROVE  SourcesOK'
<1> SUFFICES ASSUME Memory, ~case.frozen
             PROVE  /\ \A k \in 1 .. Len(sent) : Executed(sent[k])'
                    /\ \A k \in 1 .. Len(calls) :
                         \E m \in 1 .. Reached : m <= Len(case.steps) /\ CalledBy(calls[k], m) /\ Executed(m)'
  BY ZenonT(40) DEF SourcesOK, Memory, CalledBy, Executed
<1>1. \A m : Executed(m) => Executed(m)'
  BY ExecutedStays
<1>2. ASSUME NEW k \in 1 .. Len(sent) PROVE Executed(sent[k])'
  <2>1. Executed(sent[k])
    BY DEF SourcesOK
  <2> QED BY <2>1 DEF Executed
<1>3. ASSUME NEW k \in 1 .. Len(calls)
      PROVE  \E m \in 1 .. Reached : m <= Len(case.steps) /\ CalledBy(calls[k], m) /\ Executed(m)'
  BY <1>1 DEF SourcesOK
<1> QED BY <1>2, <1>3

(***************************************************************************)
(* Steps that append nothing: neither records nor sends nor replies.       *)
(***************************************************************************)
LEMMA QuietStep ==
  ASSUME CaseOK, EpisodeInv, case' = case, KeepEpisode, calls' = calls, Placed',
         pc' # "calling" \/ ~Memory, pc # "calling" \/ case.frozen \/ ~Memory
  PROVE  EpisodeInv'
<1> USE DEF EpisodeInv, KeepEpisode
<1>1. RecordsOK' /\ FrozenOK'
  BY DEF RecordsOK, FrozenOK, UnknownAt, Memory
<1>2. SourcesOK'
  <2>1. CASE ~Memory \/ case.frozen
    BY <2>1 DEF SourcesOK, Memory
  <2>2. CASE Memory /\ ~case.frozen
    BY <2>2, SourcesStay DEF Reached, RecordsOK
  <2> QED BY <2>1, <2>2
<1>3. StoppedOK'
  <2>1. ASSUME NEW n, UnknownAt(n)' PROVE UnknownAt(n) /\ Memory
    BY <2>1 DEF UnknownAt, RecordsOK
  <2> QED BY <2>1 DEF StoppedOK, Placed, CalledBy, Memory, RecordsOK
<1> QED BY <1>1, <1>2, <1>3

LEMMA QuietSteps ==
  ASSUME CaseOK, CaseOK', EpisodeInv,
         UNCHANGED vars \/ Prepare \/ OutOfTurns \/ EndEpisode \/ Close \/ Finish \/ FrozenRaises
  PROVE  EpisodeInv'
<1>1. CASE UNCHANGED vars
  <2>1. UNCHANGED <<case, pc, at, records, sent, applied, call, calls>>
    BY <1>1 DEF vars, execution
  <2>2. Placed'
    BY <2>1 DEF EpisodeInv, Placed, Unknown, Executed, CalledBy, Memory
  <2>3. RecordsOK' /\ FrozenOK'
    BY <2>1 DEF EpisodeInv, RecordsOK, FrozenOK, UnknownAt, Memory
  <2>4. SourcesOK'
    BY <2>1, SourcesStay DEF EpisodeInv, Reached, RecordsOK
  <2>5. StoppedOK'
    BY <2>1 DEF EpisodeInv, StoppedOK, UnknownAt, CalledBy
  <2> QED BY <2>2, <2>3, <2>4, <2>5 DEF EpisodeInv
<1>2. CASE Prepare \/ OutOfTurns \/ EndEpisode \/ Close \/ Finish
  <2>1. case' = case /\ KeepEpisode /\ KeepCall /\ pc' # "calling" /\ pc # "calling"
    BY <1>2 DEF Prepare, OutOfTurns, EndEpisode, Close, Finish
  <2>2. call = NoCall /\ call' = NoCall
    BY <2>1 DEF EpisodeInv, Placed, KeepCall
  <2>3. Placed'
    <3>1. CASE Prepare
      <4>1. at' = 1 /\ records' = <<>> /\ pc' \in {IF Memory THEN "step" ELSE "turn", "finish"}
        BY <1>2, <3>1 DEF Prepare, EpisodeInv, Placed, KeepEpisode
      <4>2. Len(records') = 0
        BY <4>1
      <4> QED BY <2>1, <2>2, <4>1, <4>2 DEF Placed, Memory
    <3>2. CASE OutOfTurns \/ EndEpisode \/ Close \/ Finish
      <4>1. pc' \in {"close", "finish", "done"}
        BY <3>2 DEF OutOfTurns, EndEpisode, Close, Finish
      <4> QED BY <2>1, <2>2, <4>1 DEF Placed
    <3> QED BY <1>2, <3>1, <3>2
  <2> QED BY <2>1, <2>3, QuietStep DEF KeepCall
<1>3. CASE FrozenRaises
  <2>1. case' = case /\ KeepEpisode /\ calls' = calls /\ pc' = "close" /\ case.frozen /\ (call' = call \/ call' = NoCall)
    BY <1>3 DEF FrozenRaises, KeepCall, Throw
  <2>2. call' = NoCall
    BY <1>3, <2>1 DEF FrozenRaises, KeepCall, Throw, AtStep, EpisodeInv, Placed
  <2>3. Placed'
    BY <2>1, <2>2 DEF Placed
  <2> QED BY <2>1, <2>3, QuietStep
<1> QED BY <1>1, <1>2, <1>3

(***************************************************************************)
(* Executors without an episode: there are no records to be wrong about.   *)
(***************************************************************************)
LEMMA OtherExecutors ==
  ASSUME CaseOK, EpisodeInv, ~Memory, case' = case, KeepEpisode, Placed'
  PROVE  EpisodeInv'
<1> USE DEF EpisodeInv, KeepEpisode
<1>1. RecordsOK' /\ FrozenOK' /\ SourcesOK'
  BY DEF RecordsOK, FrozenOK, SourcesOK, UnknownAt, Memory
<1>2. \A n : ~UnknownAt(n)'
  BY DEF RecordsOK, UnknownAt
<1> QED BY <1>1, <1>2 DEF StoppedOK

LEMMA OtherSteps ==
  ASSUME CaseOK, EpisodeInv,
         BeginTurn \/ CallRaises \/ CallFails \/ Answer \/ RunTools \/ (TryAgain /\ ~Memory)
  PROVE  EpisodeInv'
<1>1. ~Memory /\ case' = case /\ KeepEpisode
  BY DEF BeginTurn, CallRaises, CallFails, Answer, RunTools, TryAgain, execution, KeepEpisode, EpisodeInv, Placed, Memory
<1>2. pc' # "prepare" /\ pc' # "step" /\ (call' = NoCall \/ pc' = "calling")
  BY DEF BeginTurn, CallRaises, CallFails, Answer, RunTools, TryAgain, execution, Throw, Return
<1>3. Placed'
  BY <1>1, <1>2 DEF Placed, Memory
<1> QED BY <1>1, <1>3, OtherExecutors

(***************************************************************************)
(* Steps of an episode.  Cleared: the step at "at" may act.  What is sent  *)
(* or logged in such a step belongs to it.                                 *)
(***************************************************************************)
Cleared == case.frozen \/ (~Unknown /\ Executed(at))

SentGrows ==
  /\ sent' \in Seq(Nat)
  /\ \A k \in 1 .. Len(sent') :
       \/ k \in 1 .. Len(sent) /\ sent'[k] = sent[k]
       \/ sent'[k] = at /\ Cleared /\ (case.frozen => Step.action = "generate")

CallsGrow ==
  \A k \in 1 .. Len(calls') :
    \/ k \in 1 .. Len(calls) /\ calls'[k] = calls[k]
    \/ CalledBy(calls'[k], at) /\ Cleared

LEMMA NothingGrows == sent \in Seq(Nat) /\ sent' = sent => SentGrows
  BY DEF SentGrows

LEMMA SendingGrows ==
  ASSUME sent \in Seq(Nat), at \in Nat, sent' = Append(sent, at), Cleared, case.frozen => Step.action = "generate"
  PROVE  SentGrows
<1>1. sent' \in Seq(Nat) /\ Len(sent') = Len(sent) + 1 /\ sent'[Len(sent) + 1] = at
      /\ \A k \in 1 .. Len(sent) : sent'[k] = sent[k]
  OBVIOUS
<1> QED BY <1>1 DEF SentGrows

LEMMA Recording ==
  ASSUME CaseOK, EpisodeInv, Memory, pc \in {"step", "calling"}, at <= Len(case.steps),
         NEW status \in StepStatus, StepRecorded(status), call' = NoCall,
         SentGrows, CallsGrow,
         case.frozen => applied' = {} /\ status # "indeterminate"
  PROVE  EpisodeInv'
<1> USE DEF EpisodeInv
<1>1. /\ at = Len(records) + 1 /\ Len(records) \in Nat /\ at \in Nat /\ at' = Len(records) + 2
      /\ case' = case /\ Memory' /\ pc' = "step"
  BY DEF Placed, StepRecorded, RecordsOK, Memory
<1>2. /\ records' \in Seq(StepStatus) /\ Len(records') = at /\ records'[at] = status
      /\ \A n \in 1 .. Len(records) : n \in 1 .. Len(records') /\ records'[n] = records[n]
  BY <1>1 DEF StepRecorded, RecordsOK
<1>3. Placed'
  BY <1>1, <1>2 DEF Placed
<1>4. \A k \in 1 .. Len(sent') : sent'[k] \in 1 .. at
  <2> SUFFICES ASSUME NEW k \in 1 .. Len(sent') PROVE sent'[k] \in 1 .. at
    OBVIOUS
  <2>1. at \in 1 .. at /\ 1 .. Len(records) \subseteq 1 .. at
    BY <1>1
  <2> QED BY <2>1 DEF SentGrows, RecordsOK
<1>5. RecordsOK'
  BY <1>1, <1>2, <1>4 DEF RecordsOK, SentGrows
<1>6. \A n : UnknownAt(n)' => UnknownAt(n) \/ (n = at /\ status = "indeterminate")
  BY <1>1, <1>2 DEF UnknownAt
<1>7. FrozenOK'
  <2> SUFFICES ASSUME case.frozen
               PROVE  \A k \in 1 .. Len(sent') : case.steps[sent'[k]].action = "generate"
    BY <1>1, <1>6 DEF FrozenOK
  <2> QED BY DEF FrozenOK, SentGrows, Step
<1>8. \A m : Executed(m) => Executed(m)'
  BY <1>1, <1>2, ExecutedStays
<1>9. ASSUME ~case.frozen
      PROVE  \A k \in 1 .. Len(calls') :
               \E m \in 1 .. at : m <= Len(case.steps) /\ CalledBy(calls'[k], m) /\ Executed(m)
  <2>1. Reached <= at /\ Reached \in Nat
    BY <1>1 DEF Reached
  <2>2. \A k \in 1 .. Len(calls) :
          \E m \in 1 .. at : m <= Len(case.steps) /\ CalledBy(calls[k], m) /\ Executed(m)
    BY <1>1, <1>9, <2>1 DEF SourcesOK
  <2>3. at \in 1 .. at
    BY DEF CaseOK
  <2> QED BY <1>9, <2>2, <2>3 DEF CallsGrow, Cleared
<1>10. SourcesOK'
  <2> SUFFICES ASSUME ~case.frozen
               PROVE  SourcesOK'
    BY <1>1 DEF SourcesOK
  <2>1. ASSUME NEW k \in 1 .. Len(sent') PROVE Executed(sent[k])'
    <3>1. PICK j \in 1 .. at : sent'[k] = j
      BY <1>4
    <3>2. Executed(j)
      BY <3>1 DEF SentGrows, SourcesOK, Cleared
    <3>3. Executed(j)'
      BY <1>8, <3>2
    <3> QED BY <3>1, <3>3 DEF Executed
  <2>2. ASSUME NEW k \in 1 .. Len(calls')
        PROVE  \E m \in 1 .. at : m <= Len(case.steps) /\ CalledBy(calls[k], m)' /\ Executed(m)'
    <3>1. PICK m \in 1 .. at : m <= Len(case.steps) /\ CalledBy(calls'[k], m) /\ Executed(m)
      BY <1>9
    <3>2. CalledBy(calls[k], m)'
      BY <1>1, <3>1 DEF CalledBy
    <3> QED BY <1>8, <3>1, <3>2
  <2>3. Reached' = at
    BY <1>1, <1>2 DEF Reached
  <2> QED BY <1>1, <2>1, <2>2, <2>3 DEF SourcesOK
<1>11. StoppedOK'
  <2> SUFFICES ASSUME NEW n, UnknownAt(n)'
               PROVE  /\ \A k \in 1 .. Len(sent') : sent'[k] <= n
                      /\ \A k \in 1 .. Len(calls') : \E m \in 1 .. n : CalledBy(calls'[k], m)
    BY <1>1 DEF StoppedOK, CalledBy
  <2>1. ~case.frozen
    BY <1>1, <1>5, <1>7 DEF FrozenOK
  <2>2. CASE UnknownAt(n)
    <3>1. Unknown
      BY <2>2, UnknownIsSomewhere
    <3>2. ~Cleared
      BY <2>1, <3>1 DEF Cleared
    <3> QED BY <2>2, <3>2 DEF SentGrows, CallsGrow, StoppedOK
  <2>3. CASE n = at
    BY <1>4, <1>9, <2>1, <2>3
  <2> QED BY <1>6, <2>2, <2>3
<1> QED BY <1>3, <1>5, <1>7, <1>10, <1>11

LEMMA Calling ==
  ASSUME CaseOK, EpisodeInv, Memory, pc \in {"step", "calling"}, at <= Len(case.steps),
         KeepEpisode, case' = case, at' = at, pc' = "calling",
         CalledBy(call', at), CallsGrow, Cleared
  PROVE  EpisodeInv'
<1> USE DEF EpisodeInv, KeepEpisode
<1>1. at = Len(records) + 1 /\ Memory' /\ Reached' = at /\ Reached <= at /\ Reached \in Nat
  BY DEF Placed, RecordsOK, Memory, Reached
<1>2. Placed'
  BY <1>1 DEF Placed, Cleared, CalledBy, Unknown, Executed
<1>3. RecordsOK' /\ FrozenOK'
  BY DEF RecordsOK, FrozenOK, UnknownAt, Memory
<1>4. SourcesOK'
  <2> SUFFICES ASSUME ~case.frozen
               PROVE  SourcesOK'
    BY <1>1 DEF SourcesOK
  <2>1. \A k \in 1 .. Len(calls) :
          \E m \in 1 .. at : m <= Len(case.steps) /\ CalledBy(calls[k], m) /\ Executed(m)
    BY <1>1 DEF SourcesOK
  <2>2. at \in 1 .. at
    BY DEF CaseOK
  <2>3. \A m : Executed(m) => Executed(m)'
    BY ExecutedStays DEF RecordsOK
  <2>4. ASSUME NEW k \in 1 .. Len(calls')
        PROVE  \E m \in 1 .. at : m <= Len(case.steps) /\ CalledBy(calls[k], m)' /\ Executed(m)'
    <3>1. PICK m \in 1 .. at : m <= Len(case.steps) /\ CalledBy(calls'[k], m) /\ Executed(m)
      BY <2>1, <2>2 DEF CallsGrow, Cleared
    <3>2. CalledBy(calls[k], m)'
      BY <3>1 DEF CalledBy
    <3> QED BY <2>3, <3>1, <3>2
  <2>5. ASSUME NEW k \in 1 .. Len(sent') PROVE Executed(sent[k])'
    <3>1. Executed(sent[k])
      BY DEF SourcesOK
    <3> QED BY <3>1 DEF Executed
  <2> QED BY <1>1, <2>4, <2>5 DEF SourcesOK
<1>5. \A n : ~UnknownAt(n)'
  <2>1. \A n : ~UnknownAt(n)
    BY UnknownIsSomewhere DEF Cleared, FrozenOK
  <2> QED BY <2>1 DEF UnknownAt
<1>6. StoppedOK'
  BY <1>5 DEF StoppedOK
<1> QED BY <1>2, <1>3, <1>4, <1>6

LEMMA NoReplyGrows == calls \in Seq(LoggedCall) /\ calls' = calls => CallsGrow
  BY DEF CallsGrow

LEMMA ReplyGrows ==
  ASSUME calls \in Seq(LoggedCall), NEW reply, calls' = Logged(reply), CalledBy(call, at), Cleared
  PROVE  CallsGrow
<1> DEFINE new == [stage |-> call.stage, try |-> call.try, reply |-> reply]
<1>1. /\ calls' = Append(calls, new)
      /\ Len(calls') = Len(calls) + 1 /\ calls'[Len(calls) + 1] = new
      /\ \A k \in 1 .. Len(calls) : calls'[k] = calls[k]
  BY DEF Logged
<1>2. CalledBy(new, at)
  BY DEF CalledBy
<1> QED BY <1>1, <1>2 DEF CallsGrow

LEMMA RecordSteps ==
  ASSUME CallInv, EpisodeInv, SkipStep \/ BackendStep \/ GenerateRefused \/ ReplayStep \/ FrozenAnswer
  PROVE  EpisodeInv'
<1> USE DEF CallInv
<1>1. /\ AtStep /\ pc = "step" /\ Memory /\ at <= Len(case.steps) /\ call = NoCall /\ at = Len(records) + 1
      /\ KeepCall /\ calls' = calls /\ call' = NoCall
  BY DEF SkipStep, BackendStep, GenerateRefused, ReplayStep, FrozenAnswer, Runnable, AtStep, KeepCall,
         EpisodeInv, Placed
<1>2. CallsGrow /\ sent \in Seq(Nat) /\ at \in Nat
  BY <1>1, NoReplyGrows DEF CallsOK, EpisodeInv, RecordsOK, CaseOK
<1>3. Runnable => Cleared /\ ~case.frozen
  BY <1>1, RunnableHasSources DEF Runnable, Cleared, EpisodeInv
<1>4. case.frozen => applied = {}
  BY DEF EpisodeInv, FrozenOK
<1>5. CASE SkipStep \/ ReplayStep \/ GenerateRefused
  <2>1. PICK status \in {"skipped", "ok", "error"} : StepRecorded(status)
    BY <1>5 DEF SkipStep, ReplayStep, GenerateRefused
  <2>2. sent' = sent /\ applied' = applied
    BY <1>5 DEF SkipStep, ReplayStep, GenerateRefused
  <2> QED BY <1>1, <1>2, <1>4, <2>1, <2>2, NothingGrows, Recording DEF StepStatus
<1>6. CASE FrozenAnswer
  <2>1. SentGrows
    BY <1>2, <1>6, SendingGrows DEF FrozenAnswer, Cleared
  <2> QED BY <1>1, <1>2, <1>4, <1>6, <2>1, Recording DEF FrozenAnswer, StepStatus
<1>7. CASE BackendStep
  <2>1. PICK status \in StepStatus : StepRecorded(status)
    BY <1>7 DEF BackendStep, TimedOut, StepStatus
  <2>2. SentGrows /\ ~case.frozen
    BY <1>2, <1>3, <1>7, SendingGrows DEF BackendStep
  <2> QED BY <1>1, <1>2, <2>1, <2>2, Recording
<1> QED BY <1>5, <1>6, <1>7

LEMMA CallSteps ==
  ASSUME CallInv, EpisodeInv, BeginGenerate \/ GenerateEnds \/ (TryAgain /\ Memory)
  PROVE  EpisodeInv'
<1> USE DEF CallInv
<1>1. calls \in Seq(LoggedCall)
  BY DEF CallsOK
<1>2. CASE BeginGenerate
  <2>1. /\ pc = "step" /\ Memory /\ at <= Len(case.steps) /\ at = Len(records) + 1
        /\ KeepEpisode /\ case' = case /\ at' = at /\ pc' = "calling" /\ calls' = calls
        /\ call' = [open |-> TRUE, stage |-> <<"generate", Step.id>>, try |-> 0]
    BY <1>2 DEF BeginGenerate, AtStep, BeginCall, EpisodeInv, Placed
  <2>2. Cleared
    BY <1>2, <2>1, RunnableHasSources DEF BeginGenerate, Runnable, Cleared, EpisodeInv
  <2>3. CalledBy(call', at)
    BY <2>1 DEF CalledBy, Step
  <2> QED BY <1>1, <2>1, <2>2, <2>3, NoReplyGrows, Calling
<1>3. ASSUME pc = "calling", Memory, call.open
      PROVE  CalledBy(call, at) /\ Cleared /\ at <= Len(case.steps)
  BY <1>3, OpenIsNoNoCall DEF EpisodeInv, Placed, Cleared
<1>4. CASE TryAgain /\ Memory
  <2>1. PICK reply \in Replies : Retry(reply)
    BY <1>4 DEF TryAgain
  <2>2. CalledBy(call, at) /\ Cleared /\ at <= Len(case.steps)
    BY <1>3, <1>4, <2>1 DEF TryAgain, Retry
  <2>3. CallsGrow
    BY <1>1, <2>1, <2>2, ReplyGrows DEF Retry
  <2>4. call'.stage = call.stage
    <3>1. call \in [open : {TRUE}, stage : Stage, try : 0 .. MaxRetries]
      BY <2>1, OpenIsNoNoCall DEF CallOK, Retry
    <3> QED BY <2>1, <3>1 DEF Retry
  <2>5. KeepEpisode /\ case' = case /\ at' = at /\ pc' = "calling" /\ pc = "calling"
    BY <1>4 DEF TryAgain, execution, KeepEpisode
  <2> QED BY <1>4, <2>2, <2>3, <2>4, <2>5, Calling DEF CalledBy
<1>5. CASE GenerateEnds
  <2>1. PICK status \in {"ok", "error"} : StepRecorded(status)
    BY <1>5 DEF GenerateEnds
  <2>2. pc = "calling" /\ Memory /\ call.open /\ call' = NoCall /\ sent' = sent /\ applied' = applied
    BY <1>5 DEF GenerateEnds, Return, Throw
  <2>3. CallsGrow
    <3>1. CASE Throw
      BY <1>1, <3>1, NoReplyGrows DEF Throw
    <3>2. ASSUME NEW reply, Return(reply) PROVE CallsGrow
      BY <1>1, <1>3, <2>2, <3>2, ReplyGrows DEF Return
    <3> QED BY <1>5, <3>1, <3>2 DEF GenerateEnds
  <2>4. SentGrows /\ (case.frozen => applied' = {})
    BY <2>2, NothingGrows DEF EpisodeInv, RecordsOK, FrozenOK
  <2> QED BY <1>3, <2>1, <2>2, <2>3, <2>4, Recording DEF StepStatus
<1> QED BY <1>2, <1>4, <1>5

LEMMA EpisodeInvariant == Spec => [](CallInv /\ EpisodeInv)
<1>1. Init => EpisodeInv
  <2> SUFFICES ASSUME Init PROVE EpisodeInv
    OBVIOUS
  <2>1. CaseOK /\ pc = "prepare" /\ at = 1 /\ records = <<>> /\ sent = <<>> /\ applied = {} /\ call = NoCall /\ calls = <<>>
    BY DEF Init, CaseOK
  <2>2. Placed /\ RecordsOK
    BY <2>1, CaseFacts DEF Placed, RecordsOK
  <2>3. \A n : ~UnknownAt(n)
    BY <2>1 DEF UnknownAt
  <2>4. FrozenOK /\ SourcesOK /\ StoppedOK
    BY <2>1, <2>3, CaseFacts DEF FrozenOK, SourcesOK, StoppedOK
  <2> QED BY <2>2, <2>4 DEF EpisodeInv
<1>2. CallInv /\ EpisodeInv /\ [Next]_vars => EpisodeInv'
  <2> SUFFICES ASSUME CallInv, EpisodeInv, [Next]_vars PROVE EpisodeInv'
    OBVIOUS
  <2>1. CaseOK /\ CaseOK'
    BY StepChangesCall DEF CallInv
  <2>2. CASE UNCHANGED vars \/ Prepare \/ OutOfTurns \/ EndEpisode \/ Close \/ Finish \/ FrozenRaises
    BY <2>1, <2>2, QuietSteps
  <2>3. CASE BeginTurn \/ CallRaises \/ CallFails \/ Answer \/ RunTools \/ (TryAgain /\ ~Memory)
    BY <2>1, <2>3, OtherSteps
  <2>4. CASE SkipStep \/ BackendStep \/ GenerateRefused \/ ReplayStep \/ FrozenAnswer
    BY <2>4, RecordSteps
  <2>5. CASE BeginGenerate \/ GenerateEnds \/ (TryAgain /\ Memory)
    BY <2>5, CallSteps
  <2> QED BY <2>2, <2>3, <2>4, <2>5 DEF Next, Done
<1> QED BY <1>1, <1>2, CallInvariant, PTL DEF Spec

(* After a mutation of unknown outcome nothing is sent and nothing generated:
   run_episode stops as indeterminate (execution/episode.py), for episodes of
   any length. *)
THEOREM UnknownStopsTheEpisode == Spec => []NothingAfterUnknown
<1>1. CallInv /\ EpisodeInv => NothingAfterUnknown
  <2> SUFFICES ASSUME CallInv, EpisodeInv, NEW n \in DOMAIN records, records[n] = "indeterminate"
               PROVE  /\ \A m \in Range(sent) : m <= n
                      /\ \A c \in Range(calls) : \E m \in 1 .. n : c.stage = <<"generate", case.steps[m].id>>
                      /\ ~call.open
    BY DEF NothingAfterUnknown
  <2>1. UnknownAt(n)
    BY DEF UnknownAt, EpisodeInv, RecordsOK
  <2>2. call = NoCall
    BY <2>1 DEF EpisodeInv, StoppedOK
  <2>3. ~call.open
    BY <2>2, OpenIsNoNoCall
  <2>4. ASSUME NEW m \in Range(sent) PROVE m <= n
    <3>1. PICK k \in 1 .. Len(sent) : sent[k] = m
      BY <2>4 DEF Range, EpisodeInv, RecordsOK
    <3> QED BY <2>1, <3>1 DEF EpisodeInv, StoppedOK
  <2>5. ASSUME NEW c \in Range(calls) PROVE \E m \in 1 .. n : c.stage = <<"generate", case.steps[m].id>>
    <3>1. PICK k \in 1 .. Len(calls) : calls[k] = c
      BY <2>5 DEF Range, CallInv, CallsOK
    <3> QED BY <2>1, <3>1 DEF EpisodeInv, StoppedOK, CalledBy
  <2> QED BY <2>3, <2>4, <2>5
<1> QED BY <1>1, EpisodeInvariant, PTL

(* A replay of a frozen context sends the backend nothing but generate steps
   and changes no store (_frozen_episode, execution/trial_runner.py). *)
THEOREM ReplayMutatesNothing == Spec => []FrozenNeverMutates
<1>1. EpisodeInv => FrozenNeverMutates
  BY DEF EpisodeInv, FrozenOK, RecordsOK, FrozenNeverMutates, Range
<1> QED BY <1>1, EpisodeInvariant, PTL

(* What is sent, and what generation is asked for, builds on steps that were
   executed with success in the right store: the checks of episode_errors
   (domain/episode.py), made when a scenario is stored, are enough for
   run_episode, which makes none. *)
THEOREM StepsHaveTheirSources == Spec => []SourcesExecuted
<1>1. CallInv /\ EpisodeInv => SourcesExecuted
  <2> SUFFICES ASSUME CallInv, EpisodeInv, ~case.frozen, NEW m \in Positions,
                      \/ m \in Range(sent)
                      \/ \E c \in Range(calls) : Memory /\ c.stage = <<"generate", case.steps[m].id>>
               PROVE  Executed(m)
    <3>1. DOMAIN records = 1 .. Len(records)
      BY DEF EpisodeInv, RecordsOK
    <3> QED BY <3>1 DEF SourcesExecuted, Executed
  <2>1. CASE m \in Range(sent)
    <3>1. PICK k \in 1 .. Len(sent) : sent[k] = m
      BY <2>1 DEF Range, EpisodeInv, RecordsOK
    <3>2. Memory
      BY <3>1 DEF EpisodeInv, RecordsOK
    <3> QED BY <3>1, <3>2 DEF EpisodeInv, SourcesOK
  <2>2. ASSUME NEW c \in Range(calls), Memory, c.stage = <<"generate", case.steps[m].id>> PROVE Executed(m)
    <3>1. PICK k \in 1 .. Len(calls) : calls[k] = c
      BY <2>2 DEF Range, CallInv, CallsOK
    <3>2. PICK j \in 1 .. Reached : j <= Len(case.steps) /\ CalledBy(c, j) /\ Executed(j)
      BY <2>2, <3>1 DEF EpisodeInv, SourcesOK
    <3>3. case.steps[j].id = case.steps[m].id
      BY <2>2, <3>2 DEF CalledBy
    <3>4. \A a, b \in Positions : a < b => case.steps[a].id # case.steps[b].id
      BY CaseFacts DEF CallInv, Accepted, AcceptedAt, SeenBefore, Positions
    <3>5. j \in Positions /\ m \in Nat /\ j \in Nat
      BY <3>2, CaseFacts DEF CallInv, Positions, Reached, EpisodeInv, RecordsOK
    <3>6. j = m
      BY <3>3, <3>4, <3>5
    <3> QED BY <3>2, <3>6
  <2> QED BY <2>1, <2>2
<1> QED BY <1>1, EpisodeInvariant, PTL

(***************************************************************************)
(* The sandbox.                                                            *)
(***************************************************************************)
Asked == UNION {Range(tools) : tools \in Asks}
Tried == {[call |-> c, error |-> ErrorOf(c)] : c \in Asked}
Fine  == {r \in Tried : r.error = "none"}

ToolsInv ==
  /\ sandbox \in Seq(Tried)
  /\ effects \in Seq({c \in Asked : ErrorOf(c) = "none"})
  /\ Len(effects) = Len(Select(sandbox, Fine))
  /\ \A n \in DOMAIN effects : \E m \in DOMAIN sandbox : effects[n] = sandbox[m].call

(* A reply's calls have their effects as often as records have no error. *)
LEMMA EffectsOfReply ==
  ASSUME NEW tools \in Asks
  PROVE  /\ Recorded(tools) \in Seq(Tried)
         /\ Effects(tools) \in Seq({c \in Asked : ErrorOf(c) = "none"})
         /\ Len(Effects(tools)) = Len(Select(Recorded(tools), Fine))
         /\ \A n \in DOMAIN Effects(tools) : \E m \in DOMAIN Recorded(tools) : Effects(tools)[n] = Recorded(tools)[m].call
<1> DEFINE done == {c \in Range(tools) : ErrorOf(c) = "none"}
<1>1. tools \in Seq(Asked)
  <2>1. tools \in Seq(Range(tools)) /\ Range(tools) \subseteq Asked
    BY AsksAssumption DEF Asked
  <2> QED BY <2>1, SeqMonotone
<1>2. /\ DOMAIN Recorded(tools) = DOMAIN tools
      /\ \A n \in DOMAIN tools : Recorded(tools)[n] = [call |-> tools[n], error |-> ErrorOf(tools[n])]
  BY DEF Recorded
<1>3. Recorded(tools) \in Seq(Tried)
  <2>1. \A n \in 1 .. Len(tools) : [call |-> tools[n], error |-> ErrorOf(tools[n])] \in Tried
    BY <1>1 DEF Tried
  <2>2. Recorded(tools) \in [1 .. Len(tools) -> Tried] /\ Len(tools) \in Nat
    BY <1>1, <2>1 DEF Recorded
  <2> QED BY <2>2
<1>4. {n \in DOMAIN Recorded(tools) : Recorded(tools)[n] \in Fine} = {n \in DOMAIN tools : tools[n] \in done}
  <2> SUFFICES ASSUME NEW n \in DOMAIN tools
               PROVE  Recorded(tools)[n] \in Fine <=> tools[n] \in done
    BY <1>2
  <2>1. tools[n] \in Range(tools)
    BY DEF Range
  <2>2. Recorded(tools)[n].error = ErrorOf(tools[n]) /\ Recorded(tools)[n] \in Tried
    BY <1>1, <1>2 DEF Tried
  <2> QED BY <2>1, <2>2 DEF Fine
<1>5. Len(Effects(tools)) = Len(Select(Recorded(tools), Fine))
  <2>1. Len(Select(Recorded(tools), Fine)) = Cardinality({n \in DOMAIN Recorded(tools) : Recorded(tools)[n] \in Fine})
    BY <1>3, SelectLength
  <2>2. Len(Select(tools, done)) = Cardinality({n \in DOMAIN tools : tools[n] \in done})
    <3> HIDE DEF done
    <3> QED BY <1>1, SelectLength
  <2> QED BY <1>4, <2>1, <2>2 DEF Effects
<1>6. Effects(tools) \in Seq({c \in Asked : ErrorOf(c) = "none"})
  <2>1. Select(tools, done) \in Seq(Asked \cap done)
    BY <1>1, SelectType
  <2>2. Asked \cap done \subseteq {c \in Asked : ErrorOf(c) = "none"}
    OBVIOUS
  <2> HIDE DEF done
  <2> QED BY <2>1, <2>2, SeqMonotone DEF Effects, done
<1>7. \A n \in DOMAIN Effects(tools) : \E m \in DOMAIN Recorded(tools) : Effects(tools)[n] = Recorded(tools)[m].call
  <2> SUFFICES ASSUME NEW n \in DOMAIN Effects(tools)
               PROVE  \E m \in DOMAIN tools : tools[m] = Effects(tools)[n]
    BY <1>2
  <2>1. Effects(tools) = Select(tools, done)
    BY DEF Effects
  <2> HIDE DEF done
  <2> QED BY <1>1, <2>1, SelectRange
<1> QED BY <1>3, <1>5, <1>6, <1>7

LEMMA ToolsStep ==
  ASSUME ToolsInv, [Next]_vars
  PROVE  ToolsInv'
<1>1. CASE UNCHANGED <<sandbox, effects>>
  BY <1>1 DEF ToolsInv
<1>2. CASE RunTools
  <2>1. PICK tools \in Asks : sandbox' = sandbox \o Recorded(tools) /\ effects' = effects \o Effects(tools)
    BY <1>2 DEF RunTools
  <2> DEFINE R == Recorded(tools)
             D == Effects(tools)
             done == {c \in Asked : ErrorOf(c) = "none"}
  <2>2. R \in Seq(Tried) /\ D \in Seq(done) /\ Len(D) = Len(Select(R, Fine))
        /\ \A n \in DOMAIN D : \E m \in DOMAIN R : D[n] = R[m].call
    BY EffectsOfReply
  <2>3. sandbox \in Seq(Tried) /\ effects \in Seq(done) /\ Len(effects) = Len(Select(sandbox, Fine))
        /\ \A n \in DOMAIN effects : \E m \in DOMAIN sandbox : effects[n] = sandbox[m].call
    BY DEF ToolsInv
  <2>4. sandbox' = sandbox \o R /\ effects' = effects \o D
    BY <2>1
  <2> HIDE DEF R, D, done
  <2>5. sandbox' \in Seq(Tried) /\ effects' \in Seq(done)
    BY <2>2, <2>3, <2>4
  <2>6. Len(effects') = Len(Select(sandbox', Fine))
    <3>1. Select(sandbox', Fine) = Select(sandbox, Fine) \o Select(R, Fine)
      BY <2>2, <2>3, <2>4, SelectConcat
    <3>2. Select(sandbox, Fine) \in Seq(Tried) /\ Select(R, Fine) \in Seq(Tried)
      BY <2>2, <2>3, SelectSeqOf
    <3>3. Len(Select(sandbox', Fine)) = Len(Select(sandbox, Fine)) + Len(Select(R, Fine))
      BY <3>1, <3>2
    <3>4. Len(effects') = Len(effects) + Len(D)
      <4>1. effects \in Seq(done) /\ D \in Seq(done)
        BY <2>2, <2>3
      <4>2. Len(effects \o D) = Len(effects) + Len(D)
        BY <4>1
      <4> QED BY <2>4, <4>2
    <3> QED BY <2>2, <2>3, <3>3, <3>4
  <2>7. ASSUME NEW n \in DOMAIN effects' PROVE \E m \in DOMAIN sandbox' : effects'[n] = sandbox'[m].call
    <3>1. CASE n \in DOMAIN effects
      <4>1. PICK m \in DOMAIN sandbox : effects[n] = sandbox[m].call
        BY <2>3, <3>1
      <4>2. m \in DOMAIN sandbox' /\ sandbox'[m] = sandbox[m]
        BY <2>2, <2>3, <2>4
      <4>3. effects'[n] = effects[n]
        BY <2>2, <2>3, <2>4, <3>1
      <4> QED BY <4>1, <4>2, <4>3
    <3>2. CASE n \notin DOMAIN effects
      <4>1. n - Len(effects) \in DOMAIN D /\ effects'[n] = D[n - Len(effects)]
        BY <2>2, <2>3, <2>4, <3>2
      <4>2. PICK m \in DOMAIN R : D[n - Len(effects)] = R[m].call
        BY <2>2, <4>1
      <4>3. Len(sandbox) + m \in DOMAIN sandbox' /\ sandbox'[Len(sandbox) + m] = R[m]
        BY <2>2, <2>3, <2>4
      <4> QED BY <4>1, <4>2, <4>3
    <3> QED BY <3>1, <3>2
  <2> QED BY <2>5, <2>6, <2>7 DEF ToolsInv, done
<1>3. ASSUME Next, ~RunTools PROVE UNCHANGED <<sandbox, effects>>
  BY <1>3 DEF Next, Done, vars, execution, Prepare, BeginTurn, TryAgain, CallRaises, CallFails, Answer, OutOfTurns,
              SkipStep, BackendStep, GenerateRefused, BeginGenerate, GenerateEnds, ReplayStep, FrozenAnswer, FrozenRaises,
              EndEpisode, Close, Finish, StepRecorded, KeepTools
<1>4. UNCHANGED vars => UNCHANGED <<sandbox, effects>>
  BY DEF vars, execution
<1> QED BY <1>1, <1>2, <1>3, <1>4

LEMMA ToolsInvariant == Spec => []ToolsInv
<1>1. Init => ToolsInv
  <2> SUFFICES ASSUME Init PROVE ToolsInv
    OBVIOUS
  <2>1. sandbox = <<>> /\ effects = <<>>
    BY DEF Init
  <2>2. Len(Select(<<>>, Fine)) = 0
    BY SelectEmpty, NoElements
  <2> QED BY <2>1, <2>2, NoElements DEF ToolsInv
<1>2. ToolsInv /\ [Next]_vars => ToolsInv'
  BY ToolsStep
<1> QED BY <1>1, <1>2, PTL DEF Spec

(* "Tools that require confirmation do nothing unless called with confirmed:
   true" (execution/sandbox.py): the declared effects are those of valid calls,
   guarded ones confirmed in that very call, and come about as often as a record
   has no error - for any tools, arguments, turns and order of the calls. *)
THEOREM EffectsNeedConfirmation == Spec => []EffectsAreConfirmed
<1>1. ToolsInv => EffectsAreConfirmed
  <2> SUFFICES ASSUME ToolsInv PROVE EffectsAreConfirmed
    OBVIOUS
  <2>1. ASSUME NEW c \in Asked, ErrorOf(c) = "none"
        PROVE  c.tool \in Tool /\ Valid(c) /\ (c.tool \in Guarded => c.args = "confirmed")
    BY <2>1 DEF ErrorOf, Valid
  <2>2. \A n \in DOMAIN effects : effects[n] \in {c \in Asked : ErrorOf(c) = "none"}
    BY DEF ToolsInv
  <2>3. Len(Select(sandbox, Fine)) = Cardinality({n \in DOMAIN sandbox : sandbox[n] \in Fine})
    BY SelectLength DEF ToolsInv
  <2>4. \A n \in DOMAIN sandbox : sandbox[n] \in Fine <=> sandbox[n].error = "none"
    BY DEF ToolsInv, Fine
  <2>5. {n \in DOMAIN sandbox : sandbox[n] \in Fine} = {n \in DOMAIN sandbox : sandbox[n].error = "none"}
    BY <2>4
  <2> QED BY <2>1, <2>2, <2>3, <2>5 DEF EffectsAreConfirmed, ToolsInv
<1> QED BY <1>1, ToolsInvariant, PTL

(***************************************************************************)
(* What the records of an episode say of the work behind them.             *)
(***************************************************************************)
WorkInv ==
  /\ \A n \in 1 .. Len(records) : records[n] = "skipped" =>
       \E m \in 1 .. Len(records) : records[m] \in {"error", "timeout", "indeterminate"}
  /\ \A n \in 1 .. Len(records) :
       records[n] = "ok" /\ ~case.frozen /\ Mutating(case.steps[n]) => n \in applied
  /\ \A n \in applied : Mutating(case.steps[n]) /\ \E k \in 1 .. Len(sent) : sent[k] = n
  /\ \A j, k \in 1 .. Len(sent) : j < k => sent[j] < sent[k]

LEMMA WorkRecorded ==
  ASSUME CaseOK, EpisodeInv, WorkInv, Memory, pc \in {"step", "calling"},
         NEW status \in StepStatus, StepRecorded(status),
         \/ sent' = sent /\ applied' = applied
         \/ sent' = Append(sent, at) /\ (applied' = applied \/ (applied' = applied \cup {at} /\ Mutating(Step))),
         status = "ok" /\ ~case.frozen /\ Mutating(Step) => at \in applied',
         status = "skipped" => \E m \in 1 .. Len(records) : records[m] # "ok"
  PROVE  WorkInv'
<1>1. /\ records \in Seq(StepStatus) /\ Len(records) \in Nat /\ at = Len(records) + 1 /\ case' = case
      /\ sent \in Seq(Nat) /\ Len(sent) \in Nat /\ \A k \in 1 .. Len(sent) : sent[k] \in 1 .. Len(records)
  BY DEF EpisodeInv, Placed, RecordsOK, StepRecorded
<1>2. /\ Len(records') = at /\ records'[at] = status
      /\ \A n \in 1 .. Len(records) : n \in 1 .. at /\ records'[n] = records[n]
      /\ \A n \in 1 .. at : n = at \/ n \in 1 .. Len(records)
      /\ at \in 1 .. at
  BY <1>1 DEF StepRecorded
<1>3. ASSUME NEW n \in 1 .. at, records'[n] = "skipped"
      PROVE  \E m \in 1 .. at : records'[m] \in {"error", "timeout", "indeterminate"}
  <2>1. \E m \in 1 .. Len(records) : records[m] # "ok"
    <3>1. CASE n = at
      BY <1>2, <1>3, <3>1
    <3>2. CASE n \in 1 .. Len(records)
      BY <1>2, <1>3, <3>2
    <3> QED BY <1>2, <3>1, <3>2
  <2>2. PICK m \in 1 .. Len(records) : records[m] # "ok"
    BY <2>1
  <2>3. records[m] \in StepStatus
    BY <1>1
  <2>4. \E k \in 1 .. Len(records) : records[k] \in {"error", "timeout", "indeterminate"}
    BY <2>2, <2>3 DEF StepStatus, WorkInv
  <2> QED BY <1>2, <2>4
<1>4. applied \subseteq applied' /\ applied' \subseteq applied \cup {at}
  OBVIOUS
<1>5. ASSUME NEW n \in 1 .. at, records'[n] = "ok", ~case.frozen, Mutating(case.steps[n])
      PROVE  n \in applied'
  BY <1>2, <1>4, <1>5 DEF WorkInv, Step
<1>6. /\ Len(sent') \in Nat
      /\ \A k \in 1 .. Len(sent) : k \in 1 .. Len(sent') /\ sent'[k] = sent[k]
      /\ \A k \in 1 .. Len(sent') : k \in 1 .. Len(sent) \/ (k = Len(sent) + 1 /\ sent'[k] = at)
      /\ at \in applied' \ applied => \E k \in 1 .. Len(sent') : sent'[k] = at
  <2>1. CASE sent' = sent /\ applied' = applied
    BY <1>1, <2>1
  <2>2. CASE sent' = Append(sent, at)
    <3>1. Len(sent') = Len(sent) + 1 /\ sent'[Len(sent) + 1] = at /\ \A k \in 1 .. Len(sent) : sent'[k] = sent[k]
      BY <1>1, <2>2
    <3> QED BY <1>1, <3>1
  <2> QED BY <2>1, <2>2
<1>7. ASSUME NEW n \in applied'
      PROVE  Mutating(case.steps[n]) /\ \E k \in 1 .. Len(sent') : sent'[k] = n
  <2>1. CASE n \in applied
    BY <1>6, <2>1 DEF WorkInv
  <2>2. CASE n \notin applied
    BY <1>4, <1>6, <1>7, <2>2 DEF Step
  <2> QED BY <2>1, <2>2
<1>8. ASSUME NEW j \in 1 .. Len(sent'), NEW k \in 1 .. Len(sent'), j < k
      PROVE  sent'[j] < sent'[k]
  <2>1. j \in 1 .. Len(sent) /\ sent[j] \in 1 .. Len(records) /\ sent'[j] = sent[j]
    BY <1>1, <1>6, <1>8
  <2>2. CASE k \in 1 .. Len(sent)
    BY <1>6, <1>8, <2>1, <2>2 DEF WorkInv
  <2>3. CASE sent'[k] = at
    BY <1>1, <2>1, <2>3
  <2> QED BY <1>6, <2>2, <2>3
<1> QED BY <1>1, <1>2, <1>3, <1>5, <1>7, <1>8 DEF WorkInv

(* only an answer is waited for *)
GeneratesOnly == Memory /\ pc = "calling" => Step.action = "generate"

LEMMA GeneratesStep ==
  ASSUME EpisodeInv, GeneratesOnly, [Next]_vars
  PROVE  GeneratesOnly'
<1>1. CASE UNCHANGED <<case, pc, at>>
  BY <1>1 DEF GeneratesOnly, Memory, Step
<1>2. CASE TryAgain \/ UNCHANGED vars
  BY <1>1, <1>2 DEF TryAgain, vars, execution
<1>3. CASE BeginGenerate
  BY <1>3 DEF BeginGenerate, GeneratesOnly, Memory, Step
<1>4. CASE BeginTurn
  BY <1>4 DEF BeginTurn, EpisodeInv, Placed, GeneratesOnly, Memory
<1>5. ASSUME Next, ~(TryAgain \/ BeginGenerate \/ BeginTurn \/ UNCHANGED vars) PROVE pc' # "calling"
  BY <1>5 DEF Next, Done, Prepare, CallRaises, CallFails, Answer, RunTools, OutOfTurns, SkipStep, BackendStep,
              GenerateRefused, GenerateEnds, ReplayStep, FrozenAnswer, FrozenRaises, EndEpisode, Close, Finish, StepRecorded
<1> QED BY <1>2, <1>3, <1>4, <1>5 DEF GeneratesOnly

LEMMA WorkStep ==
  ASSUME CallInv, EpisodeInv, GeneratesOnly, WorkInv, [Next]_vars
  PROVE  WorkInv'
<1>0. CaseOK
  BY DEF CallInv
<1>1. CASE UNCHANGED <<case, records, sent, applied>>
  BY <1>1 DEF WorkInv
<1>2. CASE SkipStep \/ BackendStep \/ GenerateRefused \/ ReplayStep \/ FrozenAnswer
  <2>1. AtStep /\ pc = "step" /\ Memory
    BY <1>2 DEF SkipStep, BackendStep, GenerateRefused, ReplayStep, FrozenAnswer, Runnable, AtStep, EpisodeInv, Placed
  <2>2. Step.action = "generate" => ~Mutating(Step)
    BY DEF Mutating, MutatingActions
  <2>3. CASE SkipStep
    <3>1. \E m \in 1 .. Len(records) : records[m] # "ok"
      <4>1. CASE Unknown
        BY <4>1 DEF Unknown, Range, EpisodeInv, RecordsOK
      <4>2. CASE Blocked
        BY <4>2 DEF Blocked, FailedSteps, EpisodeInv, RecordsOK
      <4> QED BY <2>3, <4>1, <4>2 DEF SkipStep
    <3>2. "skipped" \in StepStatus /\ StepRecorded("skipped") /\ sent' = sent /\ applied' = applied
      BY <2>3 DEF SkipStep, StepStatus
    <3> QED BY <1>0, <2>1, <3>1, <3>2, WorkRecorded
  <2>4. CASE GenerateRefused
    BY <1>0, <2>1, <2>2, <2>4, WorkRecorded DEF GenerateRefused, StepStatus
  <2>5. CASE ReplayStep
    BY <1>0, <2>1, <2>5, WorkRecorded DEF ReplayStep, StepStatus
  <2>6. CASE FrozenAnswer
    BY <1>0, <2>1, <2>6, WorkRecorded DEF FrozenAnswer, StepStatus
  <2>7. CASE BackendStep
    <3>1. ASSUME StepRecorded("ok"), applied' = IF Mutating(Step) THEN applied \cup {at} ELSE applied
          PROVE  WorkInv'
      BY <1>0, <2>1, <2>7, <3>1, WorkRecorded DEF BackendStep, StepStatus
    <3>2. ASSUME NEW status \in {"error", TimedOut(Step)}, StepRecorded(status),
                 applied' = applied \/ (Mutating(Step) /\ applied' = applied \cup {at})
          PROVE  WorkInv'
      <4>1. status \in StepStatus /\ status \notin {"ok", "skipped"}
        BY DEF TimedOut, StepStatus
      <4> QED BY <1>0, <2>1, <2>7, <3>2, <4>1, WorkRecorded DEF BackendStep
    <3> QED BY <2>7, <3>1, <3>2 DEF BackendStep
  <2> QED BY <1>2, <2>3, <2>4, <2>5, <2>6, <2>7
<1>3. CASE GenerateEnds
  <2>1. PICK status \in {"ok", "error"} : StepRecorded(status)
    BY <1>3 DEF GenerateEnds
  <2>2. pc = "calling" /\ Memory /\ sent' = sent /\ applied' = applied
    BY <1>3 DEF GenerateEnds
  <2>3. ~Mutating(Step)
    <3>1. Step.action = "generate"
      BY <2>2 DEF GeneratesOnly
    <3> QED BY <3>1 DEF Mutating, MutatingActions
  <2> QED BY <1>0, <2>1, <2>2, <2>3, WorkRecorded DEF StepStatus
<1>4. CASE ~(SkipStep \/ BackendStep \/ GenerateRefused \/ ReplayStep \/ FrozenAnswer \/ GenerateEnds)
  <2>1. UNCHANGED <<case, records, sent, applied>>
    BY <1>4 DEF Next, Done, vars, execution, Prepare, BeginTurn, TryAgain, CallRaises, CallFails, Answer, RunTools,
                OutOfTurns, BeginGenerate, FrozenRaises, EndEpisode, Close, Finish, KeepEpisode
  <2> QED BY <1>1, <2>1
<1> QED BY <1>2, <1>3, <1>4

(***************************************************************************)
(* What stands behind a result.  LastAsksTools is the state a further turn *)
(* of an agent starts from.                                                *)
(***************************************************************************)
Statuses == {"none", "success", "invalid_output", "provider_error", "timeout", "unsupported", "indeterminate"}

Before  == {"prepare", "turn", "step", "calling"}
Leaving == {"close", "finish"}

LastAsksTools ==
  calls # <<>> /\ Last(calls).reply.status = "success" /\ Last(calls).reply.tools # <<>>

OutputOK ==
  calls # <<>> /\ Last(calls).reply.status = "success" /\ truncated = (Last(calls).reply.tools # <<>>)

ResultInv ==
  /\ pc \in Before \cup Leaving \cup {"done"}
  /\ result \in Statuses /\ raised \in BOOLEAN
  /\ pc \in Before => result = "none" /\ truncated = FALSE
  /\ pc \in Leaving => raised \/ result # "none"
  /\ pc = "done" => result # "none"

EpisodeEarned ==
  Memory /\ result = "success" => EpisodeStatus = "success" /\ Len(records) = Len(case.steps)

OutputEarned ==
  ~Memory =>
    /\ pc = "turn" /\ at > 1 => LastAsksTools
    /\ result \in Normalised /\ case.turns > 0 => OutputOK

LEMMA ReturnedLast ==
  ASSUME calls \in Seq(LoggedCall), NEW reply, Return(reply)
  PROVE  calls' # <<>> /\ Last(calls)'.reply = reply
<1> DEFINE new == [stage |-> call.stage, try |-> call.try, reply |-> reply]
<1>1. calls' = Append(calls, new)
  BY DEF Return, Logged
<1>2. Len(calls') = Len(calls) + 1 /\ calls'[Len(calls) + 1] = new /\ Len(calls) \in Nat
  BY <1>1
<1>3. calls' # <<>>
  BY <1>2, NoElements
<1> QED BY <1>2, <1>3 DEF Last

LEMMA ResultStep ==
  ASSUME ResultInv, [Next]_vars
  PROVE  ResultInv'
<1> USE DEF Before, Leaving
<1>1. CASE UNCHANGED vars \/ Done
  BY <1>1 DEF ResultInv, Done, vars, execution
<1>2. CASE TryAgain
  BY <1>2 DEF ResultInv, TryAgain, execution
<1>3. CASE Prepare
  BY <1>3 DEF ResultInv, Prepare, KeepTools
<1>4. CASE BeginTurn \/ RunTools \/ BeginGenerate
  BY <1>4 DEF ResultInv, BeginTurn, RunTools, BeginGenerate, AtStep, KeepTools, KeepEnd
<1>5. CASE CallRaises \/ FrozenRaises
  BY <1>5 DEF ResultInv, CallRaises, FrozenRaises
<1>6. CASE CallFails \/ Answer \/ OutOfTurns
  BY <1>6 DEF ResultInv, CallFails, Answer, OutOfTurns, Failures, Normalised, Statuses
<1>7. ASSUME NEW status, StepRecorded(status), pc \in {"step", "calling"} PROVE ResultInv'
  BY <1>7 DEF ResultInv, StepRecorded, KeepTools
<1>8. CASE SkipStep \/ BackendStep \/ GenerateRefused \/ ReplayStep \/ FrozenAnswer
  BY <1>7, <1>8 DEF SkipStep, BackendStep, GenerateRefused, ReplayStep, FrozenAnswer, Runnable, AtStep
<1>9. CASE GenerateEnds
  BY <1>7, <1>9 DEF GenerateEnds
<1>10. CASE EndEpisode
  BY <1>10 DEF ResultInv, EndEpisode, EpisodeStatus, Statuses
<1>11. CASE Close
  <2>1. pc = "close" /\ pc' = "finish" /\ result' = result
    BY <1>11 DEF Close
  <2>2. raised' = raised \/ raised' = TRUE
    BY <1>11 DEF Close
  <2>3. raised' \in BOOLEAN /\ (raised => raised')
    BY <2>2, Zenon DEF ResultInv
  <2> QED BY <2>1, <2>3 DEF ResultInv
<1>12. CASE Finish
  BY <1>12 DEF ResultInv, Finish, OutcomeStatus, Statuses
<1> QED BY <1>1, <1>2, <1>3, <1>4, <1>5, <1>6, <1>8, <1>9, <1>10, <1>11, <1>12 DEF Next

LEMMA EpisodeEarnedStep ==
  ASSUME EpisodeInv, ResultInv, EpisodeEarned, [Next]_vars
  PROVE  EpisodeEarned'
<1> USE DEF EpisodeEarned
<1>1. CASE UNCHANGED <<case, result, records>>
  BY <1>1 DEF Memory, EpisodeStatus, Unknown
<1>2. ASSUME result' # "success" PROVE EpisodeEarned'
  BY <1>2
<1>3. CASE EndEpisode
  <2>1. Memory /\ Len(records) + 1 > Len(case.steps) /\ Len(records) <= Len(case.steps) /\ Len(records) \in Nat
    BY <1>3 DEF EndEpisode, EpisodeInv, Placed, RecordsOK
  <2>2. Len(case.steps) \in Int => Len(records) = Len(case.steps)
    BY <2>1
  <2>3. UNCHANGED <<case, records>> /\ result' = EpisodeStatus
    BY <1>3 DEF EndEpisode, KeepEpisode
  <2> QED BY <2>1, <2>2, <2>3 DEF EpisodeStatus, Unknown
<1>4. CASE Finish
  <2>1. UNCHANGED <<case, records>> /\ result' \in {"provider_error", result}
    BY <1>4 DEF Finish, OutcomeStatus, KeepEpisode
  <2> QED BY <2>1 DEF Memory, EpisodeStatus, Unknown
<1>5. CASE Close \/ UNCHANGED vars \/ Done \/ TryAgain
  BY <1>1, <1>5 DEF Close, KeepEpisode, Done, vars, TryAgain, execution
<1>6. CASE CallFails \/ Answer \/ OutOfTurns
  BY <1>6 DEF CallFails, Answer, OutOfTurns, EpisodeInv, Placed, Memory
<1>7. ASSUME ~(EndEpisode \/ Finish \/ Close \/ UNCHANGED vars \/ Done \/ TryAgain \/ CallFails \/ Answer \/ OutOfTurns)
      PROVE  result' # "success"
  <2>1. pc \in Before /\ result' = result
    BY <1>7 DEF Next, Prepare, BeginTurn, CallRaises, RunTools, SkipStep, BackendStep, GenerateRefused, BeginGenerate,
                GenerateEnds, ReplayStep, FrozenAnswer, FrozenRaises, StepRecorded, Runnable, AtStep, KeepEnd, Before
  <2> QED BY <2>1 DEF ResultInv
<1> QED BY <1>2, <1>3, <1>4, <1>5, <1>6, <1>7

LEMMA OutputEarnedStep ==
  ASSUME CallInv, EpisodeInv, ResultInv, OutputEarned, [Next]_vars
  PROVE  OutputEarned'
<1>0. CaseOK /\ calls \in Seq(LoggedCall) /\ at \in Nat \ {0}
  BY DEF CallInv, CaseOK, CallsOK
<1>1. \A r \in Failures : r.status \notin Normalised
  BY DEF Failures, Normalised
<1>2. "none" \notin Normalised /\ "provider_error" \notin Normalised
  BY DEF Normalised
<1> SUFFICES ASSUME ~Memory', ~Memory PROVE OutputEarned'
  BY StepChangesCall, <1>0 DEF OutputEarned, Memory, Next, Done, vars, execution, Prepare, BeginTurn, TryAgain, CallRaises,
     CallFails, Answer, RunTools, OutOfTurns, SkipStep, BackendStep, GenerateRefused, BeginGenerate, GenerateEnds, ReplayStep,
     FrozenAnswer, FrozenRaises, EndEpisode, Close, Finish, StepRecorded
<1>3. CASE UNCHANGED <<case, pc, at, calls, truncated, result>>
  BY <1>3 DEF OutputEarned, LastAsksTools, OutputOK, Memory
<1>4. CASE UNCHANGED vars \/ Done
  BY <1>3, <1>4 DEF Done, vars, execution
<1>5. ASSUME result' = "none", pc' # "turn" PROVE OutputEarned'
  BY <1>2, <1>5 DEF OutputEarned
<1>6. CASE Prepare
  <2>1. at' = 1 /\ result' = "none"
    BY <1>6 DEF Prepare, EpisodeInv, Placed, ResultInv, Before
  <2> QED BY <1>2, <2>1 DEF OutputEarned
<1>7. CASE BeginTurn \/ CallRaises \/ BeginGenerate \/ FrozenRaises \/ TryAgain
  <2>1. result' = result /\ pc \in Before /\ pc' # "turn"
    BY <1>7 DEF BeginTurn, CallRaises, BeginGenerate, FrozenRaises, TryAgain, KeepEnd, Before, AtStep, execution
  <2> QED BY <1>5, <2>1 DEF ResultInv
<1>8. CASE CallFails
  BY <1>1, <1>8 DEF CallFails, OutputEarned
<1>9. CASE Answer
  <2>1. calls' # <<>> /\ Last(calls)'.reply = Success(<<>>)
    BY <1>0, <1>9, ReturnedLast DEF Answer
  <2>2. truncated' = FALSE /\ pc' = "close"
    BY <1>9 DEF Answer, KeepTools, ResultInv, Before
  <2>3. Last(calls)'.reply.tools = <<>> /\ Last(calls)'.reply.status = "success"
    BY <2>1 DEF Success
  <2>4. OutputOK'
    <3>1. truncated' = (Last(calls)'.reply.tools # <<>>)
      BY <2>2, <2>3, Zenon
    <3> QED BY <2>1, <2>3, <3>1 DEF OutputOK
  <2> QED BY <2>2, <2>4 DEF OutputEarned
<1>10. CASE RunTools
  <2>1. PICK tools \in Asks \ {<<>>} : Return(Success(tools))
    BY <1>10 DEF RunTools
  <2>2. calls' # <<>> /\ Last(calls)'.reply = Success(tools)
    BY <1>0, <2>1, ReturnedLast
  <2>3. result' = "none"
    BY <1>10 DEF RunTools, KeepEnd, ResultInv, Before
  <2> QED BY <1>2, <2>2, <2>3 DEF OutputEarned, LastAsksTools, Success
<1>11. CASE OutOfTurns
  <2>1. at > case.turns /\ pc = "turn" /\ pc' = "close" /\ truncated' = TRUE /\ calls' = calls /\ case' = case
    BY <1>11 DEF OutOfTurns, KeepCall
  <2>2. case.turns \in Nat
    BY <1>0, CasesAssumption DEF CaseOK, CaseType
  <2>3. case.turns > 0 => LastAsksTools
    BY <1>0, <2>1, <2>2 DEF OutputEarned
  <2> QED BY <2>1, <2>3 DEF OutputEarned, LastAsksTools, OutputOK
<1>12. CASE Close \/ Finish
  <2>1. UNCHANGED <<case, calls, truncated>> /\ pc' # "turn" /\ result' \in {"provider_error", result}
    BY <1>12 DEF Close, Finish, KeepCall, KeepTools, OutcomeStatus
  <2> QED BY <1>2, <2>1 DEF OutputEarned, OutputOK, Memory
<1>13. CASE SkipStep \/ BackendStep \/ GenerateRefused \/ GenerateEnds \/ ReplayStep \/ FrozenAnswer \/ EndEpisode
  BY <1>13 DEF SkipStep, BackendStep, GenerateRefused, GenerateEnds, ReplayStep, FrozenAnswer, EndEpisode,
               Runnable, AtStep, EpisodeInv, Placed
<1> QED BY <1>4, <1>6, <1>7, <1>8, <1>9, <1>10, <1>11, <1>12, <1>13 DEF Next

EarnedInv == GeneratesOnly /\ WorkInv /\ ResultInv /\ EpisodeEarned /\ OutputEarned

LEMMA EarnedInvariant == Spec => []EarnedInv
<1>1. Init => EarnedInv
  <2> SUFFICES ASSUME Init PROVE EarnedInv
    OBVIOUS
  <2>1. pc = "prepare" /\ result = "none" /\ raised = FALSE /\ truncated = FALSE
        /\ records = <<>> /\ sent = <<>> /\ applied = {}
    BY DEF Init
  <2>2. WorkInv
    BY <2>1, NoElements DEF WorkInv
  <2> QED BY <2>1, <2>2 DEF EarnedInv, GeneratesOnly, ResultInv, EpisodeEarned, OutputEarned, Before, Leaving, Statuses, Normalised
<1>2. CallInv /\ EpisodeInv /\ EarnedInv /\ [Next]_vars => EarnedInv'
  BY GeneratesStep, WorkStep, ResultStep, EpisodeEarnedStep, OutputEarnedStep DEF EarnedInv
<1> QED BY <1>1, <1>2, EpisodeInvariant, PTL DEF Spec

(* A trial that succeeds has earned it, for any episode, number of turns and
   course of the calls: all steps of the scenario were executed with success and
   each mutation took effect, a replay changed nothing, each step was sent once;
   an output has a successful reply behind it, and it is marked as truncated
   exactly when that reply asked for tools (run_episode, execution/episode.py;
   the executors, execution/executors.py). *)
THEOREM ResultsAreEarned == Spec => []ResultIsEarned
<1>1. CallInv /\ EpisodeInv /\ EarnedInv => ResultIsEarned
  <2> SUFFICES ASSUME CallInv, EpisodeInv, EarnedInv PROVE ResultIsEarned
    OBVIOUS
  <2>0. CaseOK /\ records \in Seq(StepStatus) /\ sent \in Seq(Nat)
    BY DEF CallInv, EpisodeInv, RecordsOK
  <2>1. ASSUME Memory, result = "success"
        PROVE  /\ Len(records) = Len(case.steps) /\ Range(records) \subseteq {"ok"}
               /\ IF case.frozen THEN applied = {}
                  ELSE applied = {n \in Positions : Mutating(case.steps[n])}
               /\ IsInjective(sent)
    <3>1. EpisodeStatus = "success" /\ Len(records) = Len(case.steps)
      BY <2>1 DEF EarnedInv, EpisodeEarned
    <3>2. Range(records) \cap {"error", "timeout", "indeterminate"} = {}
      BY <3>1 DEF EpisodeStatus, Unknown
    <3>3. \A n \in 1 .. Len(records) : records[n] \in StepStatus /\ records[n] \in Range(records)
      BY <2>0 DEF Range
    <3>4. \A n \in 1 .. Len(records) : records[n] = "ok"
      BY <3>2, <3>3 DEF StepStatus, EarnedInv, WorkInv
    <3>5. Range(records) \subseteq {"ok"}
      BY <2>0, <3>4 DEF Range
    <3>6. Positions = 1 .. Len(records)
      BY <2>0, <3>1, CaseFacts DEF Positions
    <3>7. ~case.frozen => applied = {n \in Positions : Mutating(case.steps[n])}
      BY <2>0, <3>4, <3>6 DEF EarnedInv, WorkInv, EpisodeInv, RecordsOK
    <3>8. IsInjective(sent)
      BY <2>0 DEF EarnedInv, WorkInv, IsInjective
    <3> QED BY <3>1, <3>5, <3>7, <3>8 DEF EpisodeInv, FrozenOK
  <2> QED BY <2>1 DEF ResultIsEarned, EarnedInv, OutputEarned, OutputOK
<1> QED BY <1>1, EpisodeInvariant, EarnedInvariant, PTL

(***************************************************************************)
(* Rows.  A table is keyed when the index of each row counts the rows of   *)
(* its stage before it; _finish keeps it so, whatever it appends.          *)
(***************************************************************************)
RowStage == {"target", "turn", "generate", "execution", "episode"} \X Nat

ARow == [stage : RowStage, index : Nat, status : Statuses \cup {"interrupted", "running"},
         known : BOOLEAN, retry : BOOLEAN]

Keyed(table) ==
  \A n \in 1 .. Len(table) : table[n].index = Cardinality({m \in 1 .. n - 1 : table[m].stage = table[n].stage})

Tells(row, logged) ==
  row.stage = logged.stage /\ row.status = logged.reply.status /\ row.retry = (logged.try > 0)

LEMMA FinitePrefix == ASSUME NEW n \in Nat, NEW S \in SUBSET (1 .. n) PROVE IsFiniteSet(S) /\ Cardinality(S) \in Nat
<1>1. IsFiniteSet(1 .. n)
  BY FS_Interval
<1> QED BY <1>1, FS_Subset, FS_CardinalityType

LEMMA KeysDiffer ==
  ASSUME NEW table \in Seq(ARow), Keyed(table)
  PROVE  IsInjective([n \in DOMAIN table |-> <<table[n].stage, table[n].index>>])
<1> DEFINE Same(n) == {m \in 1 .. n - 1 : table[m].stage = table[n].stage}
<1>1. ASSUME NEW a \in 1 .. Len(table), NEW b \in 1 .. Len(table), a < b, table[a].stage = table[b].stage
      PROVE  table[a].index # table[b].index
  <2>1. Same(a) \subseteq Same(b) /\ a \in Same(b) /\ a \notin Same(a)
    BY <1>1
  <2>2. IsFiniteSet(Same(b))
    <3>1. Same(b) \in SUBSET (1 .. b - 1) /\ b - 1 \in Nat
      OBVIOUS
    <3> QED BY <3>1, FinitePrefix
  <2>3. Cardinality(Same(a)) # Cardinality(Same(b))
    <3> HIDE DEF Same
    <3> QED BY <2>1, <2>2, FS_Subset
  <2> QED BY <2>3 DEF Keyed
<1> DEFINE key == [n \in DOMAIN table |-> <<table[n].stage, table[n].index>>]
<1>2. ASSUME NEW a \in DOMAIN table, NEW b \in DOMAIN table, key[a] = key[b] PROVE a = b
  <2>1. table[a].stage = table[b].stage /\ table[a].index = table[b].index
    BY <1>2
  <2>2. a \in 1 .. Len(table) /\ b \in 1 .. Len(table)
    OBVIOUS
  <2>3. ~(a < b) /\ ~(b < a)
    BY <1>1, <2>1, <2>2
  <2> QED BY <2>2, <2>3
<1> QED BY <1>2 DEF IsInjective

LEMMA ReplyFacts ==
  ASSUME NEW logged \in LoggedCall
  PROVE  /\ logged.stage \in RowStage /\ logged.stage \notin {<<"execution", 0>>, <<"episode", 0>>}
         /\ logged.reply.status \in Statuses \ {"none"} /\ (logged.try > 0) \in BOOLEAN
<1>1. logged.stage \in Stage /\ logged.reply \in AnyReply
  BY DEF LoggedCall
<1>2. logged.reply.status \in Statuses \ {"none"}
  BY <1>1 DEF AnyReply, Failures, Success, Statuses
<1>3. logged.stage \in RowStage /\ logged.stage \notin {<<"execution", 0>>, <<"episode", 0>>}
  BY <1>1 DEF Stage, RowStage
<1> QED BY <1>2, <1>3

LEMMA RowAdded ==
  ASSUME NEW table \in Seq(ARow), NEW logged \in LoggedCall
  PROVE  /\ AddRow(table, logged) \in Seq(ARow)
         /\ Len(AddRow(table, logged)) = Len(table) + 1
         /\ \A n \in 1 .. Len(table) : AddRow(table, logged)[n] = table[n]
         /\ Tells(AddRow(table, logged)[Len(table) + 1], logged)
         /\ Keyed(table) => Keyed(AddRow(table, logged))
<1> DEFINE same == {n \in DOMAIN table : table[n].stage = logged.stage}
           new  == Row(logged.stage, Cardinality(same), logged.reply.status, TRUE, logged.try > 0)
           more == AddRow(table, logged)
<1>1. Cardinality(same) \in Nat
  <2>1. same \in SUBSET (1 .. Len(table)) /\ Len(table) \in Nat
    OBVIOUS
  <2> QED BY <2>1, FinitePrefix
<1>2. new.stage = logged.stage /\ new.index = Cardinality(same) /\ Tells(new, logged) /\ new \in ARow
  <2> HIDE DEF same
  <2> QED BY <1>1, ReplyFacts DEF Row, Tells, ARow
<1>3. more = Append(table, new)
  BY DEF AddRow
<1> HIDE DEF new, more
<1>4. /\ more \in Seq(ARow) /\ Len(more) = Len(table) + 1 /\ more[Len(table) + 1] = new
      /\ \A n \in 1 .. Len(table) : more[n] = table[n]
      /\ Len(table) \in Nat
  BY <1>2, <1>3
<1>5. ASSUME Keyed(table), NEW n \in 1 .. Len(more)
      PROVE  more[n].index = Cardinality({m \in 1 .. n - 1 : more[m].stage = more[n].stage})
  <2>1. CASE n \in 1 .. Len(table)
    <3>1. {m \in 1 .. n - 1 : more[m].stage = more[n].stage} = {m \in 1 .. n - 1 : table[m].stage = table[n].stage}
      BY <1>4, <2>1
    <3> QED BY <1>4, <1>5, <2>1, <3>1 DEF Keyed
  <2>2. CASE n = Len(table) + 1
    <3>1. {m \in 1 .. n - 1 : more[m].stage = more[n].stage} = same
      BY <1>2, <1>4, <2>2
    <3>2. more[n] = new
      BY <1>4, <2>2
    <3>3. more[n].index = Cardinality(same)
      BY <1>2, <3>2
    <3> HIDE DEF same
    <3> QED BY <3>1, <3>3, Zenon
  <2>3. n \in 1 .. Len(table) \/ n = Len(table) + 1
    BY <1>4
  <2> QED BY <2>1, <2>2, <2>3, Zenon
<1> QED BY <1>2, <1>4, <1>5 DEF Keyed, more

(* what _finish makes of a table and the calls it is told of *)
Extends(new, table, told) ==
  /\ new \in Seq(ARow) /\ Len(new) = Len(table) + Len(told)
  /\ \A n \in 1 .. Len(table) : new[n] = table[n]
  /\ \A k \in 1 .. Len(told) : Tells(new[Len(table) + k], told[k])
  /\ Keyed(table) => Keyed(new)

LEMMA RowsAdded ==
  ASSUME NEW table \in Seq(ARow), NEW told \in Seq(LoggedCall)
  PROVE  Extends(FoldLeft(AddRow, table, told), table, told)
<1> DEFINE D == DOMAIN told
           V == Seq(ARow)
           Body(of, T) == IF T = {} THEN table ELSE LET x == Max(T) IN AddRow(of[T \ {x}], told[x])
           Is(of) == of = [T \in SUBSET D |-> Body(of, T)]
           pick == [T \in SUBSET D |-> Max(T)]
           F == [p \in V \X D |-> AddRow(p[1], told[p[2]])]
           it == CHOOSE of : Is(of)
<1>1. D = 1 .. Len(told) /\ Len(told) \in Nat /\ IsFiniteSet(D) /\ D \subseteq Int
  BY FS_Interval
<1>2. \A T \in SUBSET D : T # {} => pick[T] \in T
  <2> SUFFICES ASSUME NEW T \in SUBSET D, T # {} PROVE Max(T) \in T
    OBVIOUS
  <2>1. IsFiniteSet(T) /\ T \subseteq Int
    BY <1>1, FS_Subset
  <2> QED BY <2>1, FiniteExtremes
<1>3. F \in [V \X D -> V]
  <2>1. ASSUME NEW p \in V \X D PROVE AddRow(p[1], told[p[2]]) \in V
    <3>1. p[1] \in Seq(ARow) /\ told[p[2]] \in LoggedCall
      OBVIOUS
    <3> QED BY <3>1, RowAdded
  <2> QED BY <2>1
<1>4. \E of : Is(of)
  <2>1. PICK of \in [SUBSET D -> V] : Folds(of, D, pick, table, F)
    <3> HIDE DEF D, F, pick
    <3> QED BY <1>1, <1>2, <1>3, FoldExists DEF V
  <2>2. ASSUME NEW T \in SUBSET D
        PROVE  (IF T = {} THEN table ELSE F[<<of[T \ {pick[T]}], pick[T]>>]) = Body(of, T)
    <3>1. CASE T = {}
      BY <3>1
    <3>2. CASE T # {}
      <4>1. pick[T] = Max(T) /\ Max(T) \in D /\ of[T \ {Max(T)}] \in V
        <5>1. pick[T] = Max(T)
          OBVIOUS
        <5>2. Max(T) \in D
          BY <1>2, <3>2, <5>1
        <5> HIDE DEF D, V
        <5> QED BY <2>1, <5>1, <5>2
      <4> HIDE DEF pick, D, V
      <4>2. F[<<of[T \ {Max(T)}], Max(T)>>] = AddRow(of[T \ {Max(T)}], told[Max(T)])
        BY <4>1
      <4> QED BY <3>2, <4>1, <4>2
    <3> QED BY <3>1, <3>2
  <2>3. of = [T \in SUBSET D |-> Body(of, T)]
    <3> HIDE DEF Body, F, pick, D, V
    <3> QED BY <2>1, <2>2 DEF Folds
  <2> QED BY <2>3
<1>5. Is(it)
  <2> HIDE DEF Is
  <2> QED BY <1>4
<1>6. FoldLeft(AddRow, table, told) = it[D]
  BY DEF FoldLeft, MapThenFoldSet
<1> HIDE DEF it
<1>7. it[1 .. 0] = table /\ \A k \in 1 .. Len(told) : it[1 .. k] = AddRow(it[1 .. k - 1], told[k])
  <2>1. \A T \in SUBSET D : it[T] = Body(it, T)
    <3> HIDE DEF Body, D
    <3> QED BY <1>5
  <2>2. ASSUME NEW k \in 1 .. Len(told) PROVE it[1 .. k] = AddRow(it[1 .. k - 1], told[k])
    <3>1. Max(1 .. k) = k /\ (1 .. k) \ {k} = 1 .. k - 1 /\ 1 .. k # {}
      BY GreatestOfPrefix
    <3>2. 1 .. k \in SUBSET D
      BY <1>1
    <3>3. it[1 .. k] = AddRow(it[(1 .. k) \ {k}], told[k])
      BY <2>1, <3>1, <3>2
    <3> QED BY <3>1, <3>3
  <2>3. 1 .. 0 = {} /\ 1 .. 0 \in SUBSET D
    OBVIOUS
  <2> QED BY <2>1, <2>2, <2>3
<1> HIDE DEF Is, Body, D, V, F, pick
<1> DEFINE Upto(k) ==
             /\ it[1 .. k] \in Seq(ARow) /\ Len(it[1 .. k]) = Len(table) + k
             /\ \A n \in 1 .. Len(table) : it[1 .. k][n] = table[n]
             /\ \A j \in 1 .. k : Tells(it[1 .. k][Len(table) + j], told[j])
             /\ Keyed(table) => Keyed(it[1 .. k])
           N == {k \in Nat : k <= Len(told) => Upto(k)}
<1>8. 0 \in N
  BY <1>7
<1>9. ASSUME NEW k \in Nat, k \in N PROVE k + 1 \in N
  <2> SUFFICES ASSUME k + 1 <= Len(told) PROVE Upto(k + 1)
    OBVIOUS
  <2>1. k <= Len(told) /\ k + 1 \in 1 .. Len(told) /\ (k + 1) - 1 = k /\ told[k + 1] \in LoggedCall
    BY <1>1
  <2>2. Upto(k)
    BY <1>9, <2>1
  <2> DEFINE old == it[1 .. k]
             new == it[1 .. k + 1]
  <2>3. new = AddRow(old, told[k + 1])
    BY <1>7, <2>1
  <2> HIDE DEF old, new
  <2>4. /\ old \in Seq(ARow) /\ Len(old) = Len(table) + k /\ Len(table) \in Nat
        /\ \A n \in 1 .. Len(table) : old[n] = table[n]
        /\ \A j \in 1 .. k : Tells(old[Len(table) + j], told[j])
        /\ Keyed(table) => Keyed(old)
    BY <2>2 DEF old
  <2>5. /\ new \in Seq(ARow) /\ Len(new) = Len(old) + 1
        /\ \A n \in 1 .. Len(old) : new[n] = old[n]
        /\ Tells(new[Len(old) + 1], told[k + 1])
        /\ Keyed(old) => Keyed(new)
    BY <2>1, <2>3, <2>4, RowAdded
  <2>6. ASSUME NEW j \in 1 .. k + 1 PROVE Tells(new[Len(table) + j], told[j])
    <3>1. CASE j \in 1 .. k
      <4>1. Len(table) + j \in 1 .. Len(old)
        BY <2>4, <3>1
      <4> QED BY <2>4, <2>5, <3>1, <4>1
    <3>2. CASE j = k + 1
      <4>1. Len(table) + j = Len(old) + 1
        BY <2>4, <3>2
      <4> QED BY <2>5, <3>2, <4>1
    <3> QED BY <3>1, <3>2
  <2>7. \A n \in 1 .. Len(table) : new[n] = table[n]
    BY <2>4, <2>5
  <2> QED BY <2>4, <2>5, <2>6, <2>7 DEF new
<1>10. Nat \subseteq N
  <2> HIDE DEF N
  <2> QED BY <1>8, <1>9, NatSet
<1>11. Upto(Len(told))
  <2> HIDE DEF Upto
  <2> QED BY <1>1, <1>10
<1> QED BY <1>1, <1>6, <1>11 DEF Extends

(***************************************************************************)
(* The rows a trial starts with, and what _finish adds to them.            *)
(***************************************************************************)
FirstRows ==
  [n \in 1 .. Primary |->
     Row(PrimaryStage, n - 1, IF n = Primary THEN "running" ELSE "interrupted", ~Memory, FALSE)]

(* a stateless trial has one call, and its replies all tell of that *)
SingleOK ==
  case.pack = "single" =>
    /\ call # NoCall => call.stage = <<"target", 0>>
    /\ \A n \in 1 .. Len(calls) : calls[n].stage = <<"target", 0>>
    /\ pc \in {"close", "finish"} /\ ~raised => calls # <<>>

NoneRuns == \A n \in DOMAIN rows : rows[n].status # "running"

RowsInv ==
  /\ SingleOK
  /\ pc # "done" => rows = FirstRows
  /\ pc = "done" => RowsTellTheCalls /\ NoneRuns

LEMMA PrimaryFacts ==
  ASSUME CaseOK
  PROVE  /\ Primary \in Nat \ {0} /\ PrimaryStage \in RowStage
         /\ FirstRows \in Seq(ARow) /\ Len(FirstRows) = Primary /\ Keyed(FirstRows)
<1>1. case.prior \in Nat /\ case.pack \in {"single", "agent", "memory"}
  BY CasesAssumption DEF CaseOK, CaseType
<1>2. Primary \in Nat \ {0} /\ PrimaryStage \in RowStage
  BY <1>1 DEF Primary, PrimaryStage, RowStage
<1>3. \A n \in 1 .. Primary :
        Row(PrimaryStage, n - 1, IF n = Primary THEN "running" ELSE "interrupted", ~Memory, FALSE) \in ARow
  <2> SUFFICES ASSUME NEW n \in 1 .. Primary
               PROVE  Row(PrimaryStage, n - 1, IF n = Primary THEN "running" ELSE "interrupted", ~Memory, FALSE) \in ARow
    OBVIOUS
  <2>1. n - 1 \in Nat
    BY <1>2
  <2>2. (~Memory) \in BOOLEAN
    BY Zenon
  <2>3. (IF n = Primary THEN "running" ELSE "interrupted") \in Statuses \cup {"interrupted", "running"}
    OBVIOUS
  <2> HIDE DEF PrimaryStage
  <2> QED BY <1>2, <2>1, <2>2, <2>3 DEF Row, ARow
<1>4. FirstRows \in [1 .. Primary -> ARow]
  BY <1>3 DEF FirstRows
<1>5. FirstRows \in Seq(ARow) /\ Len(FirstRows) = Primary
  BY <1>2, <1>4
<1>6. ASSUME NEW n \in 1 .. Primary
      PROVE  FirstRows[n].index = Cardinality({m \in 1 .. n - 1 : FirstRows[m].stage = FirstRows[n].stage})
  <2>1. \A m \in 1 .. Primary : FirstRows[m].stage = PrimaryStage /\ FirstRows[m].index = m - 1
    BY DEF FirstRows, Row
  <2>2. {m \in 1 .. n - 1 : FirstRows[m].stage = FirstRows[n].stage} = 1 .. n - 1
    BY <1>2, <2>1
  <2>3. Cardinality(1 .. n - 1) = n - 1
    BY <1>2, FS_Interval
  <2> QED BY <2>1, <2>2, <2>3
<1> QED BY <1>2, <1>5, <1>6 DEF Keyed

LEMMA SingleStep ==
  ASSUME CallInv, EpisodeInv, ResultInv, SingleOK, [Next]_vars
  PROVE  SingleOK'
<1>0. CaseOK /\ calls \in Seq(LoggedCall)
  BY DEF CallInv, CallsOK
<1> SUFFICES ASSUME case'.pack = "single" PROVE SingleOK'
  BY DEF SingleOK
<1>1. case' = case
  BY DEF Next, Done, vars, execution, Prepare, BeginTurn, TryAgain, CallRaises, CallFails, Answer, RunTools, OutOfTurns,
         SkipStep, BackendStep, GenerateRefused, BeginGenerate, GenerateEnds, ReplayStep, FrozenAnswer, FrozenRaises,
         EndEpisode, Close, Finish, StepRecorded
<1>2. ~Memory /\ ~case.frozen /\ case.pack # "agent"
  BY <1>0, <1>1, CasesAssumption DEF Memory, CaseOK
<1>3. ASSUME KeepCall, pc' \in {"close", "finish"} => pc \in {"close", "finish"} /\ (raised => raised')
      PROVE  SingleOK'
  BY <1>1, <1>3 DEF SingleOK, KeepCall
<1>4. CASE UNCHANGED vars \/ Done
  BY <1>3, <1>4 DEF Done, vars, execution, KeepCall
<1>5. CASE Prepare
  BY <1>1, <1>5 DEF Prepare, SingleOK, KeepCall
<1>6. CASE BeginTurn
  BY <1>1, <1>6 DEF BeginTurn, BeginCall, SingleOK
<1>7. ASSUME NEW reply, calls' = Logged(reply), call.open
      PROVE  calls' # <<>> /\ \A n \in 1 .. Len(calls') : calls'[n].stage = <<"target", 0>>
  <2> DEFINE new == [stage |-> call.stage, try |-> call.try, reply |-> reply]
  <2>1. call.stage = <<"target", 0>>
    BY <1>1, <1>7, OpenIsNoNoCall DEF SingleOK
  <2>2. calls' = Append(calls, new)
    BY <1>7 DEF Logged
  <2>3. Len(calls') = Len(calls) + 1 /\ calls'[Len(calls) + 1] = new /\ Len(calls) \in Nat
        /\ \A n \in 1 .. Len(calls) : calls'[n] = calls[n]
    BY <1>0, <2>2
  <2>4. calls' # <<>>
    BY <2>3, NoElements
  <2>5. new.stage = <<"target", 0>>
    BY <2>1
  <2> QED BY <1>1, <2>3, <2>4, <2>5 DEF SingleOK
<1>8. CASE TryAgain
  <2>1. PICK reply \in Replies : Retry(reply)
    BY <1>8 DEF TryAgain
  <2>2. call'.stage = call.stage
    <3>1. call \in [open : {TRUE}, stage : Stage, try : 0 .. MaxRetries]
      BY <2>1, OpenIsNoNoCall DEF CallOK, Retry, CallInv
    <3> QED BY <2>1, <3>1 DEF Retry
  <2>3. calls' = Logged(reply) /\ call.open /\ call.stage = <<"target", 0>>
    BY <1>1, <2>1, OpenIsNoNoCall DEF Retry, SingleOK
  <2> QED BY <1>7, <2>2, <2>3 DEF SingleOK
<1>9. CASE CallRaises
  BY <1>1, <1>9 DEF CallRaises, Throw, SingleOK
<1>10. CASE CallFails \/ Answer
  <2>1. PICK reply : Return(reply)
    BY <1>10 DEF CallFails, Answer
  <2> QED BY <1>7, <2>1 DEF Return, SingleOK
<1>11. CASE Close
  <2>1. KeepCall /\ pc = "close" /\ (raised' = raised \/ raised' = TRUE)
    BY <1>11 DEF Close
  <2>2. raised => raised'
    BY <2>1, Zenon
  <2> QED BY <1>3, <2>1, <2>2
<1>12. CASE Finish
  BY <1>3, <1>12 DEF Finish
<1>13. CASE SkipStep \/ BackendStep \/ GenerateRefused \/ BeginGenerate \/ GenerateEnds \/ ReplayStep \/ FrozenAnswer
            \/ FrozenRaises \/ EndEpisode \/ RunTools \/ OutOfTurns
  BY <1>2, <1>13 DEF SkipStep, BackendStep, GenerateRefused, BeginGenerate, GenerateEnds, ReplayStep, FrozenAnswer,
     FrozenRaises, EndEpisode, RunTools, OutOfTurns, Runnable, AtStep, EpisodeInv, Placed
<1> QED BY <1>4, <1>5, <1>6, <1>8, <1>9, <1>10, <1>11, <1>12, <1>13 DEF Next

(* Told, of any table *)
OfCalls(table) ==
  {row \in Range(table) : row.stage \notin {<<"execution", 0>>, <<"episode", 0>>} /\ row.status # "interrupted"}

ToldBy(table) ==
  LET new == Select(table, OfCalls(table)) IN
  [n \in DOMAIN new |-> <<new[n].stage, new[n].status, new[n].retry>>]

LEMMA ToldFrom ==
  ASSUME NEW table \in Seq(ARow), NEW q \in Nat, NEW told \in Seq(LoggedCall), Len(table) = q + Len(told),
         \A n \in 1 .. q : table[n].stage \in {<<"execution", 0>>, <<"episode", 0>>} \/ table[n].status = "interrupted",
         \A n \in 1 .. Len(told) : Tells(table[q + n], told[n])
  PROVE  ToldBy(table) = [n \in DOMAIN told |-> <<told[n].stage, told[n].reply.status, told[n].try > 0>>]
<1> DEFINE S == OfCalls(table)
           front == [n \in 1 .. q |-> table[n]]
           back  == [n \in 1 .. Len(told) |-> table[q + n]]
<1>0. Len(told) \in Nat /\ DOMAIN told = 1 .. Len(told) /\ DOMAIN table = 1 .. q + Len(told)
  OBVIOUS
<1>1. \A n \in 1 .. q : table[n] \in ARow /\ table[n] \notin S
  BY <1>0 DEF OfCalls
<1>2. ASSUME NEW n \in 1 .. Len(told) PROVE table[q + n] \in ARow \cap S
  <2>1. q + n \in DOMAIN table /\ table[q + n] \in ARow
    BY <1>0
  <2>2. told[n] \in LoggedCall /\ Tells(table[q + n], told[n])
    OBVIOUS
  <2>3. table[q + n].stage \notin {<<"execution", 0>>, <<"episode", 0>>} /\ table[q + n].status # "interrupted"
    BY <2>2, ReplyFacts DEF Tells, Statuses
  <2> QED BY <2>1, <2>3 DEF OfCalls, Range
<1>3. front \in Seq(ARow \ S) /\ back \in Seq(ARow \cap S)
  <2> HIDE DEF S
  <2>1. front \in [1 .. q -> ARow \ S] /\ back \in [1 .. Len(told) -> ARow \cap S]
    BY <1>1, <1>2
  <2> QED BY <1>0, <2>1
<1>4. front \in Seq(ARow) /\ back \in Seq(ARow) /\ table = front \o back /\ Len(back) = Len(told)
  <2>1. front \in [1 .. q -> ARow] /\ back \in [1 .. Len(told) -> ARow]
    BY <1>1, <1>2
  <2>2. front \in Seq(ARow) /\ back \in Seq(ARow) /\ Len(front) = q /\ Len(back) = Len(told)
    BY <1>0, <2>1
  <2>3. \A n \in 1 .. q : front[n] = table[n]
    OBVIOUS
  <2>4. \A n \in 1 .. Len(told) : back[n] = table[q + n]
    OBVIOUS
  <2>5. table = front \o back
    <3> HIDE DEF front, back
    <3>1. DOMAIN (front \o back) = 1 .. q + Len(told) /\ front \o back \in Seq(ARow)
      <4>1. front \in Seq(ARow) /\ back \in Seq(ARow)
        BY <2>2
      <4>2. front \o back \in Seq(ARow) /\ Len(front \o back) = Len(front) + Len(back)
        BY <4>1
      <4>3. DOMAIN (front \o back) = 1 .. Len(front \o back)
        BY <4>2
      <4> QED BY <2>2, <4>2, <4>3, Zenon
    <3>2. ASSUME NEW n \in 1 .. q + Len(told) PROVE table[n] = (front \o back)[n]
      <4>1. CASE n <= q
        BY <2>2, <2>3, <4>1
      <4>2. CASE n > q
        <5>1. n - q \in 1 .. Len(told) /\ q + (n - q) = n
          BY <1>0, <4>2
        <5>2. (front \o back)[n] = back[n - q]
          BY <1>0, <2>2, <4>2
        <5> QED BY <2>4, <5>1, <5>2
      <4>3. n <= q \/ n > q
        BY <1>0
      <4> QED BY <4>1, <4>2, <4>3, Zenon
    <3> QED BY <1>0, <3>1, <3>2
  <2> QED BY <2>2, <2>5
<1>5. Select(table, S) = back
  <2> HIDE DEF S, front, back
  <2>1. Select(table, S) = Select(front, S) \o Select(back, S)
    BY <1>4, SelectConcat
  <2>2. Select(front, S) = <<>>
    <3>1. (ARow \ S) \cap S = {}
      OBVIOUS
    <3> QED BY <1>3, <3>1, SelectNone
  <2>3. Select(back, S) = back
    <3>1. ARow \cap S \subseteq S
      OBVIOUS
    <3> QED BY <1>3, <3>1, SelectAll
  <2> QED BY <1>4, <2>1, <2>2, <2>3
<1>6. DOMAIN back = DOMAIN told
  BY <1>0
<1>7. \A n \in DOMAIN told :
        <<back[n].stage, back[n].status, back[n].retry>> = <<told[n].stage, told[n].reply.status, told[n].try > 0>>
  BY <1>0 DEF Tells
<1>8. ToldBy(table) = [n \in DOMAIN back |-> <<back[n].stage, back[n].status, back[n].retry>>]
  <2> HIDE DEF back
  <2> QED BY <1>5 DEF ToldBy
<1> HIDE DEF back
<1> QED BY <1>6, <1>7, <1>8

LEMMA FinishTells ==
  ASSUME CallInv, EpisodeInv, ResultInv, SingleOK, rows = FirstRows, Finish
  PROVE  RowsTellTheCalls' /\ NoneRuns'
<1> DEFINE told    == OutcomeCalls
           reused  == PrimaryUsed(told)
           own     == IF reused THEN Head(told).reply.status ELSE OutcomeStatus
           known   == Memory => OutcomeStatus # "indeterminate"
           primary == [rows EXCEPT ![Primary].status = own, ![Primary].known = known]
           rest    == IF reused THEN Tail(told) ELSE told
<1>1. pc = "finish" /\ pc' = "done" /\ UNCHANGED <<case, raised, calls>> /\ rows' = FoldLeft(AddRow, primary, rest)
  BY DEF Finish, KeepCall
<1>2. CaseOK /\ calls \in Seq(LoggedCall) /\ told \in Seq(LoggedCall) /\ (~raised => told = calls)
  BY NoElements DEF CallInv, CallsOK, OutcomeCalls
<1>3. OutcomeStatus \in Statuses \ {"none"}
  BY <1>1 DEF ResultInv, OutcomeStatus, Statuses, Leaving
<1>4. reused => told # <<>> /\ case.pack = "single"
  BY DEF PrimaryUsed
<1> HIDE DEF told
<1>5. reused => /\ Head(told) = told[1] /\ told[1] \in LoggedCall
                /\ Tail(told) \in Seq(LoggedCall) /\ Len(told) = Len(Tail(told)) + 1
                /\ \A n \in 1 .. Len(Tail(told)) : Tail(told)[n] = told[n + 1]
  BY <1>2, <1>4
<1>6. rest \in Seq(LoggedCall)
  BY <1>2, <1>5
<1>7. own \in Statuses \ {"none"}
  BY <1>3, <1>5, ReplyFacts
<1>8. /\ Primary \in Nat \ {0} /\ PrimaryStage \in RowStage
      /\ rows \in Seq(ARow) /\ Len(rows) = Primary /\ Keyed(rows)
  BY <1>2, PrimaryFacts
<1>9. known \in BOOLEAN
  BY Zenon
<1>10. /\ \A n \in 1 .. Primary : rows[n].stage = PrimaryStage /\ rows[n].retry = FALSE
       /\ \A n \in 1 .. Primary : n # Primary => rows[n].status = "interrupted"
  BY DEF FirstRows, Row
<1> HIDE DEF reused, own, known, rest
<1> DEFINE mid == [rows EXCEPT ![Primary].status = own]
<1>11. /\ DOMAIN primary = 1 .. Primary /\ primary = [n \in DOMAIN primary |-> primary[n]]
       /\ primary[Primary] = [[rows[Primary] EXCEPT !.status = own] EXCEPT !.known = known]
       /\ \A n \in 1 .. Primary : n # Primary => primary[n] = rows[n]
  <2>1. primary = [mid EXCEPT ![Primary].known = known]
    OBVIOUS
  <2>2. /\ DOMAIN mid = 1 .. Primary /\ mid[Primary] = [rows[Primary] EXCEPT !.status = own]
        /\ \A n \in 1 .. Primary : n # Primary => mid[n] = rows[n]
    <3>1. DOMAIN rows = 1 .. Primary /\ Primary \in 1 .. Primary
      BY <1>8
    <3> QED BY <3>1
  <2> HIDE DEF mid, primary
  <2>3. /\ DOMAIN primary = 1 .. Primary /\ primary[Primary] = [mid[Primary] EXCEPT !.known = known]
        /\ \A n \in 1 .. Primary : n # Primary => primary[n] = mid[n]
    <3>1. Primary \in 1 .. Primary
      BY <1>8
    <3> QED BY <2>1, <2>2, <3>1
  <2>4. primary = [n \in DOMAIN primary |-> primary[n]]
    BY <2>1
  <2> QED BY <2>2, <2>3, <2>4
<1> HIDE DEF primary, mid
<1>12. rows[Primary] \in ARow
  BY <1>8
<1>13. /\ primary[Primary] \in ARow /\ primary[Primary].status = own
       /\ primary[Primary].stage = rows[Primary].stage /\ primary[Primary].index = rows[Primary].index
       /\ primary[Primary].retry = rows[Primary].retry
  <2> DEFINE old == rows[Primary]
             new == primary[Primary]
  <2>1. new = [[old EXCEPT !.status = own] EXCEPT !.known = known] /\ old \in ARow
    BY <1>11, <1>12
  <2> HIDE DEF old, new
  <2>2. /\ new \in ARow /\ new.status = own
        /\ new.stage = old.stage /\ new.index = old.index /\ new.retry = old.retry
    BY <1>7, <1>9, <2>1 DEF ARow
  <2> QED BY <2>2 DEF old, new
<1>23. /\ primary[Primary].stage = PrimaryStage /\ primary[Primary].retry = FALSE
       /\ \A n \in 1 .. Primary : primary[n].stage = PrimaryStage
       /\ \A n \in 1 .. Primary : n # Primary => primary[n].status = "interrupted"
  <2>1. primary[Primary].stage = PrimaryStage /\ primary[Primary].retry = FALSE
    <3>1. Primary \in 1 .. Primary
      BY <1>8
    <3> QED BY <1>10, <1>13, <3>1
  <2>2. ASSUME NEW n \in 1 .. Primary, n # Primary
        PROVE  primary[n].stage = PrimaryStage /\ primary[n].status = "interrupted"
    <3>1. primary[n] = rows[n]
      BY <1>11, <2>2
    <3> QED BY <1>10, <2>2, <3>1
  <2> QED BY <2>1, <2>2
<1>14. primary \in Seq(ARow) /\ Len(primary) = Primary
  <2>1. primary \in [1 .. Primary -> ARow]
    <3>1. \A n \in 1 .. Primary : primary[n] \in ARow
      BY <1>8, <1>11, <1>13
    <3> QED BY <1>11, <3>1
  <2> QED BY <1>8, <2>1
<1>15. Keyed(primary)
  <2>1. \A n \in 1 .. Primary : primary[n].stage = rows[n].stage /\ primary[n].index = rows[n].index
    BY <1>8, <1>11, <1>13
  <2>2. ASSUME NEW n \in 1 .. Primary
        PROVE  primary[n].index = Cardinality({m \in 1 .. n - 1 : primary[m].stage = primary[n].stage})
    <3>1. {m \in 1 .. n - 1 : primary[m].stage = primary[n].stage} = {m \in 1 .. n - 1 : rows[m].stage = rows[n].stage}
      BY <1>8, <2>1
    <3> QED BY <1>8, <2>1, <3>1 DEF Keyed
  <2> QED BY <1>14, <2>2 DEF Keyed
<1>16. Extends(rows', primary, rest)
  BY <1>1, <1>6, <1>14, RowsAdded
<1>17. /\ rows' \in Seq(ARow) /\ Len(rows') = Primary + Len(rest) /\ Len(rest) \in Nat /\ Keyed(rows')
       /\ \A n \in 1 .. Primary : rows'[n] = primary[n]
       /\ \A k \in 1 .. Len(rest) : Tells(rows'[Primary + k], rest[k])
  BY <1>6, <1>14, <1>15, <1>16 DEF Extends
<1>18. NoneRuns'
  <2> SUFFICES ASSUME NEW n \in DOMAIN rows' PROVE rows'[n].status # "running"
    BY DEF NoneRuns
  <2>1. CASE n \in 1 .. Primary /\ n # Primary
    BY <1>17, <1>23, <2>1
  <2>2. CASE n = Primary
    BY <1>7, <1>8, <1>13, <1>17, <2>2 DEF Statuses
  <2>3. CASE n \notin 1 .. Primary
    <3>1. n - Primary \in 1 .. Len(rest) /\ Primary + (n - Primary) = n
      BY <1>8, <1>17, <2>3
    <3>2. Tells(rows'[n], rest[n - Primary])
      BY <1>17, <3>1
    <3>3. rest[n - Primary] \in LoggedCall
      BY <1>6, <3>1
    <3> QED BY <3>2, <3>3, ReplyFacts DEF Tells, Statuses
  <2> QED BY <2>1, <2>2, <2>3
<1>19. IsInjective([n \in DOMAIN rows' |-> <<rows'[n].stage, rows'[n].index>>])
  BY <1>17, KeysDiffer
<1>20. ASSUME ~raised PROVE ToldBy(rows') = [n \in DOMAIN calls |-> <<calls[n].stage, calls[n].reply.status, calls[n].try > 0>>]
  <2>1. told = calls
    BY <1>2, <1>20
  <2>2. CASE reused
    <3>1. case.pack = "single" /\ rest = Tail(calls) /\ own = calls[1].reply.status /\ calls # <<>>
          /\ Len(calls) = Len(rest) + 1 /\ \A n \in 1 .. Len(rest) : rest[n] = calls[n + 1]
      BY <1>4, <1>5, <2>1, <2>2 DEF rest, own
    <3>2. 1 \in 1 .. Len(calls) /\ Len(calls) \in Nat
      BY <1>17, <3>1
    <3>3. calls[1].try = 0 /\ calls[1].stage = <<"target", 0>>
      <4>0. calls[1] \in LoggedCall
        BY <1>2, <3>2
      <4>1. calls[1].try \in Nat
        BY <4>0 DEF LoggedCall
      <4> QED BY <3>1, <3>2, <4>1 DEF CallInv, CallsOK, SingleOK
    <3>4. Tells(rows'[Primary], calls[1])
      <4>1. primary[Primary].stage = <<"target", 0>> /\ primary[Primary].retry = FALSE
        <5>2. PrimaryStage = <<"target", 0>>
          BY <3>1 DEF PrimaryStage
        <5> QED BY <1>23, <5>2
      <4>2. rows'[Primary] = primary[Primary]
        BY <1>8, <1>17
      <4>3. (calls[1].try > 0) = FALSE
        BY <3>3
      <4> QED BY <1>13, <3>1, <3>3, <4>1, <4>2, <4>3 DEF Tells
    <3>5. ASSUME NEW n \in 1 .. Len(calls) PROVE Tells(rows'[(Primary - 1) + n], calls[n])
      <4>1. CASE n = 1
        <5>1. (Primary - 1) + n = Primary
          BY <1>8, <4>1
        <5> QED BY <3>4, <4>1, <5>1
      <4>2. CASE n # 1
        <5>1. n - 1 \in 1 .. Len(rest) /\ (Primary - 1) + n = Primary + (n - 1) /\ (n - 1) + 1 = n
          BY <1>8, <1>17, <3>1, <4>2
        <5> QED BY <1>17, <3>1, <5>1
      <4> QED BY <4>1, <4>2
    <3>6. \A n \in 1 .. Primary - 1 : rows'[n].status = "interrupted"
      <4> SUFFICES ASSUME NEW n \in 1 .. Primary - 1 PROVE rows'[n].status = "interrupted"
        OBVIOUS
      <4>1. n \in 1 .. Primary /\ n # Primary
        BY <1>8
      <4> QED BY <1>17, <1>23, <4>1
    <3>7. Len(rows') = (Primary - 1) + Len(calls) /\ Primary - 1 \in Nat
      BY <1>8, <1>17, <3>1
    <3> QED BY <1>2, <1>17, <3>5, <3>6, <3>7, ToldFrom
  <2>3. CASE ~reused
    <3>1. rest = calls
      BY <2>1, <2>3 DEF rest
    <3>2. PrimaryStage \in {<<"execution", 0>>, <<"episode", 0>>}
      <4>1. case.pack # "single"
        <5>1. SingleOK /\ pc \in {"close", "finish"}
          BY <1>1
        <5> QED BY <1>20, <2>1, <2>3, <5>1 DEF SingleOK, reused, PrimaryUsed
      <4> QED BY <1>2, <4>1, CasesAssumption DEF PrimaryStage, CaseOK, CaseType
    <3>3. \A n \in 1 .. Primary : rows'[n].stage \in {<<"execution", 0>>, <<"episode", 0>>}
      BY <1>17, <1>23, <3>2
    <3> QED BY <1>2, <1>8, <1>17, <3>1, <3>3, ToldFrom
  <2> QED BY <2>2, <2>3
<1>21. Told' = ToldBy(rows')
  BY DEF Told, ToldBy, OfCalls
<1>22. ~raised => Told' = LoggedCalls'
  BY <1>1, <1>20, <1>21 DEF LoggedCalls
<1> QED BY <1>1, <1>18, <1>19, <1>22 DEF RowsTellTheCalls

LEMMA RowsStep ==
  ASSUME CallInv, EpisodeInv, ResultInv, RowsInv, [Next]_vars
  PROVE  RowsInv'
<1>1. SingleOK'
  BY SingleStep DEF RowsInv
<1>2. CASE UNCHANGED vars
  <2>1. UNCHANGED <<case, pc, raised, calls, rows>>
    BY <1>2 DEF vars, execution
  <2> QED BY <1>1, <2>1 DEF RowsInv, FirstRows, Primary, PrimaryStage, Memory, RowsTellTheCalls, Told, LoggedCalls, NoneRuns
<1>3. CASE Finish
  <2>1. pc = "finish" /\ pc' = "done"
    BY <1>3 DEF Finish
  <2> QED BY <1>1, <1>3, <2>1, FinishTells DEF RowsInv
<1>4. CASE Next /\ ~Finish /\ ~UNCHANGED vars
  <2>1. pc # "done" /\ pc' # "done" /\ rows' = rows /\ case' = case
    BY <1>4 DEF Next, Done, execution, Prepare, BeginTurn, TryAgain, CallRaises, CallFails, Answer, RunTools,
       OutOfTurns, SkipStep, BackendStep, GenerateRefused, BeginGenerate, GenerateEnds, ReplayStep, FrozenAnswer, FrozenRaises,
       EndEpisode, Close, StepRecorded, Runnable, AtStep, KeepEnd
  <2> QED BY <1>1, <2>1 DEF RowsInv, FirstRows, Primary, PrimaryStage, Memory
<1> QED BY <1>2, <1>3, <1>4

LEMMA RowsInvariant == Spec => []RowsInv
<1>1. Init => RowsInv
  <2> SUFFICES ASSUME Init PROVE RowsInv
    OBVIOUS
  <2>1. SingleOK
    BY NoElements DEF Init, SingleOK
  <2> QED BY <2>1 DEF Init, RowsInv, FirstRows
<1>2. CallInv /\ EpisodeInv /\ EarnedInv /\ RowsInv /\ [Next]_vars => RowsInv'
  BY RowsStep DEF EarnedInv
<1> QED BY <1>1, <1>2, EpisodeInvariant, EarnedInvariant, PTL DEF Spec

(* Every reply is kept: _finish gives each row a key of its own, whatever was
   interrupted before and however often a call was tried, and if nothing was
   raised the rows of the finished trial tell each reply, in order, and no
   more (_finish, execution/trial_runner.py). *)
THEOREM RowsKeepEveryReply == Spec => []RowsTellTheCalls
<1>1. CallInv /\ RowsInv => RowsTellTheCalls
  <2> SUFFICES ASSUME CaseOK, pc # "done", rows = FirstRows PROVE RowsTellTheCalls
    BY DEF CallInv, RowsInv
  <2>1. FirstRows \in Seq(ARow) /\ Keyed(FirstRows)
    BY PrimaryFacts
  <2> QED BY <2>1, KeysDiffer DEF RowsTellTheCalls
<1> QED BY <1>1, CallInvariant, RowsInvariant, PTL

(* Every variable has the values the code gives it, however the trial goes. *)
THEOREM TrialTypes == Spec => []TypeOK
<1>1. CallInv /\ EpisodeInv /\ ToolsInv /\ EarnedInv /\ RowsInv => TypeOK
  <2> SUFFICES ASSUME CallInv, EpisodeInv, ToolsInv, EarnedInv, RowsInv PROVE TypeOK
    OBVIOUS
  <2>0. CaseOK /\ records \in Seq(StepStatus) /\ sent \in Seq(Nat)
    BY DEF CallInv, EpisodeInv, RecordsOK
  <2>1. pc \in {"prepare", "turn", "calling", "step", "close", "finish", "done"} /\ at \in Nat \ {0}
        /\ (pc = "done" => result # "none") /\ result \in Statuses
    BY <2>0 DEF EarnedInv, ResultInv, Before, Leaving, CaseOK
  <2>2. \A n \in DOMAIN records : records[n] \in {"ok", "error", "timeout", "skipped", "indeterminate"}
    BY <2>0 DEF StepStatus
  <2>3. Len(records) <= Len(case.steps)
    BY DEF EpisodeInv, RecordsOK
  <2>4. Range(sent) \subseteq Positions
    <3>1. \A k \in 1 .. Len(sent) : sent[k] \in 1 .. Len(records)
      BY DEF EpisodeInv, RecordsOK
    <3>2. 1 .. Len(records) \subseteq Positions
      BY <2>0, <2>3, CaseFacts DEF Positions
    <3> QED BY <2>0, <3>1, <3>2 DEF Range
  <2>5. applied \subseteq Range(sent)
    BY <2>0 DEF EarnedInv, WorkInv, Range
  <2>6. \A n \in DOMAIN effects : effects[n] \in {sandbox[m].call : m \in DOMAIN sandbox}
    BY DEF ToolsInv
  <2>7. ASSUME NEW n \in DOMAIN rows, rows[n].status = "running" PROVE n = Primary /\ pc # "done"
    <3>1. pc # "done" /\ rows = FirstRows
      BY <2>7 DEF RowsInv, NoneRuns
    <3> QED BY <2>7, <3>1 DEF FirstRows, Row
  <2> QED BY <2>1, <2>2, <2>3, <2>4, <2>5, <2>6, <2>7 DEF TypeOK, Statuses
<1> QED BY <1>1, CallInvariant, EpisodeInvariant, ToolsInvariant, EarnedInvariant, RowsInvariant, PTL
=============================================================================
