------------------------------ MODULE RunClient ------------------------------
(****************************************************************************)
(* What a client sees of a run: it is created by a request that may be sent *)
(* again with its idempotency key (execution/runs.py), and followed by a    *)
(* stream of its events that may break and resume (execution/events.py,     *)
(* api/routes/runs.py, frontend/src/hooks/useRunEvents.ts).  What happens   *)
(* to the run in between is RunLifecycle: here it emits events until it     *)
(* ends, and later gradings emit more.                                      *)
(****************************************************************************)
EXTENDS Integers, Sequences, FiniteSets, SequencesExt, FiniteSetsExt, Functions, Selection

CONSTANTS Keys, Clients,
          Requests,              \* the bodies that are posted
          Scenarios, Datasets, TargetConfigs, GraderRows,  \* the stored definitions by id
          BatchSize,             \* limit of events_after
          MaxRuns, MaxRunEvents, MaxDrops  \* bounds: runs, events and broken connections

ASSUME ClientAssumption == BatchSize \in Nat \ {0} /\ {MaxRuns, MaxRunEvents, MaxDrops} \subseteq Nat

(* What the schema of a request and the creation of a dataset refuse to be otherwise. *)
ASSUME RequestAssumption ==
    /\ \A q \in Requests : /\ q.repeats \in Nat \ {0} /\ q.targetLimit \in Nat
                           /\ Len(q.targets) \in Nat \ {0} /\ DOMAIN q.targets = 1 .. Len(q.targets)
    /\ \A d \in DOMAIN Datasets :
          LET cases == Datasets[d].cases IN
          DOMAIN cases # {} /\ IsFiniteSet(DOMAIN cases) /\ \A c \in DOMAIN cases : cases[c] \in Nat

VARIABLES runs,    \* the Run rows: [key, request, status]
          answers, \* what clients have been told of the runs they asked for: [key, request, run]
          events,  \* the Event rows by seq: [run, final]
          stream,  \* client -> the connection and what came through it
          drops

clientVars == <<runs, answers, events, stream, drops>>

-----------------------------------------------------------------------------
(* validate_run: the plan of a request and what refuses it. *)

All == "all"
SelectedCases(q) ==
    IF q.cases = {All} THEN DOMAIN Datasets[q.dataset].cases ELSE q.cases \cap DOMAIN Datasets[q.dataset].cases

StageCalls(q) ==
    CASE Scenarios[q.scenario].pack = "memory_lifecycle" ->
             Max({0} \cup {Datasets[q.dataset].cases[c] : c \in SelectedCases(q)})  \* the generate steps of a case
      [] Scenarios[q.scenario].pack = "tool_agent" -> 3
      [] OTHER -> 1

Own(q, table, id) == id \in DOMAIN table /\ table[id].project = q.project
GraderIdsOf(q) == IF q.graders = {All} THEN Scenarios[q.scenario].graders ELSE q.graders
PlannedTrials(q) == Cardinality(SelectedCases(q)) * Len(q.targets) * q.repeats
TargetCallsNeeded(q) == PlannedTrials(q) * StageCalls(q)
JudgeCallsNeeded(q) == PlannedTrials(q) * Cardinality({g \in GraderIdsOf(q) : GraderRows[g].judge})

NotFound(q) == ~Own(q, Scenarios, q.scenario) \/ ~Own(q, Datasets, q.dataset)
Mismatched(q) == /\ q.scenario \in DOMAIN Scenarios /\ q.dataset \in DOMAIN Datasets
                 /\ Datasets[q.dataset].scenario # q.scenario

(* What a target must be capable of, for the parameters it has and the pack. *)
Unfit(q, id) ==
    LET target == TargetConfigs[id]
        pack == Scenarios[q.scenario].pack
    IN  \/ "unsupported" \in target.parameters \/ ("unknown" \in target.parameters /\ ~target.experimental)
        \/ pack = "memory_lifecycle" /\ target.episodes # "supported"
        \/ pack = "tool_agent" /\ target.tools = "unsupported"
        \/ target.memoryai /\ (~target.installed \/ (~target.generation /\ \E c \in SelectedCases(q) :
                                                                               Datasets[q.dataset].cases[c] > 0))
        \/ target.credential = "missing"

PlanRefused(q) ==
    \/ q.cases # {All} /\ SelectedCases(q) = {}
    \/ q.frozen /\ Scenarios[q.scenario].pack # "memory_lifecycle"
    \/ \E i \in DOMAIN q.targets : ~Own(q, TargetConfigs, q.targets[i]) \/ Unfit(q, q.targets[i])
    \/ \E g \in GraderIdsOf(q) : ~Own(q, GraderRows, g)
    \/ ~(Datasets[q.dataset].mandatory \subseteq {GraderRows[g].name : g \in GraderIdsOf(q)})
    \/ q.targetLimit # 0 /\ TargetCallsNeeded(q) > q.targetLimit
    \/ q.judgeLimit # -1 /\ JudgeCallsNeeded(q) > q.judgeLimit
    \/ q.capped /\ \E i \in DOMAIN q.targets : ~TargetConfigs[q.targets[i]].priced

(* The status create_run answers with: 404 when all that is wrong is that something is missing. *)
StatusOf(q) ==
    CASE NotFound(q) /\ ~Mismatched(q) /\ ~q.cache -> 404
      [] Mismatched(q) \/ q.cache -> 422
      [] OTHER -> IF PlanRefused(q) THEN 422 ELSE 201

-----------------------------------------------------------------------------
(* create_run, one transaction: the key's answer is stored with the run and given again. *)

StoredRun(key) == {r \in DOMAIN runs : runs[r].key = key}

(* A key that was used gives its run to the same body again and refuses another; a request *)
(* that is refused (404, 409 or 422) leaves nothing behind.                                *)
CreateRun(key, q) ==
    \/ \E r \in StoredRun(key) :
         /\ runs[r].request = q
         /\ answers' = answers \cup {[key |-> key, request |-> q, run |-> r]}
         /\ UNCHANGED <<runs, events, stream, drops>>
    \/ /\ StoredRun(key) = {} /\ StatusOf(q) = 201 /\ Len(runs) < MaxRuns
       /\ runs' = Append(runs, [key |-> key, request |-> q, status |-> "queued"])
       /\ events' = Append(events, [run |-> Len(runs'), final |-> FALSE])
       /\ \E told \in BOOLEAN :  \* the answer may be lost on its way
            answers' = IF told THEN answers \cup {[key |-> key, request |-> q, run |-> Len(runs')]} ELSE answers
       /\ UNCHANGED <<stream, drops>>

-----------------------------------------------------------------------------
(* The events of a run: emitted in write transactions, so in the order of their seq. *)

RunOver(r) == runs[r].status = "terminal"

EmitEvent(r) ==
    /\ Len(events) < MaxRunEvents
    /\ events' = Append(events, [run |-> r, final |-> FALSE])
    /\ UNCHANGED <<runs, answers, stream, drops>>

FinishRun(r) ==
    /\ ~RunOver(r) /\ Len(events) < MaxRunEvents
    /\ runs' = [runs EXCEPT ![r].status = "terminal"]
    /\ events' = Append(events, [run |-> r, final |-> TRUE])
    /\ UNCHANGED <<answers, stream, drops>>

-----------------------------------------------------------------------------
(* One stream per client.  What the server yields is on the wire until the client reads it. *)

StreamEnd == 0  \* the message that ends a stream
Closed == [at |-> "closed", run |-> 0, last |-> 0, idle |-> 0, batch |-> <<>>, wire |-> <<>>, got |-> <<>>]
Seqs(r) == Select([i \in DOMAIN events |-> i], {i \in DOMAIN events : events[i].run = r})

EventsAfter(r, since) ==
    LET later == Select(Seqs(r), {i \in DOMAIN events : i > since}) IN SubSeq(later, 1, Min({BatchSize, Len(later)}))

(* Last-Event-ID is the last event the client has, not the last the server has sent. *)
LastEventId(c) == IF stream[c].got = <<>> THEN 0 ELSE Last(stream[c].got)

Connect(c, r) ==
    /\ stream[c].at = "closed" /\ stream[c].run \in {0, r}
    /\ stream' = [stream EXCEPT ![c] = [@ EXCEPT !.at = "open", !.run = r, !.last = LastEventId(c), !.idle = 0,
                                                 !.batch = <<>>, !.wire = <<>>]]
    /\ UNCHANGED <<runs, answers, events, drops>>

TerminalOnly(r, batch) == RunOver(r)  \* slip: a full batch may be followed by more
Quiet(r, batch) == RunOver(r) /\ batch = <<>>

(* fetch reads the events and the status in one transaction; the second quiet look ends the stream. *)
Fetch(c) ==
    LET s == stream[c]
        batch == EventsAfter(s.run, s.last)
        idle == IF Quiet(s.run, batch) THEN s.idle + 1 ELSE s.idle
    IN  /\ s.at = "open" /\ s.batch = <<>>
        /\ stream' = [stream EXCEPT ![c] = [s EXCEPT !.batch = batch, !.idle = idle,
                                                     !.at = IF idle >= 2 THEN "ending" ELSE "open"]]
        /\ UNCHANGED <<runs, answers, events, drops>>

YieldEvent(c) ==
    LET s == stream[c] IN
    /\ s.at \in {"open", "ending"} /\ s.batch # <<>>
    /\ stream' = [stream EXCEPT ![c] = [s EXCEPT !.batch = Tail(@), !.last = Head(s.batch), !.wire = Append(@, Head(s.batch))]]
    /\ UNCHANGED <<runs, answers, events, drops>>

YieldEnd(c) ==
    /\ stream[c].at = "ending" /\ stream[c].batch = <<>>
    /\ stream' = [stream EXCEPT ![c].at = "sent", ![c].wire = Append(@, StreamEnd)]
    /\ UNCHANGED <<runs, answers, events, drops>>

Receive(c) ==
    LET s == stream[c] IN
    /\ s.at \in {"open", "ending", "sent"} /\ s.wire # <<>>
    /\ stream' = [stream EXCEPT ![c] =
           IF Head(s.wire) = StreamEnd THEN [s EXCEPT !.at = "ended", !.wire = <<>>]
           ELSE [s EXCEPT !.wire = Tail(@), !.got = Append(@, Head(s.wire))]]
    /\ UNCHANGED <<runs, answers, events, drops>>

(* The connection breaks: what is under way is lost, and the browser connects again. *)
Drop(c) ==
    /\ stream[c].at \in {"open", "ending", "sent"} /\ drops < MaxDrops
    /\ drops' = drops + 1
    /\ stream' = [stream EXCEPT ![c] = [@ EXCEPT !.at = "closed", !.batch = <<>>, !.wire = <<>>]]
    /\ UNCHANGED <<runs, answers, events>>

-----------------------------------------------------------------------------
ClientInit ==
    /\ runs = <<>> /\ answers = {} /\ events = <<>> /\ drops = 0
    /\ stream = [c \in Clients |-> Closed]

ClientNext ==
    \/ \E key \in Keys, q \in Requests : CreateRun(key, q)
    \/ \E r \in DOMAIN runs : EmitEvent(r) \/ FinishRun(r) \/ \E c \in Clients : Connect(c, r)
    \/ \E c \in Clients : Fetch(c) \/ YieldEvent(c) \/ YieldEnd(c) \/ Receive(c) \/ Drop(c)

ClientSpec == ClientInit /\ [][ClientNext]_clientVars

-----------------------------------------------------------------------------
(* A client that repeats a request whose answer it may have lost gets one run and always     *)
(* the same answer, and a key never stands for two requests; an accepted run has work to do  *)
(* within its limits, with every mandatory grader, from one project; a followed run's events *)
(* arrive each once and in order across broken connections, and a stream that ended has told *)
(* the end of the run.  (create_run, run_events, useRunEvents)                               *)
ClientsSeeTheirRun ==
    /\ \A a, b \in answers : a.key = b.key => a = b
    /\ IsInjective([r \in DOMAIN runs |-> runs[r].key])
    /\ \A r \in DOMAIN runs :
         LET q == runs[r].request IN
         /\ PlannedTrials(q) > 0 /\ (q.targetLimit # 0 => TargetCallsNeeded(q) <= q.targetLimit)
         /\ Datasets[q.dataset].mandatory \subseteq {GraderRows[g].name : g \in GraderIdsOf(q)}
         /\ {Scenarios[q.scenario].project, Datasets[q.dataset].project}
              \cup {TargetConfigs[t].project : t \in Range(q.targets)} = {q.project}
    /\ \A c \in Clients :
         /\ IsPrefix(stream[c].got, Seqs(stream[c].run))
         /\ stream[c].at = "ended" => \E i \in Range(stream[c].got) : events[i].final
=============================================================================
