----------------------------- MODULE BridgePool ------------------------------
(****************************************************************************)
(* How episodes share bridge subprocesses: the pool and the request         *)
(* protocol of adapters/memoryai/bridge_client.py, the episode backend of   *)
(* adapters/memoryai/adapter.py, the server loop and the session commands   *)
(* of src/bridges/memoryai, and evalai memoryai gc (ownership.py).          *)
(*                                                                          *)
(* All tasks have the same key (candidate, backend) and one store each, of  *)
(* the task's name.  The queue runs one memory job at a time, so tasks      *)
(* overlap only when a lease was lost and the old handler is still at work; *)
(* overlapped remembers that.  A request is <<task, command>>: its pc is    *)
(* the command a task waits for.                                            *)
(****************************************************************************)
EXTENDS Naturals, Sequences, FiniteSets

CONSTANTS Tasks, Procs,
          RecycleAfter   \* RECYCLE_AFTER_EPISODES

NoProc == "no process"
NoTask == "no task"

ASSUME PoolAssumption == RecycleAfter \in Nat \ {0} /\ NoProc \notin Procs /\ NoTask \notin Tasks

VARIABLES proc,        \* the subprocesses
          pooled,      \* BridgePool.processes[key], or NoProc
          task,        \* the handlers and what they hold
          store,       \* a store is "open" in its server, "stopped" or "gone" from the disk
          row,         \* MemoryStoreOwnership.state
          overlapped

poolVars == <<proc, pooled, task, store, row, overlapped>>

Commands == {"hello", "prepare", "execute_action", "inspect_state", "close", "shutdown"}

(* The values of BridgeProcess and of a handler, its backend and its session. *)
Process ==
    [state : {"unborn", "up", "dead"}, episodes : Nat, inbox : Seq(Tasks \X Commands),
     outbox : Seq(Tasks \X Commands \X BOOLEAN), reader : Tasks \cup {NoTask}]
Handler ==
    [pc : {"idle", "open", "acted", "release", "update", "ended"} \cup Commands, proc : Procs \cup {NoProc},
     healthy : BOOLEAN, report : {"none", "closed", "unhealthy"}]

PoolTypeOK ==
    /\ proc \in [Procs -> Process]
    /\ pooled \in Procs \cup {NoProc}
    /\ task \in [Tasks -> Handler]
    /\ store \in [Tasks -> {"none", "open", "stopped", "gone"}]
    /\ row \in [Tasks -> {"none", "active", "retained", "orphaned", "dropped"}]
    /\ overlapped \in BOOLEAN

Alive(p) == p # NoProc /\ proc[p].state = "up"
Active(t) == task[t].pc \notin {"idle", "ended"}
Mine(t) == task[t].proc

-----------------------------------------------------------------------------
(* BridgeProcess.request: write a line, then read one.  A second reader of a pipe gets an *)
(* exception from asyncio although its line was written.                                  *)

Asked(procs, p, t, command) ==
    IF procs[p].state # "up" THEN procs
    ELSE [procs EXCEPT ![p].inbox = Append(@, <<t, command>>), ![p].reader = IF @ = NoTask THEN t ELSE @]

Ask(t, command) ==
    /\ task' = [task EXCEPT ![t].pc = command]
    /\ proc' = Asked(proc, Mine(t), t, command)

Reads(t) == Alive(Mine(t)) /\ proc[Mine(t)].reader = t
Collides(t) == Alive(Mine(t)) /\ proc[Mine(t)].reader # t

AnyAnswer(t, answer) == TRUE  \* slip: the id of the answer is not compared

(* An answer is accepted only if it carries the id of the request. *)
Matches(t, answer) == answer[1] = t /\ answer[2] = task[t].pc

Answered(t, ok) ==
    /\ Reads(t) /\ proc[Mine(t)].outbox # <<>>
    /\ Matches(t, Head(proc[Mine(t)].outbox)) /\ Head(proc[Mine(t)].outbox)[3] = ok
    /\ proc' = [proc EXCEPT ![Mine(t)].outbox = Tail(@), ![Mine(t)].reader = NoTask]
    /\ UNCHANGED store

(* kill: what is in the pipes is lost, and so is every session of the process. *)
Kill(p) ==
    /\ proc' = [proc EXCEPT ![p] = [@ EXCEPT !.state = "dead", !.inbox = <<>>, !.outbox = <<>>, !.reader = NoTask]]
    /\ store' = [t \in Tasks |-> IF Mine(t) = p /\ store[t] = "open" THEN "stopped" ELSE store[t]]

(* Slips: the process is left running; the end of the pipe is not noticed. *)
AbandonedOnly(t) == (Reads(t) \/ ~Alive(Mine(t))) /\ UNCHANGED <<proc, store>>
TimedOutOnly(t) == Reads(t) /\ Kill(Mine(t))

(* A timeout, a cancellation or a foreign answer discards the process; the end of the pipe finds it dead. *)
Discarded(t) ==
    \/ Reads(t) /\ Kill(Mine(t))
    \/ ~Alive(Mine(t)) /\ UNCHANGED <<proc, store>>
Collided(t) == Collides(t) /\ UNCHANGED <<proc, store>>
Fails(t) == Answered(t, FALSE) \/ Discarded(t) \/ Collided(t)

Becomes(t, fields) == task' = [task EXCEPT ![t] = fields]
With(t, pc, healthy) == [task[t] EXCEPT !.pc = pc, !.healthy = healthy]

-----------------------------------------------------------------------------
(* BridgePool.acquire looks, awaits the start of a new process and only then stores it. *)

Acquire(t) ==
    /\ task[t].pc = "idle" /\ Cardinality({u \in Tasks : Active(u)}) < 2
    /\ overlapped' = (overlapped \/ \E u \in Tasks : Active(u))
    /\ \/ Alive(pooled)
          /\ task' = [task EXCEPT ![t].pc = "prepare", ![t].proc = pooled]
          /\ proc' = Asked(proc, pooled, t, "prepare")
       \/ ~Alive(pooled)
          /\ \E p \in {q \in Procs : proc[q].state = "unborn"} :
                /\ task' = [task EXCEPT ![t].pc = "hello", ![t].proc = p]
                /\ proc' = Asked([proc EXCEPT ![p].state = "up"], p, t, "hello")
    /\ UNCHANGED <<pooled, store, row>>

Started(t) ==
    /\ task[t].pc = "hello" /\ Reads(t) /\ proc[Mine(t)].outbox # <<>>
    /\ Head(proc[Mine(t)].outbox) = <<t, "hello", TRUE>>
    /\ pooled' = Mine(t)
    /\ task' = [task EXCEPT ![t].pc = "prepare"]
    /\ proc' = Asked([proc EXCEPT ![Mine(t)].outbox = <<>>, ![Mine(t)].reader = NoTask], Mine(t), t, "prepare")
    /\ UNCHANGED <<store, row, overlapped>>

StartFails(t) ==
    /\ task[t].pc = "hello" /\ Discarded(t)
    /\ Becomes(t, With(t, "ended", FALSE))
    /\ UNCHANGED <<pooled, row, overlapped>>

(* BridgeBackend.prepare: after the answer the ownership row is committed; if that raises, *)
(* nothing is released.  A failure of the request itself releases the process.             *)
Prepared(t) ==
    /\ task[t].pc = "prepare" /\ Answered(t, TRUE)
    /\ \/ Becomes(t, With(t, "open", TRUE)) /\ row' = [row EXCEPT ![t] = "active"]
       \/ Becomes(t, With(t, "ended", TRUE)) /\ UNCHANGED row
    /\ UNCHANGED <<pooled, overlapped>>

PrepareFails(t) ==
    /\ task[t].pc = "prepare" /\ Fails(t)
    /\ Becomes(t, With(t, "release", FALSE))
    /\ UNCHANGED <<pooled, row, overlapped>>

Act(t, command) ==
    /\ task[t].pc = "open" /\ Ask(t, command)
    /\ UNCHANGED <<pooled, store, row, overlapped>>

ActSucceeds(t) ==
    /\ task[t].pc \in {"execute_action", "inspect_state"} /\ Answered(t, TRUE)
    /\ Becomes(t, With(t, "acted", task[t].healthy))
    /\ UNCHANGED <<pooled, row, overlapped>>

(* Only an error or a timeout of execute_action makes the session unhealthy: a cancellation, *)
(* a collision and inspect_state do not.                                                     *)
ActFails(t) ==
    /\ \/ task[t].pc = "execute_action" /\ (Answered(t, FALSE) \/ Discarded(t)) /\ Becomes(t, With(t, "acted", FALSE))
       \/ task[t].pc = "execute_action" /\ (Discarded(t) \/ Collided(t)) /\ Becomes(t, With(t, "acted", task[t].healthy))
       \/ task[t].pc = "inspect_state" /\ Fails(t) /\ Becomes(t, With(t, "acted", task[t].healthy))
    /\ UNCHANGED <<pooled, row, overlapped>>

-----------------------------------------------------------------------------
(* BridgeBackend.close, BridgePool.release and BridgeProcess.stop. *)

Close(t) ==
    /\ task[t].pc \in {"open", "acted"}
    /\ IF task[t].healthy /\ Alive(Mine(t))
       THEN Ask(t, "close")
       ELSE Becomes(t, [With(t, "release", FALSE) EXCEPT !.report = "unhealthy"]) /\ UNCHANGED proc
    /\ UNCHANGED <<pooled, store, row, overlapped>>

CloseReturns(t) ==
    /\ task[t].pc = "close"
    /\ \/ Answered(t, TRUE) /\ Becomes(t, [With(t, "release", TRUE) EXCEPT !.report = "closed"])
       \/ Fails(t) /\ Becomes(t, With(t, "release", TRUE))
    /\ UNCHANGED <<pooled, row, overlapped>>

(* What follows the release: the ownership row, or the exception that is under way. *)
AfterRelease(t) == IF task[t].report = "none" THEN "ended" ELSE "update"

(* release takes whatever process the pool has under the key. *)
Release(t) ==
    LET p == Mine(t)
        counted == [proc EXCEPT ![p].episodes = @ + 1]
        discard == ~task[t].healthy \/ ~Alive(p) \/ proc[p].episodes + 1 >= RecycleAfter
    IN  /\ task[t].pc = "release"
        /\ pooled' = IF discard THEN NoProc ELSE pooled
        /\ proc' = IF discard THEN Asked(counted, p, t, "shutdown") ELSE counted
        /\ task' = [task EXCEPT ![t].pc = IF discard /\ Alive(p) THEN "shutdown" ELSE AfterRelease(t)]
        /\ UNCHANGED <<store, row, overlapped>>

(* Whatever shutdown gave, the process is killed at the end. *)
StopEnds(t) ==
    /\ task[t].pc = "shutdown" /\ Kill(Mine(t))
    /\ task' = [task EXCEPT ![t].pc = AfterRelease(t)]
    /\ UNCHANGED <<pooled, row, overlapped>>

UpdateOwnership(t) ==
    /\ task[t].pc = "update"
    /\ row' = [row EXCEPT ![t] = IF task[t].report = "unhealthy" THEN "orphaned"
                                 ELSE IF store[t] = "gone" THEN "dropped" ELSE "retained"]
    /\ task' = [task EXCEPT ![t].pc = "ended"]
    /\ UNCHANGED <<proc, pooled, store, overlapped>>

-----------------------------------------------------------------------------
(* The bridge server takes one line at a time; it or its stores may fail. *)

Serve(p) ==
    LET t == Head(proc[p].inbox)[1]
        command == Head(proc[p].inbox)[2]
        Reply(ok) == proc' = [proc EXCEPT ![p].inbox = Tail(@), ![p].outbox = Append(@, <<t, command, ok>>)]
    IN  /\ Alive(p) /\ proc[p].inbox # <<>>
        /\ \/ command = "hello" /\ Reply(TRUE) /\ UNCHANGED store
           \/ command = "prepare" /\ Reply(TRUE) /\ store' = [store EXCEPT ![t] = "open"]
           \/ command = "prepare" /\ Reply(FALSE) /\ store' = [store EXCEPT ![t] = "stopped"]
           \/ command \in {"execute_action", "inspect_state"} /\ UNCHANGED store
              /\ \E ok \in BOOLEAN : (ok => store[t] = "open") /\ Reply(ok)
           \/ command = "close" /\ store[t] = "open" /\ Reply(TRUE)
              /\ \E after \in {"stopped", "gone"} : store' = [store EXCEPT ![t] = after]
           \/ command = "close" /\ Reply(FALSE)
              /\ \E after \in {store[t], "stopped"} : store' = [store EXCEPT ![t] = after]
           \/ command = "shutdown" /\ Kill(p)
        /\ UNCHANGED <<pooled, task, row, overlapped>>

Crash(p) ==
    /\ Alive(p) /\ (\E t \in Tasks : Active(t) /\ Mine(t) = p) /\ Kill(p)
    /\ UNCHANGED <<pooled, task, row, overlapped>>

(* evalai memoryai gc: for the rows that are retained or orphaned a bridge of its own drops the *)
(* store after checking the manifest; the rows are written at the end, in another transaction.  *)
Collectable(t) == row[t] \in {"retained", "orphaned"}

GcDrop(t) ==
    /\ Collectable(t) /\ store[t] # "gone"
    /\ store' = [store EXCEPT ![t] = "gone"]
    /\ UNCHANGED <<proc, pooled, task, row, overlapped>>

GcRecord(t) ==
    /\ Collectable(t) /\ store[t] = "gone"
    /\ row' = [row EXCEPT ![t] = "dropped"]
    /\ UNCHANGED <<proc, pooled, task, store, overlapped>>

-----------------------------------------------------------------------------
Client(t) ==
    \/ Started(t) \/ StartFails(t) \/ Prepared(t) \/ PrepareFails(t)
    \/ \E command \in {"execute_action", "inspect_state"} : Act(t, command)
    \/ ActSucceeds(t) \/ ActFails(t) \/ Close(t) \/ CloseReturns(t)
    \/ Release(t) \/ StopEnds(t) \/ UpdateOwnership(t)

PoolNext ==
    \/ \E t \in Tasks : Acquire(t) \/ Client(t) \/ GcDrop(t) \/ GcRecord(t)
    \/ \E p \in Procs : Serve(p) \/ Crash(p)

PoolInit ==
    /\ proc = [p \in Procs |-> [state |-> "unborn", episodes |-> 0, inbox |-> <<>>, outbox |-> <<>>, reader |-> NoTask]]
    /\ pooled = NoProc
    /\ task = [t \in Tasks |-> [pc |-> "idle", proc |-> NoProc, healthy |-> TRUE, report |-> "none"]]
    /\ store = [t \in Tasks |-> "none"] /\ row = [t \in Tasks |-> "none"]
    /\ overlapped = FALSE

PoolSpec == PoolInit /\ [][PoolNext]_poolVars

(* Every request has a timeout, so a task that waits goes on. *)
PoolFairness == \A t \in Tasks : WF_poolVars(Client(t))

-----------------------------------------------------------------------------
(* What ownership rows say of a store is true: one that may be collected is not open in a *)
(* server, and one that is dropped is gone.  The rows are written after answers of other  *)
(* processes, timeouts and kills; gc drops stores on their word.                          *)
RowsTellTheTruth ==
    \A t \in Tasks : /\ Collectable(t) => store[t] # "open"
                     /\ row[t] = "dropped" => store[t] = "gone"

(* "One bridge process per (candidate configuration, backend)" (BridgePool): as long as no two *)
(* tasks overlapped, a process that runs is in the pool or in the hands of the task that       *)
(* started it, however starts, prepares, closes and recycling fail.                            *)
NoBridgeLeftBehind ==
    ~overlapped => \A p \in Procs : Alive(p) => p = pooled \/ \E t \in Tasks : Active(t) /\ Mine(t) = p

(* Every episode that acquired a bridge ends: no failure leaves its task waiting. *)
EpisodesEnd == \A t \in Tasks : Active(t) ~> ~Active(t)
=============================================================================
