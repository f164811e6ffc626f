---------------------------- MODULE BridgeProofs ----------------------------
(***************************************************************************)
(* Theorems about the MemoryAI bridge, for any number of episodes, bridge  *)
(* processes, events and rebuilds and any page size: about BridgePool that *)
(* ownership rows tell the truth and that no bridge is left behind, about  *)
(* MemoryStore that a store replays to its facts and that what it tells of *)
(* its past is exact.                                                      *)
(*                                                                         *)
(* BridgePool.  A row is written when its task ends, and a store changes   *)
(* as long as a prepare or a close of its task is in a pipe.  So the       *)
(* argument counts lines: prepare and close are written at most once per   *)
(* task (Single), an answer that is read leaves nothing behind, and what   *)
(* is in the pipes of a process is lost when it dies.  The lemmas of the   *)
(* first part say what a request, an answer, a reply and a kill do to what *)
(* is pending.                                                             *)
(*                                                                         *)
(* MemoryStore.  The state of a fact can be read off the log without a     *)
(* replay (FactsOf), because an event acts on earlier ones only and a      *)
(* correction outlives what happens to the corrected message.  MemoryInv   *)
(* says that the facts are those of the log; each operation keeps it, and  *)
(* a replay, whose state after n events is that of a shorter log, computes *)
(* it again.                                                               *)
(***************************************************************************)
EXTENDS BridgePool, MemoryStore, Induction, TLAPS


(* A line of task t about command c is in the pipe q, at most once, and whether *)
(* it says that the store of t is closed.                                       *)
Has(q, t, c)  == \E i \in DOMAIN q : q[i][1] = t /\ q[i][2] = c
Once(q, t, c) == \A i, j \in DOMAIN q :
                   q[i][1] = t /\ q[i][2] = c /\ q[j][1] = t /\ q[j][2] = c => i = j
Tells(q, t)   == \E i \in DOMAIN q : q[i] = <<t, "close", TRUE>>

LEMMA EmptyPipe ==
  ASSUME NEW t, NEW c PROVE ~Has(<<>>, t, c) /\ Once(<<>>, t, c) /\ ~Tells(<<>>, t)
  BY DEF Has, Once, Tells

LEMMA Appending ==
  ASSUME NEW S, NEW q \in Seq(S), NEW e \in S, NEW t, NEW c
  PROVE  /\ Append(q, e) \in Seq(S)
         /\ Has(Append(q, e), t, c) <=> Has(q, t, c) \/ (e[1] = t /\ e[2] = c)
         /\ Once(q, t, c) /\ ~(Has(q, t, c) /\ e[1] = t /\ e[2] = c) => Once(Append(q, e), t, c)
         /\ Tells(Append(q, e), t) => Tells(q, t) \/ e = <<t, "close", TRUE>>
<1> DEFINE r == Append(q, e)
<1>1. r \in Seq(S) /\ Len(r) = Len(q) + 1 /\ Len(q) \in Nat
  OBVIOUS
<1>2. DOMAIN q = 1 .. Len(q) /\ DOMAIN r = 1 .. Len(q) + 1
  BY <1>1
<1>3. \A i \in DOMAIN q : r[i] = q[i]
  BY <1>2
<1>4. r[Len(q) + 1] = e
  OBVIOUS
<1>5. \A i \in DOMAIN r : i \in DOMAIN q \/ i = Len(q) + 1
  BY <1>1, <1>2
<1> HIDE DEF r
<1>6. Has(r, t, c) <=> Has(q, t, c) \/ (e[1] = t /\ e[2] = c)
  BY <1>1, <1>2, <1>3, <1>4, <1>5 DEF Has
<1>7. Once(q, t, c) /\ ~(Has(q, t, c) /\ e[1] = t /\ e[2] = c) => Once(r, t, c)
  BY <1>1, <1>2, <1>3, <1>4, <1>5 DEF Has, Once
<1>8. Tells(r, t) => Tells(q, t) \/ e = <<t, "close", TRUE>>
  BY <1>3, <1>4, <1>5 DEF Tells
<1> QED BY <1>1, <1>6, <1>7, <1>8 DEF r

LEMMA Reading ==
  ASSUME NEW S, NEW q \in Seq(S), q # <<>>, NEW t, NEW c
  PROVE  /\ Tail(q) \in Seq(S) /\ Head(q) \in S
         /\ Has(Tail(q), t, c) => Has(q, t, c)
         /\ Head(q)[1] = t /\ Head(q)[2] = c => Has(q, t, c)
         /\ Once(q, t, c) => Once(Tail(q), t, c)
         /\ Once(q, t, c) /\ Head(q)[1] = t /\ Head(q)[2] = c => ~Has(Tail(q), t, c)
         /\ Tells(Tail(q), t) => Tells(q, t)
         /\ Head(q) = <<t, "close", TRUE>> => Tells(q, t)
<1> DEFINE r == Tail(q)
<1>1. r \in Seq(S) /\ Len(r) = Len(q) - 1 /\ Len(q) \in Nat \ {0} /\ Head(q) = q[1] /\ Head(q) \in S
  OBVIOUS
<1>2. DOMAIN q = 1 .. Len(q) /\ DOMAIN r = 1 .. Len(q) - 1
  BY <1>1
<1>3. \A i \in DOMAIN r : i + 1 \in DOMAIN q /\ r[i] = q[i + 1] /\ i + 1 # 1
  BY <1>1, <1>2
<1>4. 1 \in DOMAIN q
  BY <1>1, <1>2
<1> HIDE DEF r
<1>5. Has(r, t, c) => Has(q, t, c)
  BY <1>3 DEF Has
<1>6. Once(q, t, c) => Once(r, t, c)
  BY <1>1, <1>2, <1>3 DEF Once
<1>7. Once(q, t, c) /\ q[1][1] = t /\ q[1][2] = c => ~Has(r, t, c)
  BY <1>3, <1>4 DEF Once, Has
<1>8. Tells(r, t) => Tells(q, t)
  BY <1>3 DEF Tells
<1>9. q[1][1] = t /\ q[1][2] = c => Has(q, t, c)
  BY <1>4 DEF Has
<1>10. q[1] = <<t, "close", TRUE>> => Tells(q, t)
  BY <1>4 DEF Tells
<1> QED BY <1>1, <1>5, <1>6, <1>7, <1>8, <1>9, <1>10 DEF r

(****************************************************************************)
(* What the operations do to the pipes of all processes.                    *)
(****************************************************************************)
ProcsOK(P) == P \in [Procs -> Process]

Pending(P, p, t, c) == Has(P[p].inbox, t, c) \/ Has(P[p].outbox, t, c)
Single(P, p, t, c) ==
  /\ Once(P[p].inbox, t, c) /\ Once(P[p].outbox, t, c)
  /\ ~(Has(P[p].inbox, t, c) /\ Has(P[p].outbox, t, c))
Told(P, p, t) == Tells(P[p].outbox, t)

(* No line is written. *)
Narrows(P, N, p) ==
  \A t \in Tasks, c \in Commands :
    /\ Pending(N, p, t, c) => Pending(P, p, t, c)
    /\ Single(P, p, t, c) => Single(N, p, t, c)
    /\ Told(N, p, t) => Told(P, p, t)

LEMMA SameNarrows ==
  ASSUME NEW P, NEW N, NEW p, N[p] = P[p] PROVE Narrows(P, N, p)
  BY DEF Narrows, Pending, Single, Told

(* A request. *)
LEMMA Asking ==
  ASSUME NEW P, ProcsOK(P), NEW p \in Procs, NEW t \in Tasks, NEW c \in Commands
  PROVE  /\ ProcsOK(Asked(P, p, t, c))
         /\ \A q \in Procs :
              /\ Asked(P, p, t, c)[q].state = P[q].state
              /\ q # p => Narrows(P, Asked(P, p, t, c), q)
         /\ \A u \in Tasks, d \in Commands :
              /\ Pending(Asked(P, p, t, c), p, u, d) =>
                   Pending(P, p, u, d) \/ (u = t /\ d = c /\ P[p].state = "up")
              /\ Single(P, p, u, d) /\ ~(u = t /\ d = c /\ Pending(P, p, u, d)) =>
                   Single(Asked(P, p, t, c), p, u, d)
              /\ Told(Asked(P, p, t, c), p, u) => Told(P, p, u)
<1> DEFINE N == Asked(P, p, t, c)
           in == Append(P[p].inbox, <<t, c>>)
           reader == IF P[p].reader = NoTask THEN t ELSE P[p].reader
           r == [P[p] EXCEPT !.inbox = in, !.reader = reader]
<1>1. CASE P[p].state # "up"
  <2>1. N = P
    BY <1>1 DEF Asked
  <2> QED BY <2>1, SameNarrows DEF Pending, Single, Told
<1>2. CASE P[p].state = "up"
  <2>1. P[p] \in Process /\ P[p].inbox \in Seq(Tasks \X Commands)
    BY DEF ProcsOK, Process
  <2>2. <<t, c>> \in Tasks \X Commands /\ <<t, c>>[1] = t /\ <<t, c>>[2] = c
    OBVIOUS
  <2>3. in \in Seq(Tasks \X Commands)
    BY <2>1, <2>2, Appending
  <2>4. r \in Process /\ r.inbox = in /\ r.outbox = P[p].outbox /\ r.state = P[p].state
    BY <2>1, <2>3 DEF Process
  <2>5. N = [P EXCEPT ![p] = r]
    BY <1>2, <2>1 DEF Asked, ProcsOK, Process
  <2> HIDE DEF r, N
  <2>6. ProcsOK(N) /\ N[p] = r /\ \A q \in Procs : q # p => N[q] = P[q]
    BY <2>4, <2>5 DEF ProcsOK
  <2>7. ASSUME NEW u \in Tasks, NEW d \in Commands
        PROVE  /\ Has(in, u, d) <=> Has(P[p].inbox, u, d) \/ (t = u /\ c = d)
               /\ Once(P[p].inbox, u, d) /\ ~(Has(P[p].inbox, u, d) /\ t = u /\ c = d) => Once(in, u, d)
    <3> DEFINE S == Tasks \X Commands
               q == P[p].inbox
               e == <<t, c>>
    <3>1. q \in Seq(S) /\ e \in S /\ e[1] = t /\ e[2] = c
      BY <2>1, <2>2
    <3> HIDE DEF S, q, e
    <3>2. Has(Append(q, e), u, d) <=> Has(q, u, d) \/ (e[1] = u /\ e[2] = d)
      BY <3>1, Appending, ZenonT(20)
    <3>3. Once(q, u, d) /\ ~(Has(q, u, d) /\ e[1] = u /\ e[2] = d) => Once(Append(q, e), u, d)
      BY <3>1, Appending, ZenonT(20)
    <3> QED BY <3>1, <3>2, <3>3 DEF q, e
  <2> HIDE DEF in
  <2>8. ASSUME NEW u \in Tasks, NEW d \in Commands
        PROVE  /\ Pending(N, p, u, d) => Pending(P, p, u, d) \/ (u = t /\ d = c)
               /\ Single(P, p, u, d) /\ ~(u = t /\ d = c /\ Pending(P, p, u, d)) => Single(N, p, u, d)
               /\ Told(N, p, u) => Told(P, p, u)
    BY <2>4, <2>6, <2>7 DEF Pending, Single, Told
  <2> QED BY <1>2, <2>4, <2>6, <2>8, SameNarrows DEF N
<1> QED BY <1>1, <1>2

(* An answer is read. *)
Taken(P, p) == [P EXCEPT ![p].outbox = Tail(@), ![p].reader = NoTask]

LEMMA Taking ==
  ASSUME NEW P, ProcsOK(P), NEW p \in Procs, P[p].outbox # <<>>,
         NEW N, N = Taken(P, p)
  PROVE  /\ ProcsOK(N)
         /\ \A q \in Procs : N[q].state = P[q].state /\ Narrows(P, N, q)
         /\ \A t \in Tasks, c \in Commands :
              Head(P[p].outbox)[1] = t /\ Head(P[p].outbox)[2] = c =>
                Pending(P, p, t, c) /\ (Single(P, p, t, c) => ~Pending(N, p, t, c))
         /\ \A t \in Tasks : Head(P[p].outbox) = <<t, "close", TRUE>> => Told(P, p, t)
<1> DEFINE out == Tail(P[p].outbox)
           r == [P[p] EXCEPT !.outbox = out, !.reader = NoTask]
<1>1. P[p] \in Process /\ P[p].outbox \in Seq(Tasks \X Commands \X BOOLEAN)
  BY DEF ProcsOK, Process
<1>2. out \in Seq(Tasks \X Commands \X BOOLEAN)
  BY <1>1, Reading
<1>3. r \in Process /\ r.inbox = P[p].inbox /\ r.outbox = out /\ r.state = P[p].state
  BY <1>1, <1>2 DEF Process
<1>4. N = [P EXCEPT ![p] = r]
  BY <1>1 DEF ProcsOK, Process, Taken
<1> HIDE DEF r
<1>5. ProcsOK(N) /\ N[p] = r /\ \A q \in Procs : q # p => N[q] = P[q]
  BY <1>3, <1>4 DEF ProcsOK
<1>6. ASSUME NEW t \in Tasks, NEW c \in Commands
      PROVE  /\ Pending(N, p, t, c) => Pending(P, p, t, c)
             /\ Single(P, p, t, c) => Single(N, p, t, c)
             /\ Told(N, p, t) => Told(P, p, t)
             /\ Head(P[p].outbox)[1] = t /\ Head(P[p].outbox)[2] = c =>
                  Pending(P, p, t, c) /\ (Single(P, p, t, c) => ~Pending(N, p, t, c))
             /\ Head(P[p].outbox) = <<t, "close", TRUE>> => Told(P, p, t)
  <2>1. /\ Has(out, t, c) => Has(P[p].outbox, t, c)
        /\ Head(P[p].outbox)[1] = t /\ Head(P[p].outbox)[2] = c => Has(P[p].outbox, t, c)
        /\ Once(P[p].outbox, t, c) => Once(out, t, c)
        /\ Once(P[p].outbox, t, c) /\ Head(P[p].outbox)[1] = t /\ Head(P[p].outbox)[2] = c => ~Has(out, t, c)
        /\ Tells(out, t) => Tells(P[p].outbox, t)
        /\ Head(P[p].outbox) = <<t, "close", TRUE>> => Tells(P[p].outbox, t)
    <3> DEFINE q == P[p].outbox
    <3>1. q \in Seq(Tasks \X Commands \X BOOLEAN) /\ q # <<>>
      BY <1>1
    <3> HIDE DEF q
    <3>2. /\ Has(Tail(q), t, c) => Has(q, t, c)
          /\ Head(q)[1] = t /\ Head(q)[2] = c => Has(q, t, c)
          /\ Once(q, t, c) => Once(Tail(q), t, c)
          /\ Once(q, t, c) /\ Head(q)[1] = t /\ Head(q)[2] = c => ~Has(Tail(q), t, c)
          /\ Tells(Tail(q), t) => Tells(q, t)
          /\ Head(q) = <<t, "close", TRUE>> => Tells(q, t)
      BY <3>1, Reading
    <3> QED BY <3>2 DEF q
  <2> HIDE DEF out
  <2> QED BY <1>3, <1>5, <2>1 DEF Pending, Single, Told
<1>7. Narrows(P, N, p)
  BY <1>6 DEF Narrows
<1>8. "close" \in Commands
  BY DEF Commands
<1> QED BY <1>3, <1>5, <1>6, <1>7, <1>8, SameNarrows

(* The server takes a line and answers it. *)
Replied(P, p, t, c, ok) == [P EXCEPT ![p].inbox = Tail(@), ![p].outbox = Append(@, <<t, c, ok>>)]

LEMMA Replying ==
  ASSUME NEW P, ProcsOK(P), NEW p \in Procs, P[p].inbox # <<>>,
         NEW t \in Tasks, NEW c \in Commands, Head(P[p].inbox) = <<t, c>>, NEW ok \in BOOLEAN,
         NEW N, N = Replied(P, p, t, c, ok)
  PROVE  /\ ProcsOK(N) /\ Pending(P, p, t, c)
         /\ \A q \in Procs : N[q].state = P[q].state /\ (q # p => Narrows(P, N, q))
         /\ \A u \in Tasks, d \in Commands :
              /\ Pending(N, p, u, d) => Pending(P, p, u, d)
              /\ Single(P, p, u, d) => Single(N, p, u, d)
              /\ Told(N, p, u) => Told(P, p, u) \/ (u = t /\ c = "close" /\ ok)
<1> DEFINE in == Tail(P[p].inbox)
           out == Append(P[p].outbox, <<t, c, ok>>)
           r == [P[p] EXCEPT !.inbox = in, !.outbox = out]
<1>1. /\ P[p] \in Process /\ P[p].outbox \in Seq(Tasks \X Commands \X BOOLEAN)
      /\ P[p].inbox \in Seq(Tasks \X Commands)
  BY DEF ProcsOK, Process
<1>2. <<t, c, ok>> \in Tasks \X Commands \X BOOLEAN /\ <<t, c, ok>>[1] = t /\ <<t, c, ok>>[2] = c
  OBVIOUS
<1>3. in \in Seq(Tasks \X Commands)
  BY <1>1, Reading
<1>4. out \in Seq(Tasks \X Commands \X BOOLEAN)
  BY <1>1, <1>2, Appending
<1>5. r \in Process /\ r.inbox = in /\ r.outbox = out /\ r.state = P[p].state
  BY <1>1, <1>3, <1>4 DEF Process
<1>6. N = [P EXCEPT ![p] = r]
  BY <1>1 DEF ProcsOK, Process, Replied
<1> HIDE DEF r
<1>7. ProcsOK(N) /\ N[p] = r /\ \A q \in Procs : q # p => N[q] = P[q]
  BY <1>5, <1>6 DEF ProcsOK
<1>8. ASSUME NEW u \in Tasks, NEW d \in Commands
      PROVE  /\ Pending(N, p, u, d) => Pending(P, p, u, d)
             /\ Single(P, p, u, d) => Single(N, p, u, d)
             /\ Told(N, p, u) => Told(P, p, u) \/ (u = t /\ c = "close" /\ ok)
             /\ u = t /\ d = c => Pending(P, p, u, d)
  <2>1. Head(P[p].inbox)[1] = t /\ Head(P[p].inbox)[2] = c
    OBVIOUS
  <2>2. /\ Has(in, u, d) => Has(P[p].inbox, u, d)
        /\ u = t /\ d = c => Has(P[p].inbox, u, d)
        /\ Once(P[p].inbox, u, d) => Once(in, u, d)
        /\ Once(P[p].inbox, u, d) /\ u = t /\ d = c => ~Has(in, u, d)
    BY <1>1, <2>1, Reading
  <2>3. /\ Has(out, u, d) <=> Has(P[p].outbox, u, d) \/ (t = u /\ c = d)
        /\ Once(P[p].outbox, u, d) /\ ~(Has(P[p].outbox, u, d) /\ t = u /\ c = d) => Once(out, u, d)
        /\ Tells(out, u) => Tells(P[p].outbox, u) \/ <<t, c, ok>> = <<u, "close", TRUE>>
    <3> DEFINE S == Tasks \X Commands \X BOOLEAN
               q == P[p].outbox
               e == <<t, c, ok>>
    <3>1. q \in Seq(S) /\ e \in S /\ e[1] = t /\ e[2] = c
      BY <1>1, <1>2
    <3> HIDE DEF S, q, e
    <3>2. Has(Append(q, e), u, d) <=> Has(q, u, d) \/ (e[1] = u /\ e[2] = d)
      BY <3>1, Appending, ZenonT(20)
    <3>3. Once(q, u, d) /\ ~(Has(q, u, d) /\ e[1] = u /\ e[2] = d) => Once(Append(q, e), u, d)
      BY <3>1, Appending, ZenonT(20)
    <3>4. Tells(Append(q, e), u) => Tells(q, u) \/ e = <<u, "close", TRUE>>
      BY <3>1, Appending, ZenonT(20)
    <3> QED BY <3>1, <3>2, <3>3, <3>4 DEF q, e
  <2> HIDE DEF in, out
  <2> QED BY <1>5, <1>7, <2>2, <2>3 DEF Pending, Single, Told
<1> QED BY <1>5, <1>7, <1>8, SameNarrows

(* A process dies. *)
Dead(P, p) == [P EXCEPT ![p] = [@ EXCEPT !.state = "dead", !.inbox = <<>>, !.outbox = <<>>, !.reader = NoTask]]

LEMMA Dying ==
  ASSUME NEW P, ProcsOK(P), NEW p \in Procs,
         NEW N, N = Dead(P, p)
  PROVE  /\ ProcsOK(N) /\ N[p].state = "dead"
         /\ \A q \in Procs : Narrows(P, N, q) /\ (q # p => N[q].state = P[q].state)
         /\ \A t \in Tasks, c \in Commands : ~Pending(N, p, t, c)
<1> DEFINE r == [P[p] EXCEPT !.state = "dead", !.inbox = <<>>, !.outbox = <<>>, !.reader = NoTask]
<1>1. r \in Process /\ r.inbox = <<>> /\ r.outbox = <<>> /\ r.state = "dead"
  <2>1. P[p] \in Process /\ <<>> \in Seq(Tasks \X Commands) /\ <<>> \in Seq(Tasks \X Commands \X BOOLEAN)
    BY DEF ProcsOK
  <2> QED BY <2>1 DEF Process
<1>2. N = [P EXCEPT ![p] = r]
  BY DEF Dead
<1> HIDE DEF r
<1>3. ProcsOK(N) /\ N[p] = r /\ \A q \in Procs : q # p => N[q] = P[q]
  BY <1>1, <1>2 DEF ProcsOK
<1>4. Narrows(P, N, p) /\ \A t \in Tasks, c \in Commands : ~Pending(N, p, t, c)
  BY <1>1, <1>3, EmptyPipe DEF Narrows, Pending, Single, Told
<1> QED BY <1>1, <1>3, <1>4, SameNarrows

(****************************************************************************)
(* The invariant.                                                           *)
(****************************************************************************)

(* A line in a pipe is of a task that holds the process, which runs; the two *)
(* commands that change stores are there at most once.                       *)
PipesInv ==
  /\ \A p \in Procs, t \in Tasks, c \in Commands :
       Pending(proc, p, t, c) => Mine(t) = p /\ proc[p].state = "up"
  /\ \A p \in Procs, t \in Tasks, c \in {"prepare", "close"} : Single(proc, p, t, c)

NothingOf(t, c) == \A p \in Procs : ~Pending(proc, p, t, c)

BeforeClose  == {"idle", "hello", "prepare", "open", "execute_action", "inspect_state", "acted"}
AfterPrepare == {"open", "execute_action", "inspect_state", "acted", "close"}
Ending       == {"release", "shutdown", "update", "ended"}

(* Which of them may still be there, by what the task has done. *)
LinesInv(t) ==
  /\ task[t].pc \in {"idle", "hello"} => NothingOf(t, "prepare")
  /\ task[t].pc \in AfterPrepare => NothingOf(t, "prepare")
  /\ task[t].pc \in BeforeClose => NothingOf(t, "close")
  /\ task[t].report # "none" => NothingOf(t, "prepare") /\ NothingOf(t, "close")
  /\ \A p \in Procs :
       /\ Pending(proc, p, t, "close") => NothingOf(t, "prepare")
       /\ Told(proc, p, t) => store[t] \in {"stopped", "gone"}

(* What the task holds, and what its report and its row say of the store. *)
StoreInv(t) ==
  /\ task[t].pc = "idle" => Mine(t) = NoProc /\ task[t].report = "none" /\ store[t] = "none" /\ row[t] = "none"
  /\ task[t].pc # "idle" => Mine(t) \in Procs
  /\ store[t] = "open" => Alive(Mine(t))
  /\ task[t].report # "none" => task[t].pc \in Ending
  /\ task[t].report = "closed" => store[t] \in {"stopped", "gone"}
  /\ task[t].report = "unhealthy" => ~task[t].healthy /\ (task[t].pc \in {"update", "ended"} => store[t] # "open")
  /\ task[t].pc = "update" => task[t].report # "none"
  /\ row[t] \in {"retained", "orphaned", "dropped"} => task[t].pc = "ended" /\ task[t].report # "none"
  /\ row[t] = "dropped" => store[t] = "gone"

PoolInv == PoolTypeOK /\ PipesInv /\ \A t \in Tasks : LinesInv(t) /\ StoreInv(t)

LEMMA Truth == PoolInv => RowsTellTheTruth
<1> SUFFICES ASSUME PoolInv, NEW t \in Tasks
             PROVE  (Collectable(t) => store[t] # "open") /\ (row[t] = "dropped" => store[t] = "gone")
  BY DEF RowsTellTheTruth
<1>1. StoreInv(t) /\ task[t].report \in {"none", "closed", "unhealthy"}
  BY DEF PoolInv, PoolTypeOK, Handler
<1> QED BY <1>1 DEF StoreInv, Collectable

LEMMA InitInv == PoolInit => PoolInv
<1> SUFFICES ASSUME PoolInit PROVE PoolInv
  OBVIOUS
<1>1. PoolTypeOK
  <2>1. <<>> \in Seq(Tasks \X Commands) /\ <<>> \in Seq(Tasks \X Commands \X BOOLEAN)
    OBVIOUS
  <2>2. proc \in [Procs -> Process]
    BY <2>1 DEF PoolInit, Process
  <2>3. task \in [Tasks -> Handler]
    BY DEF PoolInit, Handler
  <2> QED BY <2>2, <2>3 DEF PoolInit, PoolTypeOK
<1>2. \A p \in Procs : proc[p].inbox = <<>> /\ proc[p].outbox = <<>>
  BY DEF PoolInit
<1>3. \A p \in Procs : \A t, c : ~Pending(proc, p, t, c) /\ Single(proc, p, t, c) /\ ~Told(proc, p, t)
  BY <1>2, EmptyPipe DEF Pending, Single, Told
<1>4. \A t \in Tasks : LinesInv(t)
  BY <1>3 DEF PoolInit, LinesInv, NothingOf
<1>5. \A t \in Tasks : StoreInv(t)
  BY DEF PoolInit, StoreInv, Mine, Ending
<1> QED BY <1>1, <1>3, <1>4, <1>5 DEF PoolInv, PipesInv

(****************************************************************************)
(* What a step may do to processes and stores without writing a line.       *)
(****************************************************************************)
Settles ==
  /\ ProcsOK(proc')
  /\ \A p \in Procs :
       /\ Narrows(proc, proc', p)
       /\ \A t \in Tasks, c \in Commands : Pending(proc', p, t, c) => proc'[p].state = "up"
  /\ store' \in [Tasks -> {"none", "open", "stopped", "gone"}]
  /\ \A t \in Tasks :
       /\ store'[t] = store[t] \/ (store[t] = "open" /\ store'[t] = "stopped")
       /\ store'[t] = "open" => proc'[Mine(t)].state = "up"

LEMMA InvParts ==
  ASSUME PoolInv
  PROVE  /\ ProcsOK(proc) /\ PipesInv
         /\ \A t \in Tasks : LinesInv(t) /\ StoreInv(t) /\ task[t] \in Handler
         /\ \A t \in Tasks : store[t] = "open" => Mine(t) \in Procs /\ proc[Mine(t)].state = "up"
         /\ \A t \in Tasks : Alive(Mine(t)) => Mine(t) \in Procs
<1>1. \A t \in Tasks : LinesInv(t) /\ StoreInv(t) /\ task[t] \in Handler
  BY DEF PoolInv, PoolTypeOK
<1>2. \A t \in Tasks : Mine(t) \in Procs \cup {NoProc}
  BY <1>1 DEF Handler, Mine
<1> QED BY <1>1, <1>2 DEF PoolInv, PoolTypeOK, ProcsOK, StoreInv, Alive

LEMMA StayingSettles == ASSUME PoolInv, UNCHANGED <<proc, store>> PROVE Settles
<1>1. \A p \in Procs : Narrows(proc, proc', p)
  BY SameNarrows
<1> QED BY <1>1, InvParts DEF Settles, PipesInv, PoolInv, PoolTypeOK

LEMMA KillSettles ==
  ASSUME PoolInv, NEW p \in Procs, Kill(p)
  PROVE  /\ Settles /\ proc'[p].state = "dead"
         /\ \A t \in Tasks : Mine(t) = p => store'[t] # "open"
<1>1. /\ ProcsOK(proc') /\ proc'[p].state = "dead"
      /\ \A q \in Procs : Narrows(proc, proc', q) /\ (q # p => proc'[q].state = proc[q].state)
      /\ \A t \in Tasks, c \in Commands : ~Pending(proc', p, t, c)
  <2>1. proc' = Dead(proc, p)
    BY DEF Kill, Dead
  <2> QED BY <2>1, InvParts, Dying
<1>2. \A q \in Procs, t \in Tasks, c \in Commands : Pending(proc', q, t, c) => q # p /\ Pending(proc, q, t, c)
  BY <1>1 DEF Narrows
<1>3. \A q \in Procs, t \in Tasks, c \in Commands : Pending(proc', q, t, c) => proc'[q].state = "up"
  BY <1>1, <1>2, InvParts DEF PipesInv
<1>4. store \in [Tasks -> {"none", "open", "stopped", "gone"}]
  BY DEF PoolInv, PoolTypeOK
<1>5. \A t \in Tasks : store'[t] = IF Mine(t) = p /\ store[t] = "open" THEN "stopped" ELSE store[t]
  BY DEF Kill
<1>6. store' \in [Tasks -> {"none", "open", "stopped", "gone"}]
  BY <1>4 DEF Kill
<1>7. \A t \in Tasks : store'[t] = "open" => proc'[Mine(t)].state = "up"
  BY <1>1, <1>5, InvParts
<1> QED BY <1>1, <1>3, <1>5, <1>6, <1>7 DEF Settles

(* An answer that is read leaves nothing of its request, and the one to close is true. *)
LEMMA AnswerSettles ==
  ASSUME PoolInv, NEW t \in Tasks, NEW ok \in BOOLEAN, Answered(t, ok)
  PROVE  /\ Settles /\ UNCHANGED store
         /\ task[t].pc \in {"prepare", "close"} => \A p \in Procs : ~Pending(proc', p, t, task[t].pc)
         /\ task[t].pc = "close" /\ ok => store[t] \in {"stopped", "gone"}
<1> DEFINE p == Mine(t)
           c == task[t].pc
           answer == Head(proc[p].outbox)
<1>1. p \in Procs /\ proc[p].state = "up" /\ proc[p].outbox # <<>> /\ UNCHANGED store
      /\ proc' = [proc EXCEPT ![p].outbox = Tail(@), ![p].reader = NoTask]
  BY InvParts DEF Answered, Reads, Alive
<1>2. answer[1] = t /\ answer[2] = c /\ answer[3] = ok
  BY DEF Answered, Matches
<1>3. answer \in Tasks \X Commands \X BOOLEAN
  BY <1>1, InvParts DEF ProcsOK, Process
<1>4. answer = <<t, c, ok>> /\ c \in Commands
  BY <1>2, <1>3
<1> HIDE DEF p, c, answer
<1>5. /\ ProcsOK(proc')
      /\ \A q \in Procs : proc'[q].state = proc[q].state /\ Narrows(proc, proc', q)
      /\ \A u \in Tasks, d \in Commands :
           answer[1] = u /\ answer[2] = d =>
             Pending(proc, p, u, d) /\ (Single(proc, p, u, d) => ~Pending(proc', p, u, d))
      /\ \A u \in Tasks : answer = <<u, "close", TRUE>> => Told(proc, p, u)
  <2>1. proc' = Taken(proc, p)
    BY <1>1 DEF Taken
  <2> QED BY <1>1, <2>1, InvParts, Taking DEF answer
<1>6. \A q \in Procs, u \in Tasks, d \in Commands : Pending(proc', q, u, d) => proc'[q].state = "up"
  BY <1>5, InvParts DEF Narrows, PipesInv
<1>7. Settles
  BY <1>1, <1>5, <1>6, InvParts DEF Settles, PoolInv, PoolTypeOK
<1>8. c \in {"prepare", "close"} => \A q \in Procs : ~Pending(proc', q, t, c)
  <2> SUFFICES ASSUME c \in {"prepare", "close"}, NEW q \in Procs, Pending(proc', q, t, c) PROVE FALSE
    OBVIOUS
  <2>1. Pending(proc, q, t, c)
    BY <1>4, <1>5 DEF Narrows
  <2>2. q = p
    BY <1>4, <2>1, InvParts DEF PipesInv, p
  <2> QED BY <1>1, <1>2, <1>4, <1>5, <2>2, InvParts DEF PipesInv
<1>9. c = "close" /\ ok => store[t] \in {"stopped", "gone"}
  BY <1>1, <1>4, <1>5, InvParts DEF LinesInv
<1> QED BY <1>1, <1>7, <1>8, <1>9 DEF c

LEMMA DiscardSettles ==
  ASSUME PoolInv, NEW t \in Tasks, Discarded(t) \/ Collided(t) PROVE Settles
<1>1. Reads(t) => Mine(t) \in Procs
  BY InvParts DEF Reads
<1> QED BY <1>1, KillSettles, StayingSettles DEF Discarded, Collided

LEMMA FailSettles ==
  ASSUME PoolInv, NEW t \in Tasks, Fails(t) PROVE Settles
  BY DiscardSettles, AnswerSettles DEF Fails

LEMMA Fades ==
  ASSUME PoolInv, Settles, NEW t \in Tasks
  PROVE  /\ \A c \in Commands : NothingOf(t, c) => NothingOf(t, c)'
         /\ \A p \in Procs :
              /\ Pending(proc', p, t, "close") => NothingOf(t, "prepare")'
              /\ Told(proc', p, t) => store'[t] \in {"stopped", "gone"}
<1>1. {"prepare", "close"} \subseteq Commands
  BY DEF Commands
<1>2. \A c \in Commands, p \in Procs : Pending(proc', p, t, c) => Pending(proc, p, t, c)
  BY DEF Settles, Narrows
<1>3. \A p \in Procs : Told(proc', p, t) => Told(proc, p, t)
  BY <1>1 DEF Settles, Narrows
<1>4. \A c \in Commands : NothingOf(t, c) => NothingOf(t, c)'
  BY <1>2 DEF NothingOf
<1>5. store[t] \in {"stopped", "gone"} => store'[t] = store[t]
  BY DEF Settles
<1> QED BY <1>1, <1>2, <1>3, <1>4, <1>5, InvParts DEF LinesInv

LEMMA Undisturbed ==
  ASSUME PoolInv, NEW u \in Tasks, task'[u] = task[u], row'[u] = row[u],
         \A p \in Procs, c \in Commands : Pending(proc', p, u, c) => Pending(proc, p, u, c),
         \A p \in Procs : Told(proc', p, u) => Told(proc, p, u),
         store'[u] = store[u] \/ (store[u] = "open" /\ store'[u] = "stopped"),
         store'[u] = "open" => proc'[Mine(u)].state = "up"
  PROVE  LinesInv(u)' /\ StoreInv(u)'
<1>1. {"prepare", "close"} \subseteq Commands
  BY DEF Commands
<1>2. \A c \in Commands : NothingOf(u, c) => NothingOf(u, c)'
  BY DEF NothingOf
<1>3. LinesInv(u) /\ StoreInv(u)
  BY InvParts
<1>4. LinesInv(u)'
  BY <1>1, <1>2, <1>3 DEF LinesInv
<1>5. store'[u] = "open" => Alive(Mine(u))'
  BY <1>3 DEF StoreInv, Alive, Mine
<1>6. StoreInv(u)'
  BY <1>3, <1>5 DEF StoreInv, Mine
<1> QED BY <1>4, <1>6

LEMMA SettlesUndisturbed ==
  ASSUME PoolInv, Settles, NEW u \in Tasks, task'[u] = task[u], row'[u] = row[u]
  PROVE  LinesInv(u)' /\ StoreInv(u)'
<1>1. "close" \in Commands
  BY DEF Commands
<1>2. /\ \A p \in Procs, c \in Commands : Pending(proc', p, u, c) => Pending(proc, p, u, c)
      /\ \A p \in Procs : Told(proc', p, u) => Told(proc, p, u)
  BY <1>1 DEF Settles, Narrows
<1> QED BY <1>2, Undisturbed DEF Settles

LEMMA PipesStay ==
  ASSUME PoolInv, Settles, \A u \in Tasks : task'[u].proc = task[u].proc
  PROVE  PipesInv'
<1>1. {"prepare", "close"} \subseteq Commands
  BY DEF Commands
<1>2. \A p \in Procs, u \in Tasks, c \in Commands :
        /\ Pending(proc', p, u, c) => Pending(proc, p, u, c) /\ proc'[p].state = "up"
        /\ Single(proc, p, u, c) => Single(proc', p, u, c)
  BY DEF Settles, Narrows
<1> QED BY <1>1, <1>2, InvParts DEF PipesInv, Mine

(* A task goes on without writing a line. *)
LEMMA SettledStep ==
  ASSUME PoolInv, Settles, NEW t \in Tasks, NEW h \in Handler, task' = [task EXCEPT ![t] = h], h.proc = Mine(t),
         pooled' \in Procs \cup {NoProc}, overlapped' \in BOOLEAN,
         row' \in [Tasks -> {"none", "active", "retained", "orphaned", "dropped"}],
         \A u \in Tasks \ {t} : row'[u] = row[u],
         LinesInv(t)', StoreInv(t)'
  PROVE  PoolInv'
<1>1. task \in [Tasks -> Handler]
  BY DEF PoolInv, PoolTypeOK
<1>2. task' \in [Tasks -> Handler] /\ task'[t] = h /\ \A u \in Tasks \ {t} : task'[u] = task[u]
  BY <1>1
<1>3. PoolTypeOK'
  BY <1>2 DEF Settles, ProcsOK, PoolTypeOK
<1>4. \A u \in Tasks : task'[u].proc = task[u].proc
  BY <1>2 DEF Mine
<1>5. PipesInv'
  BY <1>4, PipesStay
<1>6. \A u \in Tasks : LinesInv(u)' /\ StoreInv(u)'
  BY <1>2, SettlesUndisturbed
<1> QED BY <1>3, <1>5, <1>6 DEF PoolInv

(****************************************************************************)
(* A task writes a line, to processes that were left as P.                  *)
(****************************************************************************)
Asks(P, p, t, c) ==
  /\ ProcsOK(P) /\ proc' = Asked(P, p, t, c) /\ UNCHANGED store
  /\ \A q \in Procs : Narrows(proc, P, q) /\ (proc[q].state = "up" => P[q].state = "up")
  /\ c \in {"prepare", "close"} => NothingOf(t, "prepare") /\ NothingOf(t, "close")

LEMMA AskLines ==
  ASSUME NEW P, NEW p \in Procs, NEW t \in Tasks, NEW c \in Commands, Asks(P, p, t, c)
  PROVE  /\ ProcsOK(proc') /\ \A q \in Procs : proc[q].state = "up" => proc'[q].state = "up"
         /\ \A q \in Procs, u \in Tasks, d \in Commands :
              Pending(proc', q, u, d) =>
                Pending(proc, q, u, d) \/ (q = p /\ u = t /\ d = c /\ proc'[p].state = "up")
         /\ \A q \in Procs, u \in Tasks : Told(proc', q, u) => Told(proc, q, u)
<1> DEFINE N == Asked(P, p, t, c)
<1>1. ProcsOK(P) /\ proc' = N /\ \A q \in Procs : Narrows(proc, P, q)
  BY DEF Asks
<1>2. /\ ProcsOK(N)
      /\ \A q \in Procs : N[q].state = P[q].state /\ (q # p => Narrows(P, N, q))
      /\ \A u \in Tasks, d \in Commands :
           /\ Pending(N, p, u, d) => Pending(P, p, u, d) \/ (u = t /\ d = c /\ P[p].state = "up")
           /\ Told(N, p, u) => Told(P, p, u)
  BY <1>1, Asking
<1> HIDE DEF N
<1>3. \A q \in Procs : q # p => Narrows(proc, N, q)
  BY <1>1, <1>2 DEF Narrows
<1>4. \A u \in Tasks, d \in Commands :
        /\ Pending(N, p, u, d) => Pending(proc, p, u, d) \/ (u = t /\ d = c /\ P[p].state = "up")
        /\ Told(N, p, u) => Told(proc, p, u)
  BY <1>1, <1>2 DEF Narrows
<1>5. ASSUME NEW q \in Procs, NEW u \in Tasks, NEW d \in Commands
      PROVE  /\ Pending(N, q, u, d) =>
                  Pending(proc, q, u, d) \/ (q = p /\ u = t /\ d = c /\ N[p].state = "up")
             /\ Told(N, q, u) => Told(proc, q, u)
  <2>1. CASE q = p
    BY <1>2, <1>4, <2>1
  <2>2. CASE q # p
    BY <1>3, <2>2 DEF Narrows
  <2> QED BY <2>1, <2>2
<1>6. "close" \in Commands /\ \A q \in Procs : proc[q].state = "up" => N[q].state = "up"
  BY <1>2 DEF Commands, Asks
<1> QED BY <1>1, <1>2, <1>5, <1>6

LEMMA AskSingle ==
  ASSUME NEW P, NEW p \in Procs, NEW t \in Tasks, NEW c \in Commands, Asks(P, p, t, c),
         NEW q \in Procs, NEW u \in Tasks, NEW d \in Commands,
         Single(proc, q, u, d), ~(q = p /\ u = t /\ d = c /\ Pending(proc, q, u, d))
  PROVE  Single(proc', q, u, d)
<1> DEFINE N == Asked(P, p, t, c)
<1>1. ProcsOK(P) /\ proc' = N /\ Narrows(proc, P, q)
  BY DEF Asks
<1>2. /\ q # p => Narrows(P, N, q)
      /\ Single(P, p, u, d) /\ ~(u = t /\ d = c /\ Pending(P, p, u, d)) => Single(N, p, u, d)
  BY <1>1, Asking
<1> HIDE DEF N
<1>3. Single(P, q, u, d) /\ (Pending(P, q, u, d) => Pending(proc, q, u, d))
  BY <1>1 DEF Narrows
<1>4. CASE q = p
  BY <1>1, <1>2, <1>3, <1>4
<1>5. CASE q # p
  BY <1>1, <1>2, <1>3, <1>5 DEF Narrows
<1> QED BY <1>4, <1>5

LEMMA AskPending ==
  ASSUME NEW P, NEW p \in Procs, NEW t \in Tasks, NEW c \in Commands, Asks(P, p, t, c),
         NEW q \in Procs, NEW u \in Tasks, NEW d \in Commands, Pending(proc', q, u, d), ~Pending(proc, q, u, d)
  PROVE  q = p /\ u = t /\ d = c /\ proc'[p].state = "up"
<1> DEFINE N == Asked(P, p, t, c)
<1>1. ProcsOK(P) /\ proc' = N /\ Narrows(proc, P, q)
  BY DEF Asks
<1>2. /\ q # p => Narrows(P, N, q)
      /\ N[p].state = P[p].state
      /\ Pending(N, p, u, d) => Pending(P, p, u, d) \/ (u = t /\ d = c /\ P[p].state = "up")
  BY <1>1, Asking
<1> HIDE DEF N
<1>3. ~Pending(P, q, u, d)
  BY <1>1 DEF Narrows
<1>4. CASE q = p
  BY <1>1, <1>2, <1>3, <1>4
<1>5. CASE q # p
  BY <1>1, <1>2, <1>3, <1>5 DEF Narrows
<1> QED BY <1>4, <1>5

LEMMA AskFades ==
  ASSUME PoolInv, NEW P, NEW p \in Procs, NEW t \in Tasks, NEW c \in Commands, Asks(P, p, t, c)
  PROVE  /\ \A d \in Commands \ {c} : NothingOf(t, d) => NothingOf(t, d)'
         /\ \A q \in Procs :
              /\ Pending(proc', q, t, "close") => NothingOf(t, "prepare")'
              /\ Told(proc', q, t) => store'[t] \in {"stopped", "gone"}
<1>1. {"prepare", "close"} \subseteq Commands
  BY DEF Commands
<1>2. \A q \in Procs, d \in Commands \ {c} : Pending(proc', q, t, d) => Pending(proc, q, t, d)
  BY AskPending
<1>3. \A q \in Procs : Told(proc', q, t) => Told(proc, q, t)
  BY AskLines
<1>4. \A d \in Commands \ {c} : NothingOf(t, d) => NothingOf(t, d)'
  BY <1>2 DEF NothingOf
<1>5. LinesInv(t) /\ UNCHANGED store
  BY InvParts DEF Asks
<1>6. ASSUME NEW q \in Procs, Pending(proc', q, t, "close") PROVE NothingOf(t, "prepare")'
  <2>1. CASE c = "close"
    BY <1>1, <1>4, <2>1 DEF Asks
  <2>2. CASE c = "prepare"
    BY <1>1, <1>2, <1>6, <2>2 DEF Asks, NothingOf
  <2>3. CASE c \notin {"prepare", "close"}
    BY <1>1, <1>2, <1>4, <1>5, <1>6, <2>3 DEF LinesInv
  <2> QED BY <2>1, <2>2, <2>3
<1> QED BY <1>3, <1>4, <1>5, <1>6 DEF LinesInv

LEMMA AskStep ==
  ASSUME PoolInv, NEW P, NEW p \in Procs, NEW t \in Tasks, NEW c \in Commands, Asks(P, p, t, c),
         NEW h \in Handler, task' = [task EXCEPT ![t] = h], h.proc = p, Mine(t) \in {p, NoProc},
         UNCHANGED row, pooled' \in Procs \cup {NoProc}, overlapped' \in BOOLEAN,
         LinesInv(t)', StoreInv(t)'
  PROVE  PoolInv'
<1>1. task \in [Tasks -> Handler] /\ {"prepare", "close"} \subseteq Commands
  BY DEF PoolInv, PoolTypeOK, Commands
<1>2. task' \in [Tasks -> Handler] /\ task'[t] = h /\ \A u \in Tasks \ {t} : task'[u] = task[u]
  BY <1>1
<1>3. PoolTypeOK'
  BY <1>2, AskLines DEF PoolInv, PoolTypeOK, ProcsOK, Asks
<1>4. \A q \in Procs : proc[q].state = "up" => proc'[q].state = "up"
  BY AskLines
<1>5. \A q \in Procs, u \in Tasks, d \in Commands :
        Pending(proc', q, u, d) => Pending(proc, q, u, d) \/ (q = p /\ u = t /\ d = c /\ proc'[p].state = "up")
  BY AskPending
<1>6. \A q \in Procs, u \in Tasks, d \in Commands :
        Pending(proc', q, u, d) => Mine(u)' = q /\ proc'[q].state = "up"
  <2> SUFFICES ASSUME NEW q \in Procs, NEW u \in Tasks, NEW d \in Commands, Pending(proc', q, u, d)
               PROVE  task'[u].proc = q /\ proc'[q].state = "up"
    BY DEF Mine
  <2>1. CASE Pending(proc, q, u, d)
    <3>1. task[u].proc = q /\ proc[q].state = "up"
      BY <2>1, InvParts DEF PipesInv, Mine
    <3>2. u = t => q = p
      BY <3>1, PoolAssumption DEF Mine
    <3> QED BY <1>2, <1>4, <3>1, <3>2
  <2> QED BY <1>2, <1>5, <2>1
<1>7. \A q \in Procs, u \in Tasks, d \in {"prepare", "close"} : Single(proc', q, u, d)
  <2> SUFFICES ASSUME NEW q \in Procs, NEW u \in Tasks, NEW d \in {"prepare", "close"}
               PROVE  Single(proc', q, u, d)
    OBVIOUS
  <2>1. Single(proc, q, u, d)
    BY InvParts DEF PipesInv
  <2>2. ASSUME u = t, d = c PROVE ~Pending(proc, q, u, d)
    <3>1. NothingOf(t, "prepare") /\ NothingOf(t, "close")
      BY <2>2 DEF Asks
    <3>2. NothingOf(t, d)
      BY <3>1
    <3> QED BY <2>2, <3>2 DEF NothingOf
  <2>3. d \in Commands
    BY <1>1
  <2>4. ~(q = p /\ u = t /\ d = c /\ Pending(proc, q, u, d))
    BY <2>2
  <2> QED BY <2>1, <2>3, <2>4, AskSingle
<1>8. ASSUME NEW u \in Tasks \ {t} PROVE LinesInv(u)' /\ StoreInv(u)'
  <2>1. \A q \in Procs, d \in Commands : Pending(proc', q, u, d) => Pending(proc, q, u, d)
    BY <1>5
  <2>2. \A q \in Procs : Told(proc', q, u) => Told(proc, q, u)
    BY AskLines
  <2>3. store'[u] = store[u] /\ (store[u] = "open" => proc'[Mine(u)].state = "up")
    BY <1>4, InvParts DEF Asks
  <2> QED BY <1>2, <2>1, <2>2, <2>3, Undisturbed
<1> QED BY <1>3, <1>6, <1>7, <1>8 DEF PoolInv, PipesInv

(****************************************************************************)
(* One lemma per operation.                                                 *)
(****************************************************************************)
LEMMA OwnParts ==
  ASSUME PoolInv, NEW t \in Tasks
  PROVE  /\ LinesInv(t) /\ StoreInv(t) /\ task[t] \in Handler
         /\ task[t].pc \notin {"idle"} => Mine(t) \in Procs
         /\ task \in [Tasks -> Handler] /\ pooled \in Procs \cup {NoProc} /\ overlapped \in BOOLEAN
         /\ row \in [Tasks -> {"none", "active", "retained", "orphaned", "dropped"}]
  BY InvParts DEF PoolInv, PoolTypeOK, StoreInv

LEMMA AcquireKeeps == ASSUME PoolInv, NEW t \in Tasks, Acquire(t) PROVE PoolInv'
<1>1. /\ task[t].pc = "idle" /\ UNCHANGED <<pooled, store, row>> /\ overlapped' \in BOOLEAN
      /\ Mine(t) = NoProc /\ task[t].report = "none" /\ store[t] = "none" /\ row[t] = "none"
  BY OwnParts DEF Acquire, StoreInv
<1>2. NothingOf(t, "prepare") /\ NothingOf(t, "close")
  BY <1>1, OwnParts DEF LinesInv, BeforeClose
<1>3. ASSUME NEW p \in Procs, NEW c \in {"hello", "prepare"}, NEW P, Asks(P, p, t, c),
             task' = [task EXCEPT ![t].pc = c, ![t].proc = p]
      PROVE  PoolInv'
  <2> DEFINE h == [task[t] EXCEPT !.pc = c, !.proc = p]
  <2>1. h \in Handler /\ h.proc = p /\ h.pc = c /\ h.report = "none"
    BY <1>1, OwnParts DEF Handler, Commands
  <2>2. task' = [task EXCEPT ![t] = h]
    BY <1>3, OwnParts DEF Handler
  <2> HIDE DEF h
  <2>3. task'[t] = h /\ c \in Commands
    BY <2>2, OwnParts DEF Commands
  <2>4. LinesInv(t)'
    <3>1. NothingOf(t, "close")' /\ (c = "hello" => NothingOf(t, "prepare")')
      BY <1>2, <1>3, <2>3, AskFades DEF Commands
    <3>2. \A q \in Procs :
            /\ Pending(proc', q, t, "close") => NothingOf(t, "prepare")'
            /\ Told(proc', q, t) => store'[t] \in {"stopped", "gone"}
      BY <1>3, <2>3, AskFades
    <3> QED BY <2>1, <2>3, <3>1, <3>2 DEF LinesInv, AfterPrepare
  <2>5. StoreInv(t)'
    BY <1>1, <2>1, <2>3 DEF StoreInv, Mine
  <2>6. Asks(P, p, t, c) /\ Mine(t) \in {p, NoProc} /\ UNCHANGED row
        /\ pooled' \in Procs \cup {NoProc} /\ overlapped' \in BOOLEAN
    BY <1>1, <1>3, OwnParts
  <2> QED BY <2>1, <2>2, <2>3, <2>4, <2>5, <2>6, AskStep
<1>4. CASE Alive(pooled) /\ task' = [task EXCEPT ![t].pc = "prepare", ![t].proc = pooled]
           /\ proc' = Asked(proc, pooled, t, "prepare")
  <2>1. pooled \in Procs
    BY <1>4, OwnParts DEF Alive
  <2>2. Asks(proc, pooled, t, "prepare")
    BY <1>1, <1>2, <1>4, InvParts, SameNarrows DEF Asks
  <2> QED BY <1>3, <1>4, <2>1, <2>2
<1>5. ASSUME NEW p \in Procs, proc[p].state = "unborn", task' = [task EXCEPT ![t].pc = "hello", ![t].proc = p],
             proc' = Asked([proc EXCEPT ![p].state = "up"], p, t, "hello")
      PROVE  PoolInv'
  <2> DEFINE P == [proc EXCEPT ![p].state = "up"]
  <2>1. ProcsOK(P) /\ P[p].inbox = proc[p].inbox /\ P[p].outbox = proc[p].outbox
        /\ \A q \in Procs : (q # p => P[q] = proc[q]) /\ (proc[q].state = "up" => P[q].state = "up")
    BY InvParts DEF ProcsOK, Process
  <2> HIDE DEF P
  <2>2. Narrows(proc, P, p)
    BY <2>1 DEF Narrows, Pending, Single, Told
  <2>3. \A q \in Procs : Narrows(proc, P, q)
    BY <2>1, <2>2, SameNarrows
  <2>4. Asks(P, p, t, "hello")
    BY <1>1, <1>5, <2>1, <2>3 DEF Asks, P
  <2> QED BY <1>3, <1>5, <2>4
<1> QED BY <1>4, <1>5 DEF Acquire

(* A task that has not reported goes on. *)
Places == {"idle", "open", "acted", "release", "update", "ended"} \cup Commands

LEMMA GoesOn ==
  ASSUME PoolInv, Settles, NEW t \in Tasks, NEW pc \in Places \ {"idle", "hello", "update"}, NEW healthy \in BOOLEAN,
         Becomes(t, With(t, pc, healthy)), UNCHANGED <<pooled, row, overlapped>>,
         task[t].pc \notin Ending \cup {"idle"},
         pc \in AfterPrepare => NothingOf(t, "prepare")',
         pc \in BeforeClose => NothingOf(t, "close")'
  PROVE  PoolInv'
<1> DEFINE h == With(t, pc, healthy)
<1>1. h \in Handler /\ h.proc = Mine(t) /\ h.pc = pc /\ h.report = task[t].report
  BY OwnParts DEF Handler, Places, With, Mine
<1>2. task' = [task EXCEPT ![t] = h]
  BY DEF Becomes
<1> HIDE DEF h
<1>3. task'[t] = h /\ task[t].report = "none" /\ row[t] \notin {"retained", "orphaned", "dropped"}
  BY <1>2, OwnParts DEF StoreInv, Ending
<1>4. LinesInv(t)'
  BY <1>1, <1>3, Fades DEF LinesInv
<1>5. store'[t] = "open" => Alive(Mine(t))'
  BY <1>1, <1>3, OwnParts DEF Settles, Alive, Mine, StoreInv
<1>6. StoreInv(t)'
  BY <1>1, <1>3, <1>5, OwnParts DEF StoreInv, Mine, Ending
<1>7. /\ pooled' \in Procs \cup {NoProc} /\ overlapped' \in BOOLEAN
      /\ row' \in [Tasks -> {"none", "active", "retained", "orphaned", "dropped"}]
      /\ \A u \in Tasks \ {t} : row'[u] = row[u]
  BY OwnParts
<1> QED BY <1>1, <1>2, <1>4, <1>6, <1>7, SettledStep

LEMMA StartFailsKeeps == ASSUME PoolInv, NEW t \in Tasks, StartFails(t) PROVE PoolInv'
<1>1. "ended" \in Places \ {"idle", "hello", "update"} /\ "ended" \notin AfterPrepare \cup BeforeClose
  BY DEF Places, Commands, AfterPrepare, BeforeClose
<1> QED BY <1>1, DiscardSettles, GoesOn DEF StartFails, Ending

LEMMA PrepareFailsKeeps == ASSUME PoolInv, NEW t \in Tasks, PrepareFails(t) PROVE PoolInv'
<1>1. "release" \in Places \ {"idle", "hello", "update"} /\ "release" \notin AfterPrepare \cup BeforeClose
  BY DEF Places, Commands, AfterPrepare, BeforeClose
<1> QED BY <1>1, FailSettles, GoesOn DEF PrepareFails, Ending

LEMMA ActEndsKeeps == ASSUME PoolInv, NEW t \in Tasks, ActSucceeds(t) \/ ActFails(t) PROVE PoolInv'
<1>1. /\ "acted" \in Places \ {"idle", "hello", "update"}
      /\ task[t].pc \in {"execute_action", "inspect_state"}
      /\ UNCHANGED <<pooled, row, overlapped>>
  BY DEF Places, Commands, ActSucceeds, ActFails
<1>2. Settles
  BY AnswerSettles, DiscardSettles, FailSettles DEF ActSucceeds, ActFails
<1>3. \E healthy \in BOOLEAN : Becomes(t, With(t, "acted", healthy))
  BY OwnParts DEF ActSucceeds, ActFails, Handler
<1>4. NothingOf(t, "prepare")' /\ NothingOf(t, "close")'
  BY <1>1, <1>2, Fades, OwnParts DEF LinesInv, AfterPrepare, BeforeClose, Commands
<1> QED BY <1>1, <1>2, <1>3, <1>4, GoesOn DEF Ending

LEMMA PreparedKeeps == ASSUME PoolInv, NEW t \in Tasks, Prepared(t) PROVE PoolInv'
<1>1. Settles /\ UNCHANGED <<store, pooled, overlapped>> /\ task[t].pc = "prepare" /\ NothingOf(t, "prepare")'
  BY AnswerSettles DEF Prepared, NothingOf
<1>2. NothingOf(t, "close")'
  BY <1>1, Fades, OwnParts DEF LinesInv, BeforeClose, Commands
<1>3. CASE Becomes(t, With(t, "ended", TRUE)) /\ UNCHANGED row
  <2>1. "ended" \in Places \ {"idle", "hello", "update"} /\ "ended" \notin AfterPrepare \cup BeforeClose
    BY DEF Places, Commands, AfterPrepare, BeforeClose
  <2> QED BY <1>1, <1>3, <2>1, GoesOn DEF Ending
<1>4. CASE Becomes(t, With(t, "open", TRUE)) /\ row' = [row EXCEPT ![t] = "active"]
  <2> DEFINE h == With(t, "open", TRUE)
  <2>1. h \in Handler /\ h.proc = Mine(t) /\ h.pc = "open" /\ h.report = task[t].report
    BY OwnParts DEF Handler, With, Mine
  <2>2. task' = [task EXCEPT ![t] = h]
    BY <1>4 DEF Becomes
  <2> HIDE DEF h
  <2>3. task'[t] = h /\ task[t].report = "none" /\ row'[t] = "active"
    BY <1>1, <1>4, <2>2, OwnParts DEF StoreInv, Ending
  <2>4. LinesInv(t)'
    BY <1>1, <1>2, <2>1, <2>3, Fades DEF LinesInv
  <2>5. store'[t] = "open" => Alive(Mine(t))'
    BY <1>1, <2>1, <2>3, OwnParts DEF Settles, Alive, Mine, StoreInv
  <2>6. StoreInv(t)'
    BY <1>1, <2>1, <2>3, <2>5, OwnParts DEF StoreInv, Mine, Ending
  <2>7. /\ row' \in [Tasks -> {"none", "active", "retained", "orphaned", "dropped"}]
        /\ \A u \in Tasks \ {t} : row'[u] = row[u]
        /\ pooled' \in Procs \cup {NoProc} /\ overlapped' \in BOOLEAN
    BY <1>1, <1>4, OwnParts
  <2> QED BY <1>1, <2>1, <2>2, <2>4, <2>6, <2>7, SettledStep
<1> QED BY <1>3, <1>4 DEF Prepared

(* A task that has not reported asks its own process and waits for that command. *)
LEMMA AsksOn ==
  ASSUME PoolInv, NEW t \in Tasks, NEW c \in {"prepare", "execute_action", "inspect_state", "close"},
         task[t].pc \in BeforeClose \ {"idle"}, NEW P, Asks(P, Mine(t), t, c),
         task' = [task EXCEPT ![t].pc = c], UNCHANGED row, pooled' \in Procs \cup {NoProc}, UNCHANGED overlapped,
         c # "prepare" => NothingOf(t, "prepare")
  PROVE  PoolInv'
<1> DEFINE h == [task[t] EXCEPT !.pc = c]
<1>1. h \in Handler /\ h.proc = Mine(t) /\ h.pc = c /\ h.report = task[t].report /\ c \in Commands
  BY OwnParts DEF Handler, Commands, Mine
<1>2. task' = [task EXCEPT ![t] = h]
  BY OwnParts DEF Handler
<1> HIDE DEF h
<1>3. /\ task'[t] = h /\ task[t].report = "none" /\ Mine(t) \in Procs
      /\ row[t] \notin {"retained", "orphaned", "dropped"} /\ overlapped' \in BOOLEAN
  BY <1>2, OwnParts DEF StoreInv, Ending, BeforeClose
<1>4. NothingOf(t, "close")
  BY OwnParts DEF LinesInv
<1>5. /\ \A d \in Commands \ {c} : NothingOf(t, d) => NothingOf(t, d)'
      /\ \A q \in Procs :
           /\ Pending(proc', q, t, "close") => NothingOf(t, "prepare")'
           /\ Told(proc', q, t) => store'[t] \in {"stopped", "gone"}
  BY <1>1, <1>3, AskFades
<1>6. LinesInv(t)'
  <2>1. c # "prepare" => NothingOf(t, "prepare")'
    BY <1>5 DEF Commands
  <2>2. c # "close" => NothingOf(t, "close")'
    BY <1>4, <1>5 DEF Commands
  <2> QED BY <1>1, <1>3, <1>5, <2>1, <2>2 DEF LinesInv, AfterPrepare, BeforeClose
<1>7. store'[t] = "open" => Alive(Mine(t))'
  <2>1. \A q \in Procs : proc[q].state = "up" => proc'[q].state = "up"
    BY <1>1, <1>3, AskLines
  <2>2. UNCHANGED store
    BY DEF Asks
  <2> QED BY <1>1, <1>3, <2>1, <2>2, OwnParts DEF StoreInv, Alive, Mine
<1>8. StoreInv(t)'
  <2>1. UNCHANGED store
    BY DEF Asks
  <2> QED BY <1>1, <1>3, <1>7, <2>1, OwnParts DEF StoreInv, Mine
<1> QED BY <1>1, <1>2, <1>3, <1>6, <1>8, AskStep

LEMMA Greeting ==
  ASSUME PoolInv, NEW p \in Procs
  PROVE  LET P == [proc EXCEPT ![p].outbox = <<>>, ![p].reader = NoTask] IN
         /\ ProcsOK(P) /\ P[p].inbox = proc[p].inbox /\ P[p].outbox = <<>>
         /\ \A q \in Procs : (q # p => P[q] = proc[q]) /\ P[q].state = proc[q].state
<1> DEFINE P == [proc EXCEPT ![p].outbox = <<>>, ![p].reader = NoTask]
           r == [proc[p] EXCEPT !.outbox = <<>>, !.reader = NoTask]
<1>1. proc \in [Procs -> Process] /\ proc[p] \in Process /\ <<>> \in Seq(Tasks \X Commands \X BOOLEAN)
  BY InvParts DEF ProcsOK
<1>2. r \in Process /\ r.inbox = proc[p].inbox /\ r.outbox = <<>> /\ r.state = proc[p].state
  BY <1>1 DEF Process
<1>3. P = [proc EXCEPT ![p] = r]
  BY <1>1 DEF Process
<1> HIDE DEF r, P
<1>4. /\ ProcsOK(P) /\ P[p].inbox = proc[p].inbox /\ P[p].outbox = <<>>
      /\ \A q \in Procs : (q # p => P[q] = proc[q]) /\ P[q].state = proc[q].state
  BY <1>1, <1>2, <1>3 DEF ProcsOK
<1> QED BY <1>4 DEF P

LEMMA StartedKeeps == ASSUME PoolInv, NEW t \in Tasks, Started(t) PROVE PoolInv'
<1> DEFINE p == Mine(t)
           P == [proc EXCEPT ![p].outbox = <<>>, ![p].reader = NoTask]
<1>1. /\ task[t].pc = "hello" /\ UNCHANGED <<store, row, overlapped>> /\ p \in Procs /\ pooled' = p
      /\ task' = [task EXCEPT ![t].pc = "prepare"] /\ proc' = Asked(P, p, t, "prepare")
  BY OwnParts DEF Started
<1>2. ProcsOK(P) /\ P[p].inbox = proc[p].inbox /\ P[p].outbox = <<>>
      /\ \A q \in Procs : (q # p => P[q] = proc[q]) /\ P[q].state = proc[q].state
  BY <1>1, Greeting
<1> HIDE DEF P
<1>3. Narrows(proc, P, p)
  BY <1>2, EmptyPipe DEF Narrows, Pending, Single, Told
<1>4. \A q \in Procs : Narrows(proc, P, q)
  BY <1>2, <1>3, SameNarrows
<1>5. NothingOf(t, "prepare") /\ NothingOf(t, "close")
  BY <1>1, OwnParts DEF LinesInv, BeforeClose
<1>6. Asks(P, p, t, "prepare")
  BY <1>1, <1>2, <1>4, <1>5 DEF Asks
<1>7. task[t].pc \in BeforeClose \ {"idle"} /\ pooled' \in Procs \cup {NoProc}
  BY <1>1 DEF BeforeClose
<1> QED BY <1>1, <1>6, <1>7, AsksOn

LEMMA OwnAsks ==
  ASSUME PoolInv, NEW t \in Tasks, NEW c \in {"execute_action", "inspect_state", "close"},
         task[t].pc \in BeforeClose \cap AfterPrepare, Ask(t, c), UNCHANGED store
  PROVE  Asks(proc, Mine(t), t, c) /\ NothingOf(t, "prepare")
<1>1. NothingOf(t, "prepare") /\ NothingOf(t, "close")
  BY OwnParts DEF LinesInv
<1> QED BY <1>1, InvParts, SameNarrows DEF Asks, Ask

LEMMA ActKeeps ==
  ASSUME PoolInv, NEW t \in Tasks, NEW c \in {"execute_action", "inspect_state"}, Act(t, c) PROVE PoolInv'
<1>1. task[t].pc \in BeforeClose \cap AfterPrepare /\ task[t].pc # "idle"
  BY DEF Act, BeforeClose, AfterPrepare
<1> QED BY <1>1, OwnAsks, AsksOn, OwnParts DEF Act, Ask

LEMMA CloseKeeps == ASSUME PoolInv, NEW t \in Tasks, Close(t) PROVE PoolInv'
<1>1. task[t].pc \in BeforeClose \cap AfterPrepare /\ task[t].pc # "idle" /\ UNCHANGED <<pooled, store, row, overlapped>>
  BY DEF Close, BeforeClose, AfterPrepare
<1>2. CASE Ask(t, "close")
  BY <1>1, <1>2, OwnAsks, AsksOn, OwnParts DEF Ask
<1>3. CASE Becomes(t, [With(t, "release", FALSE) EXCEPT !.report = "unhealthy"]) /\ UNCHANGED proc
  <2> DEFINE h == [With(t, "release", FALSE) EXCEPT !.report = "unhealthy"]
  <2>1. h \in Handler /\ h.proc = Mine(t) /\ h.pc = "release" /\ h.report = "unhealthy" /\ ~h.healthy
    BY OwnParts DEF Handler, With, Mine
  <2>2. task' = [task EXCEPT ![t] = h] /\ Settles
    BY <1>1, <1>3, StayingSettles DEF Becomes
  <2> HIDE DEF h
  <2>3. task'[t] = h /\ row[t] \notin {"retained", "orphaned", "dropped"}
    BY <1>1, <2>2, OwnParts DEF StoreInv, BeforeClose
  <2>4. LinesInv(t)'
    <3>1. NothingOf(t, "prepare")' /\ NothingOf(t, "close")'
      BY <1>1, <2>2, Fades, OwnParts DEF LinesInv, Commands
    <3> QED BY <2>1, <2>2, <2>3, <3>1, Fades DEF LinesInv, AfterPrepare, BeforeClose
  <2>5. store'[t] = "open" => Alive(Mine(t))'
    BY <1>1, <1>3, <2>1, <2>3, OwnParts DEF Alive, Mine, StoreInv
  <2>6. StoreInv(t)'
    BY <1>1, <2>1, <2>3, <2>5, OwnParts DEF StoreInv, Mine, Ending
  <2>7. /\ pooled' \in Procs \cup {NoProc} /\ overlapped' \in BOOLEAN
        /\ row' \in [Tasks -> {"none", "active", "retained", "orphaned", "dropped"}]
        /\ \A u \in Tasks \ {t} : row'[u] = row[u]
    BY <1>1, OwnParts
  <2> QED BY <2>1, <2>2, <2>4, <2>6, <2>7, SettledStep
<1> QED BY <1>2, <1>3 DEF Close

LEMMA CloseReturnsKeeps == ASSUME PoolInv, NEW t \in Tasks, CloseReturns(t) PROVE PoolInv'
<1>1. task[t].pc = "close" /\ UNCHANGED <<pooled, row, overlapped>>
  BY DEF CloseReturns
<1>2. CASE Fails(t) /\ Becomes(t, With(t, "release", TRUE))
  <2>1. "release" \in Places \ {"idle", "hello", "update"} /\ "release" \notin AfterPrepare \cup BeforeClose
    BY DEF Places, Commands, AfterPrepare, BeforeClose
  <2> QED BY <1>1, <1>2, <2>1, FailSettles, GoesOn DEF Ending
<1>3. CASE Answered(t, TRUE) /\ Becomes(t, [With(t, "release", TRUE) EXCEPT !.report = "closed"])
  <2> DEFINE h == [With(t, "release", TRUE) EXCEPT !.report = "closed"]
  <2>1. h \in Handler /\ h.proc = Mine(t) /\ h.pc = "release" /\ h.report = "closed"
    BY OwnParts DEF Handler, With, Mine
  <2>2. task' = [task EXCEPT ![t] = h] /\ Settles /\ UNCHANGED store /\ store[t] \in {"stopped", "gone"}
        /\ NothingOf(t, "close")'
    BY <1>1, <1>3, AnswerSettles DEF Becomes, NothingOf
  <2> HIDE DEF h
  <2>3. task'[t] = h /\ row[t] \notin {"retained", "orphaned", "dropped"}
    BY <1>1, <2>2, OwnParts DEF StoreInv
  <2>4. LinesInv(t)'
    <3>1. NothingOf(t, "prepare")'
      BY <1>1, <2>2, Fades, OwnParts DEF LinesInv, Commands, AfterPrepare
    <3> QED BY <2>1, <2>2, <2>3, <3>1, Fades DEF LinesInv, AfterPrepare, BeforeClose
  <2>5. StoreInv(t)'
    BY <1>1, <2>1, <2>2, <2>3, OwnParts DEF StoreInv, Mine, Ending
  <2>6. /\ pooled' \in Procs \cup {NoProc} /\ overlapped' \in BOOLEAN
        /\ row' \in [Tasks -> {"none", "active", "retained", "orphaned", "dropped"}]
        /\ \A u \in Tasks \ {t} : row'[u] = row[u]
    BY <1>1, OwnParts
  <2> QED BY <2>1, <2>2, <2>4, <2>5, <2>6, SettledStep
<1> QED BY <1>2, <1>3 DEF CloseReturns

LEMMA Counting ==
  ASSUME PoolInv, NEW p \in Procs
  PROVE  LET P == [proc EXCEPT ![p].episodes = @ + 1] IN
         /\ ProcsOK(P) /\ P[p].inbox = proc[p].inbox /\ P[p].outbox = proc[p].outbox
         /\ \A q \in Procs : (q # p => P[q] = proc[q]) /\ P[q].state = proc[q].state
<1> DEFINE P == [proc EXCEPT ![p].episodes = @ + 1]
           n == proc[p].episodes + 1
           r == [proc[p] EXCEPT !.episodes = n]
<1>1. proc \in [Procs -> Process] /\ proc[p] \in Process
  BY InvParts DEF ProcsOK
<1>2. n \in Nat
  BY <1>1 DEF Process
<1> HIDE DEF n
<1>3. r \in Process /\ r.inbox = proc[p].inbox /\ r.outbox = proc[p].outbox /\ r.state = proc[p].state
  BY <1>1, <1>2 DEF Process
<1>4. P = [proc EXCEPT ![p] = r]
  BY <1>1 DEF Process, n
<1> HIDE DEF r, P
<1>5. /\ ProcsOK(P) /\ P[p].inbox = proc[p].inbox /\ P[p].outbox = proc[p].outbox
      /\ \A q \in Procs : (q # p => P[q] = proc[q]) /\ P[q].state = proc[q].state
  BY <1>1, <1>3, <1>4 DEF ProcsOK
<1> QED BY <1>5 DEF P

LEMMA ReleaseKeeps == ASSUME PoolInv, NEW t \in Tasks, Release(t) PROVE PoolInv'
<1> DEFINE p == Mine(t)
           P == [proc EXCEPT ![p].episodes = @ + 1]
           discard == ~task[t].healthy \/ ~Alive(p) \/ proc[p].episodes + 1 >= RecycleAfter
           pc == IF discard /\ Alive(p) THEN "shutdown" ELSE AfterRelease(t)
           h == [task[t] EXCEPT !.pc = pc]
<1>1. /\ task[t].pc = "release" /\ UNCHANGED <<store, row, overlapped>> /\ p \in Procs
      /\ pooled' \in Procs \cup {NoProc} /\ overlapped' \in BOOLEAN
      /\ proc' = IF discard THEN Asked(P, p, t, "shutdown") ELSE P
      /\ task' = [task EXCEPT ![t].pc = pc]
  BY OwnParts DEF Release
<1>2. /\ pc \in {"shutdown", "update", "ended"} /\ (pc = "update" => task[t].report # "none")
      /\ pc # "shutdown" /\ task[t].report # "none" => pc = "update"
      /\ pc # "shutdown" /\ ~task[t].healthy => ~Alive(p)
  BY DEF AfterRelease
<1>3. ProcsOK(P) /\ P[p].inbox = proc[p].inbox /\ P[p].outbox = proc[p].outbox
      /\ \A q \in Procs : (q # p => P[q] = proc[q]) /\ P[q].state = proc[q].state
  BY <1>1, Counting
<1> HIDE DEF P, discard, pc
<1>4. Narrows(proc, P, p)
  BY <1>3 DEF Narrows, Pending, Single, Told
<1>5. \A q \in Procs : Narrows(proc, P, q)
  BY <1>3, <1>4, SameNarrows
<1>6. h \in Handler /\ h.proc = p /\ h.pc = pc /\ h.report = task[t].report /\ h.healthy = task[t].healthy
      /\ task' = [task EXCEPT ![t] = h]
  BY <1>1, <1>2, OwnParts DEF Handler, Commands, Mine
<1> HIDE DEF h
<1>7. task'[t] = h /\ row[t] \notin {"retained", "orphaned", "dropped"}
  BY <1>1, <1>6, OwnParts DEF StoreInv
<1>8. ASSUME \A q \in Procs : proc[q].state = "up" => proc'[q].state = "up" PROVE StoreInv(t)'
  <2>1. store'[t] = "open" => Alive(Mine(t))'
    BY <1>1, <1>6, <1>7, <1>8, OwnParts DEF Alive, Mine, StoreInv
  <2>2. task[t].report = "unhealthy" /\ pc \in {"update", "ended"} => store[t] # "open"
    BY <1>2, OwnParts DEF StoreInv
  <2> QED BY <1>1, <1>2, <1>6, <1>7, <2>1, <2>2, OwnParts DEF StoreInv, Mine, Ending
<1>9. CASE discard
  <2>1. Asks(P, p, t, "shutdown") /\ "shutdown" \in Commands
    BY <1>1, <1>3, <1>5, <1>9 DEF Asks, Commands
  <2>2. StoreInv(t)'
    BY <1>1, <1>8, <2>1, AskLines
  <2>3. LinesInv(t)'
    <3>1. task[t].report # "none" => NothingOf(t, "prepare") /\ NothingOf(t, "close")
      BY OwnParts DEF LinesInv
    <3>2. {"prepare", "close"} \subseteq Commands \ {"shutdown"}
      BY DEF Commands
    <3> QED BY <1>1, <1>2, <1>6, <1>7, <2>1, <3>1, <3>2, AskFades DEF LinesInv, AfterPrepare, BeforeClose
  <2>4. Mine(t) \in {p, NoProc}
    OBVIOUS
  <2> QED BY <1>1, <1>6, <2>1, <2>2, <2>3, <2>4, AskStep
<1>10. CASE ~discard
  <2>1. proc' = P /\ UNCHANGED store
    BY <1>1, <1>10
  <2>2. Settles
    BY <1>3, <1>5, <2>1, InvParts DEF Settles, PipesInv, Narrows, PoolInv, PoolTypeOK
  <2>3. StoreInv(t)'
    BY <1>3, <1>8, <2>1
  <2>4. LinesInv(t)'
    BY <1>2, <1>6, <1>7, <2>2, Fades, OwnParts DEF LinesInv, AfterPrepare, BeforeClose, Commands
  <2>5. row' \in [Tasks -> {"none", "active", "retained", "orphaned", "dropped"}] /\ \A u \in Tasks \ {t} : row'[u] = row[u]
    BY <1>1, OwnParts
  <2> QED BY <1>1, <1>6, <2>2, <2>3, <2>4, <2>5, SettledStep
<1> QED BY <1>9, <1>10

LEMMA StopEndsKeeps == ASSUME PoolInv, NEW t \in Tasks, StopEnds(t) PROVE PoolInv'
<1> DEFINE pc == AfterRelease(t)
           h == [task[t] EXCEPT !.pc = pc]
<1>1. task[t].pc = "shutdown" /\ UNCHANGED <<pooled, row, overlapped>> /\ Mine(t) \in Procs /\ Kill(Mine(t))
      /\ task' = [task EXCEPT ![t].pc = pc]
  BY OwnParts DEF StopEnds
<1>2. Settles /\ store'[t] # "open"
  BY <1>1, KillSettles
<1>3. pc \in {"update", "ended"} /\ (pc = "update" => task[t].report # "none")
  BY DEF AfterRelease
<1> HIDE DEF pc
<1>4. h \in Handler /\ h.proc = Mine(t) /\ h.pc = pc /\ h.report = task[t].report /\ h.healthy = task[t].healthy
      /\ task' = [task EXCEPT ![t] = h]
  BY <1>1, <1>3, OwnParts DEF Handler, Mine
<1> HIDE DEF h
<1>5. task'[t] = h /\ row[t] \notin {"retained", "orphaned", "dropped"}
  BY <1>1, <1>4, OwnParts DEF StoreInv
<1>6. LinesInv(t)'
  BY <1>2, <1>3, <1>4, <1>5, Fades, OwnParts DEF LinesInv, AfterPrepare, BeforeClose, Commands
<1>7. store[t] \in {"stopped", "gone"} => store'[t] \in {"stopped", "gone"}
  BY <1>2 DEF Settles
<1>8. StoreInv(t)'
  BY <1>1, <1>2, <1>3, <1>4, <1>5, <1>7, OwnParts DEF StoreInv, Mine, Ending
<1>9. /\ pooled' \in Procs \cup {NoProc} /\ overlapped' \in BOOLEAN
      /\ row' \in [Tasks -> {"none", "active", "retained", "orphaned", "dropped"}]
      /\ \A u \in Tasks \ {t} : row'[u] = row[u]
  BY <1>1, OwnParts
<1> QED BY <1>2, <1>4, <1>6, <1>8, <1>9, SettledStep

LEMMA UpdateOwnershipKeeps == ASSUME PoolInv, NEW t \in Tasks, UpdateOwnership(t) PROVE PoolInv'
<1> DEFINE h == [task[t] EXCEPT !.pc = "ended"]
           r == IF task[t].report = "unhealthy" THEN "orphaned" ELSE IF store[t] = "gone" THEN "dropped" ELSE "retained"
<1>1. /\ task[t].pc = "update" /\ UNCHANGED <<proc, pooled, store, overlapped>>
      /\ task' = [task EXCEPT ![t].pc = "ended"] /\ row' = [row EXCEPT ![t] = r]
  BY DEF UpdateOwnership
<1>2. r \in {"retained", "orphaned", "dropped"} /\ (r = "dropped" => store[t] = "gone")
  OBVIOUS
<1> HIDE DEF r
<1>3. h \in Handler /\ h.proc = Mine(t) /\ h.pc = "ended" /\ h.report = task[t].report /\ h.healthy = task[t].healthy
      /\ task' = [task EXCEPT ![t] = h]
  BY <1>1, OwnParts DEF Handler, Mine
<1> HIDE DEF h
<1>4. task'[t] = h /\ row'[t] = r /\ \A u \in Tasks \ {t} : row'[u] = row[u]
  BY <1>1, <1>3, OwnParts
<1>5. Settles
  BY <1>1, StayingSettles
<1>6. LinesInv(t)'
  BY <1>3, <1>4, <1>5, Fades, OwnParts DEF LinesInv, AfterPrepare, BeforeClose, Commands
<1>7. store'[t] = "open" => Alive(Mine(t))'
  BY <1>1, <1>3, <1>4, OwnParts DEF Alive, Mine, StoreInv
<1>8. StoreInv(t)'
  BY <1>1, <1>2, <1>3, <1>4, <1>7, OwnParts DEF StoreInv, Mine, Ending
<1>9. /\ pooled' \in Procs \cup {NoProc} /\ overlapped' \in BOOLEAN
      /\ row' \in [Tasks -> {"none", "active", "retained", "orphaned", "dropped"}]
  BY <1>1, <1>2, OwnParts
<1> QED BY <1>3, <1>4, <1>5, <1>6, <1>8, <1>9, SettledStep

(* A step that no task takes part in and that writes no line. *)
LEMMA QuietStep == ASSUME PoolInv, Settles, UNCHANGED <<pooled, task, row, overlapped>> PROVE PoolInv'
<1>1. PoolTypeOK'
  BY DEF Settles, ProcsOK, PoolInv, PoolTypeOK
<1> QED BY <1>1, PipesStay, SettlesUndisturbed DEF PoolInv

LEMMA CrashKeeps == ASSUME PoolInv, NEW p \in Procs, Crash(p) PROVE PoolInv'
  BY KillSettles, QuietStep DEF Crash

LEMMA ToldIsPending ==
  ASSUME NEW p, NEW t, Told(proc, p, t) PROVE Pending(proc, p, t, "close")
  BY DEF Told, Tells, Pending, Has

(* The server answers a line of t; only prepare and close change its store, and they are *)
(* in the pipe only as long as t has neither reported nor ended well.                    *)
LEMMA ReplyKeeps ==
  ASSUME PoolInv, NEW p \in Procs, Alive(p), proc[p].inbox # <<>>,
         NEW t \in Tasks, NEW c \in Commands, Head(proc[p].inbox) = <<t, c>>, NEW ok \in BOOLEAN,
         proc' = Replied(proc, p, t, c, ok), UNCHANGED <<pooled, task, row, overlapped>>,
         NEW after \in {"none", "open", "stopped", "gone"}, store' = [store EXCEPT ![t] = after],
         after = store[t] \/ c \in {"prepare", "close"},
         after = "open" => store[t] = "open" \/ c = "prepare",
         c = "close" /\ ok => after \in {"stopped", "gone"},
         store[t] \in {"stopped", "gone"} /\ c # "prepare" => after \in {"stopped", "gone"}
  PROVE  PoolInv'
<1>1. /\ ProcsOK(proc') /\ Pending(proc, p, t, c)
      /\ \A q \in Procs : proc'[q].state = proc[q].state /\ (q # p => Narrows(proc, proc', q))
      /\ \A u \in Tasks, d \in Commands :
           /\ Pending(proc', p, u, d) => Pending(proc, p, u, d)
           /\ Single(proc, p, u, d) => Single(proc', p, u, d)
           /\ Told(proc', p, u) => Told(proc, p, u) \/ (u = t /\ c = "close" /\ ok)
  BY InvParts, Replying
<1>2. {"prepare", "close"} \subseteq Commands
  BY DEF Commands
<1>3. \A q \in Procs, u \in Tasks, d \in Commands :
        /\ Pending(proc', q, u, d) => Pending(proc, q, u, d)
        /\ Single(proc, q, u, d) => Single(proc', q, u, d)
  BY <1>1 DEF Narrows
<1>4. \A q \in Procs, u \in Tasks : Told(proc', q, u) => Told(proc, q, u) \/ (u = t /\ c = "close" /\ ok)
  BY <1>1, <1>2 DEF Narrows
<1>5. store \in [Tasks -> {"none", "open", "stopped", "gone"}]
  BY DEF PoolInv, PoolTypeOK
<1>6. store' \in [Tasks -> {"none", "open", "stopped", "gone"}] /\ store'[t] = after
      /\ \A u \in Tasks \ {t} : store'[u] = store[u]
  BY <1>5
<1>7. PoolTypeOK'
  BY <1>1, <1>6 DEF ProcsOK, PoolInv, PoolTypeOK
<1>8. PipesInv'
  BY <1>1, <1>2, <1>3, InvParts DEF PipesInv, Mine
<1>9. Mine(t) = p /\ proc[p].state = "up" /\ task[t].pc # "idle"
  BY <1>1, InvParts, PoolAssumption DEF PipesInv, StoreInv
<1>10. c \in {"prepare", "close"} => task[t].report = "none"
  BY <1>1, InvParts DEF LinesInv, NothingOf
<1>11. \A d \in Commands : NothingOf(t, d) => NothingOf(t, d)'
  BY <1>3 DEF NothingOf
<1>12. LinesInv(t)'
  <2>1. LinesInv(t)
    BY InvParts
  <2>2. ASSUME NEW q \in Procs, Told(proc', q, t) PROVE store'[t] \in {"stopped", "gone"}
    <3>1. CASE c = "close" /\ ok
      BY <1>6, <3>1
    <3>2. CASE Told(proc, q, t)
      <4>1. Pending(proc, q, t, "close") /\ store[t] \in {"stopped", "gone"}
        BY <2>1, <3>2, ToldIsPending DEF LinesInv
      <4>2. c # "prepare"
        BY <1>1, <2>1, <4>1 DEF LinesInv, NothingOf
      <4> QED BY <1>6, <4>1, <4>2
    <3> QED BY <1>4, <2>2, <3>1, <3>2
  <2> QED BY <1>2, <1>3, <1>11, <2>1, <2>2 DEF LinesInv
<1>13. StoreInv(t)'
  <2>1. StoreInv(t)
    BY InvParts
  <2>2. after = "open" => Alive(Mine(t))'
    BY <1>1, <1>9, PoolAssumption DEF Alive, Mine
  <2>3. CASE after = store[t]
    BY <1>6, <2>1, <2>2, <2>3 DEF StoreInv, Mine
  <2>4. CASE c \in {"prepare", "close"}
    BY <1>6, <1>9, <1>10, <2>1, <2>2, <2>4 DEF StoreInv, Mine
  <2> QED BY <2>3, <2>4
<1>14. ASSUME NEW u \in Tasks \ {t} PROVE LinesInv(u)' /\ StoreInv(u)'
  <2>1. store'[u] = "open" => proc'[Mine(u)].state = "up"
    BY <1>1, <1>6, InvParts
  <2> QED BY <1>3, <1>4, <1>6, <2>1, Undisturbed
<1> QED BY <1>7, <1>8, <1>12, <1>13, <1>14 DEF PoolInv

LEMMA ServeKeeps == ASSUME PoolInv, NEW p \in Procs, Serve(p) PROVE PoolInv'
<1> DEFINE t == Head(proc[p].inbox)[1]
           c == Head(proc[p].inbox)[2]
<1>1. Alive(p) /\ proc[p].inbox # <<>> /\ UNCHANGED <<pooled, task, row, overlapped>>
  BY DEF Serve
<1>2. t \in Tasks /\ c \in Commands /\ Head(proc[p].inbox) = <<t, c>>
  <2>1. Head(proc[p].inbox) \in Tasks \X Commands
    BY <1>1, InvParts, Reading DEF ProcsOK, Process
  <2> QED BY <2>1
<1>3. store \in [Tasks -> {"none", "open", "stopped", "gone"}]
  BY DEF PoolInv, PoolTypeOK
<1>4. CASE Kill(p)
  BY <1>1, <1>4, KillSettles, QuietStep
<1>5. ASSUME NEW ok \in BOOLEAN, proc' = Replied(proc, p, t, c, ok),
             NEW after \in {"none", "open", "stopped", "gone"}, store' = [store EXCEPT ![t] = after],
             after = store[t] \/ c \in {"prepare", "close"},
             after = "open" => store[t] = "open" \/ c = "prepare",
             c = "close" /\ ok => after \in {"stopped", "gone"},
             store[t] \in {"stopped", "gone"} /\ c # "prepare" => after \in {"stopped", "gone"}
      PROVE  PoolInv'
  BY <1>1, <1>2, <1>5, ReplyKeeps
<1>6. CASE c \in {"hello", "execute_action", "inspect_state"} /\ UNCHANGED store
           /\ \E ok \in BOOLEAN : proc' = Replied(proc, p, t, c, ok)
  <2>1. PICK ok \in BOOLEAN : proc' = Replied(proc, p, t, c, ok)
    BY <1>6
  <2>2. store' = [store EXCEPT ![t] = store[t]] /\ store[t] \in {"none", "open", "stopped", "gone"} /\ c # "close"
    BY <1>2, <1>3, <1>6
  <2> QED BY <1>5, <2>1, <2>2
<1>7. CASE c = "prepare" /\ \E ok \in BOOLEAN, after \in {"open", "stopped"} :
             proc' = Replied(proc, p, t, c, ok) /\ store' = [store EXCEPT ![t] = after]
  BY <1>5, <1>7
<1>8. CASE c = "close" /\ \E after \in {"stopped", "gone"} :
             proc' = Replied(proc, p, t, c, TRUE) /\ store' = [store EXCEPT ![t] = after]
  BY <1>5, <1>8
<1>9. CASE c = "close" /\ \E after \in {store[t], "stopped"} :
             proc' = Replied(proc, p, t, c, FALSE) /\ store' = [store EXCEPT ![t] = after]
  <2>1. store[t] \in {"none", "open", "stopped", "gone"}
    BY <1>2, <1>3
  <2> QED BY <1>5, <1>9, <2>1
<1> QED BY <1>4, <1>6, <1>7, <1>8, <1>9 DEF Serve, Replied

LEMMA GcDropKeeps == ASSUME PoolInv, NEW t \in Tasks, GcDrop(t) PROVE PoolInv'
<1>1. /\ row[t] \in {"retained", "orphaned"} /\ store' = [store EXCEPT ![t] = "gone"]
      /\ UNCHANGED <<proc, pooled, task, row, overlapped>>
  BY DEF GcDrop, Collectable
<1>2. store \in [Tasks -> {"none", "open", "stopped", "gone"}]
  BY DEF PoolInv, PoolTypeOK
<1>3. store' \in [Tasks -> {"none", "open", "stopped", "gone"}] /\ store'[t] = "gone"
      /\ \A u \in Tasks \ {t} : store'[u] = store[u]
  BY <1>1, <1>2
<1>4. PoolTypeOK'
  BY <1>1, <1>3 DEF PoolInv, PoolTypeOK
<1>5. PipesInv'
  BY <1>1, InvParts DEF PipesInv, Mine
<1>6. LinesInv(t)'
  BY <1>1, <1>3, InvParts DEF LinesInv, NothingOf
<1>7. StoreInv(t)'
  BY <1>1, <1>3, InvParts DEF StoreInv, Mine, Alive
<1>8. ASSUME NEW u \in Tasks \ {t} PROVE LinesInv(u)' /\ StoreInv(u)'
  BY <1>1, <1>3, InvParts DEF LinesInv, NothingOf, StoreInv, Mine, Alive
<1> QED BY <1>4, <1>5, <1>6, <1>7, <1>8 DEF PoolInv

LEMMA GcRecordKeeps == ASSUME PoolInv, NEW t \in Tasks, GcRecord(t) PROVE PoolInv'
<1>1. /\ row[t] \in {"retained", "orphaned"} /\ row' = [row EXCEPT ![t] = "dropped"] /\ store[t] = "gone"
      /\ UNCHANGED <<proc, pooled, task, store, overlapped>>
  BY DEF GcRecord, Collectable
<1>2. /\ row' \in [Tasks -> {"none", "active", "retained", "orphaned", "dropped"}] /\ row'[t] = "dropped"
      /\ \A u \in Tasks \ {t} : row'[u] = row[u]
  BY <1>1, OwnParts
<1>3. PoolTypeOK'
  BY <1>1, <1>2 DEF PoolInv, PoolTypeOK
<1>4. PipesInv'
  BY <1>1, InvParts DEF PipesInv, Mine
<1>5. \A u \in Tasks : LinesInv(u)'
  BY <1>1, InvParts DEF LinesInv, NothingOf
<1>6. StoreInv(t)'
  BY <1>1, <1>2, InvParts DEF StoreInv, Mine, Alive
<1>7. ASSUME NEW u \in Tasks \ {t} PROVE StoreInv(u)'
  BY <1>1, <1>2, InvParts DEF StoreInv, Mine, Alive
<1> QED BY <1>3, <1>4, <1>5, <1>6, <1>7 DEF PoolInv

(****************************************************************************)
(* Ownership rows tell the truth.                                           *)
(****************************************************************************)
LEMMA NextInv == ASSUME PoolInv, PoolNext PROVE PoolInv'
<1>1. ASSUME NEW t \in Tasks, Client(t) PROVE PoolInv'
  BY <1>1, StartedKeeps, StartFailsKeeps, PreparedKeeps, PrepareFailsKeeps, ActKeeps, ActEndsKeeps,
     CloseKeeps, CloseReturnsKeeps, ReleaseKeeps, StopEndsKeeps, UpdateOwnershipKeeps DEF Client
<1>2. ASSUME NEW t \in Tasks, Acquire(t) \/ GcDrop(t) \/ GcRecord(t) PROVE PoolInv'
  BY <1>2, AcquireKeeps, GcDropKeeps, GcRecordKeeps
<1>3. ASSUME NEW p \in Procs, Serve(p) \/ Crash(p) PROVE PoolInv'
  BY <1>3, ServeKeeps, CrashKeeps
<1> QED BY <1>1, <1>2, <1>3 DEF PoolNext

LEMMA StutterInv == ASSUME PoolInv, UNCHANGED poolVars PROVE PoolInv'
  BY QuietStep, StayingSettles DEF poolVars

(* Processes, handlers, stores and rows have the values the code gives them, *)
(* and every line in a pipe is of a task that holds the process.             *)
THEOREM PoolHolds == PoolSpec => []PoolInv
  BY InitInv, NextInv, StutterInv, PTL DEF PoolSpec

(* Whatever starts, requests, servers and gc do: a store that gc may collect is *)
(* not open in a server, and a row that says dropped is of a store that is gone *)
(* (MemoryStoreOwnership.state, written by BridgeBackend.close and by gc).      *)
THEOREM RowsAreTrue == PoolSpec => []RowsTellTheTruth
  BY PoolHolds, Truth, PTL

(****************************************************************************)
(* No bridge is left behind.  Without overlap there is one active task: its *)
(* process is the pooled one from its start to its release.                 *)
(****************************************************************************)
Alone == \A t, u \in Tasks : Active(t) /\ Active(u) => t = u
Kept  == \A p \in Procs : proc[p].state = "up" => p = pooled \/ \E t \in Tasks : Active(t) /\ Mine(t) = p
Held(t) ==
  /\ task[t].pc = "hello" => ~Alive(pooled)
  /\ Active(t) /\ task[t].pc \notin {"hello", "shutdown", "update"} => Mine(t) = pooled
  /\ task[t].pc = "update" /\ Alive(Mine(t)) => Mine(t) = pooled
BehindInv ==
  /\ pooled # NoProc => proc[pooled].state # "unborn"
  /\ ~overlapped => Alone /\ Kept /\ \A t \in Tasks : Held(t)

(* Processes are born in Acquire only. *)
Withers == \A p \in Procs : proc'[p].state = proc[p].state \/ proc'[p].state = "dead"

LEMMA AskWithers ==
  ASSUME PoolInv, NEW P, ProcsOK(P), \A q \in Procs : P[q].state = proc[q].state,
         NEW p \in Procs, NEW t \in Tasks, NEW c \in Commands, proc' = Asked(P, p, t, c)
  PROVE  Withers
  BY Asking DEF Withers

LEMMA KillWithers == ASSUME PoolInv, NEW p \in Procs, Kill(p) PROVE Withers
<1>1. proc' = Dead(proc, p)
  BY DEF Kill, Dead
<1> QED BY <1>1, Dying, InvParts DEF Withers

LEMMA AnswerWithers == ASSUME PoolInv, NEW t \in Tasks, NEW ok \in BOOLEAN, Answered(t, ok) PROVE Withers
<1>1. Mine(t) \in Procs /\ proc[Mine(t)].outbox # <<>> /\ proc' = Taken(proc, Mine(t))
  BY InvParts DEF Answered, Reads, Taken
<1> QED BY <1>1, Taking, InvParts DEF Withers

LEMMA FailWithers ==
  ASSUME PoolInv, NEW t \in Tasks, Fails(t) \/ Discarded(t) \/ Collided(t) PROVE Withers
<1>1. Reads(t) => Mine(t) \in Procs
  BY InvParts DEF Reads
<1>2. UNCHANGED proc => Withers
  BY DEF Withers
<1> QED BY <1>1, <1>2, KillWithers, AnswerWithers DEF Fails, Discarded, Collided

LEMMA QuietBehind ==
  ASSUME PoolInv, BehindInv, Withers, UNCHANGED <<pooled, task, overlapped>> PROVE BehindInv'
<1>1. pooled \in Procs \cup {NoProc} /\ \A t \in Tasks : Mine(t) \in Procs \cup {NoProc}
  BY InvParts DEF PoolInv, PoolTypeOK, Handler, Mine
<1>2. \A p \in Procs \cup {NoProc} : Alive(p)' => Alive(p)
  BY DEF Withers, Alive
<1>3. pooled # NoProc => proc'[pooled].state # "unborn"
  BY <1>1 DEF BehindInv, Withers
<1>4. ASSUME ~overlapped PROVE (Alone /\ Kept /\ \A t \in Tasks : Held(t))'
  <2>1. Alone /\ Kept /\ \A t \in Tasks : Held(t)
    BY <1>4 DEF BehindInv
  <2>2. Alone' /\ Kept'
    BY <2>1 DEF Alone, Kept, Active, Mine, Withers
  <2>3. \A t \in Tasks : Held(t)'
    BY <1>1, <1>2, <2>1 DEF Held, Active, Mine
  <2> QED BY <2>2, <2>3
<1> QED BY <1>3, <1>4 DEF BehindInv

(* A task between its start and its release goes on, or ends with its process in the pool. *)
LEMMA WorkBehind ==
  ASSUME PoolInv, BehindInv, Withers, NEW t \in Tasks, Active(t), task[t].pc \notin {"hello", "shutdown", "update"},
         NEW h \in Handler, task' = [task EXCEPT ![t] = h], h.proc = Mine(t),
         h.pc \notin {"idle", "hello", "shutdown", "update"}, UNCHANGED <<pooled, overlapped>>
  PROVE  BehindInv'
<1>1. pooled \in Procs \cup {NoProc} /\ \A u \in Tasks : Mine(u) \in Procs \cup {NoProc}
  BY OwnParts DEF Handler, Mine
<1>2. \A p \in Procs \cup {NoProc} : Alive(p)' => Alive(p)
  BY DEF Withers, Alive
<1>3. task'[t] = h /\ \A u \in Tasks \ {t} : task'[u] = task[u]
  BY OwnParts
<1>4. pooled # NoProc => proc'[pooled].state # "unborn"
  BY <1>1 DEF BehindInv, Withers
<1>5. ASSUME ~overlapped PROVE (Alone /\ Kept /\ \A u \in Tasks : Held(u))'
  <2>1. Alone /\ Kept /\ Mine(t) = pooled /\ \A u \in Tasks : Held(u)
    BY <1>5 DEF BehindInv, Held
  <2>2. Alone'
    BY <1>3, <2>1 DEF Alone, Active
  <2>3. Kept'
    BY <1>3, <2>1 DEF Kept, Alone, Active, Mine, Withers
  <2>4. Held(t)'
    BY <1>3, <2>1 DEF Held, Mine
  <2>5. ASSUME NEW u \in Tasks \ {t} PROVE Held(u)'
    BY <1>1, <1>2, <1>3, <2>1 DEF Held, Active, Mine
  <2> QED BY <2>2, <2>3, <2>4, <2>5
<1> QED BY <1>4, <1>5 DEF BehindInv

LEMMA WorkKeepsBehind ==
  ASSUME PoolInv, BehindInv, NEW t \in Tasks,
         \/ Prepared(t) \/ PrepareFails(t) \/ ActSucceeds(t) \/ ActFails(t) \/ Close(t) \/ CloseReturns(t)
         \/ \E c \in {"execute_action", "inspect_state"} : Act(t, c)
  PROVE  BehindInv'
<1>1. Active(t) /\ task[t].pc \notin {"hello", "shutdown", "update"} /\ UNCHANGED <<pooled, overlapped>>
  BY DEF Prepared, PrepareFails, ActSucceeds, ActFails, Close, CloseReturns, Act, Active
<1>2. Withers
  <2>1. ASSUME NEW c \in {"execute_action", "inspect_state", "close"}, Ask(t, c) PROVE Withers
    BY <1>1, <2>1, AskWithers, InvParts, OwnParts DEF Ask, Commands, Active
  <2>2. UNCHANGED proc => Withers
    BY DEF Withers
  <2> QED BY <2>1, <2>2, AnswerWithers, FailWithers
          DEF Prepared, PrepareFails, ActSucceeds, ActFails, Close, CloseReturns, Act
<1>3. \E h \in Handler : /\ task' = [task EXCEPT ![t] = h] /\ h.proc = Mine(t)
                        /\ h.pc \notin {"idle", "hello", "shutdown", "update"}
  <2>1. task[t] \in Handler /\ task \in [Tasks -> Handler]
    BY OwnParts
  <2>2. ASSUME NEW pc \in {"open", "ended", "release", "acted"}, NEW healthy \in BOOLEAN
        PROVE  LET h == With(t, pc, healthy) IN
               h \in Handler /\ h.proc = Mine(t) /\ h.pc \notin {"idle", "hello", "shutdown", "update"}
    BY <2>1 DEF With, Handler, Mine
  <2>3. ASSUME NEW healthy \in BOOLEAN, NEW report \in {"closed", "unhealthy"}
        PROVE  LET h == [With(t, "release", healthy) EXCEPT !.report = report] IN
               h \in Handler /\ h.proc = Mine(t) /\ h.pc \notin {"idle", "hello", "shutdown", "update"}
    BY <2>1 DEF With, Handler, Mine
  <2>4. ASSUME NEW c \in {"execute_action", "inspect_state", "close"}, Ask(t, c)
        PROVE  LET h == [task[t] EXCEPT !.pc = c] IN
               /\ task' = [task EXCEPT ![t] = h]
               /\ h \in Handler /\ h.proc = Mine(t) /\ h.pc \notin {"idle", "hello", "shutdown", "update"}
    BY <2>1, <2>4 DEF Ask, Handler, Mine, Commands
  <2>5. task[t].healthy \in BOOLEAN
    BY <2>1 DEF Handler
  <2>6. CASE Prepared(t) \/ PrepareFails(t) \/ ActSucceeds(t) \/ ActFails(t)
    BY <2>2, <2>5, <2>6 DEF Prepared, PrepareFails, ActSucceeds, ActFails, Becomes
  <2>7. CASE Close(t) \/ CloseReturns(t)
    BY <2>2, <2>3, <2>4, <2>7 DEF Close, CloseReturns, Becomes
  <2>8. CASE \E c \in {"execute_action", "inspect_state"} : Act(t, c)
    BY <2>4, <2>8 DEF Act
  <2> QED BY <2>6, <2>7, <2>8
<1> QED BY <1>1, <1>2, <1>3, WorkBehind

LEMMA QuietKeepsBehind ==
  ASSUME PoolInv, BehindInv,
         \/ \E p \in Procs : Serve(p) \/ Crash(p)
         \/ \E t \in Tasks : GcDrop(t) \/ GcRecord(t)
         \/ UNCHANGED poolVars
  PROVE  BehindInv'
<1>1. UNCHANGED <<pooled, task, overlapped>>
  BY DEF Serve, Crash, GcDrop, GcRecord, poolVars
<1>2. UNCHANGED proc => Withers
  BY DEF Withers
<1>3. ASSUME NEW p \in Procs, Serve(p) PROVE Withers
  <2>1. \/ Kill(p)
        \/ \E ok \in BOOLEAN : proc' = Replied(proc, p, Head(proc[p].inbox)[1], Head(proc[p].inbox)[2], ok)
    BY <1>3 DEF Serve, Replied
  <2>2. \A t, c, ok : \A q \in Procs : Replied(proc, p, t, c, ok)[q].state = proc[q].state
    BY InvParts DEF Replied, ProcsOK, Process
  <2> QED BY <2>1, <2>2, KillWithers DEF Withers
<1> QED BY <1>1, <1>2, <1>3, KillWithers, QuietBehind DEF Crash, GcDrop, GcRecord, poolVars

LEMMA AcquireKeepsBehind == ASSUME PoolInv, BehindInv, NEW t \in Tasks, Acquire(t) PROVE BehindInv'
<1>1. task[t].pc = "idle" /\ UNCHANGED pooled /\ pooled \in Procs \cup {NoProc} /\ task \in [Tasks -> Handler]
  BY OwnParts DEF Acquire
<1>2. overlapped' = (overlapped \/ \E u \in Tasks : Active(u))
  BY DEF Acquire
<1>3. CASE Alive(pooled) /\ task' = [task EXCEPT ![t].pc = "prepare", ![t].proc = pooled]
           /\ proc' = Asked(proc, pooled, t, "prepare")
  <2>1. pooled \in Procs
    BY <1>1, <1>3 DEF Alive
  <2>2. ProcsOK(proc')  /\ \A q \in Procs : proc'[q].state = proc[q].state
    <3>1. proc' = Asked(proc, pooled, t, "prepare") /\ "prepare" \in Commands
      BY <1>3 DEF Commands
    <3> QED BY <2>1, <3>1, Asking, InvParts
  <2>3. /\ task'[t].pc = "prepare" /\ task'[t].proc = pooled
        /\ \A u \in Tasks \ {t} : task'[u] = task[u]
    BY <1>1, <1>3 DEF Handler
  <2>4. pooled' # NoProc => proc'[pooled'].state # "unborn"
    BY <1>1, <2>1, <2>2 DEF BehindInv
  <2>5. ASSUME ~overlapped' PROVE (Alone /\ Kept /\ \A u \in Tasks : Held(u))'
    <3>1. Kept /\ \A u \in Tasks : ~Active(u)
      BY <1>2, <2>5 DEF BehindInv
    <3>2. Alone' /\ Kept'
      BY <1>1, <2>2, <2>3, <3>1 DEF Alone, Kept, Active, Mine
    <3>3. \A u \in Tasks : Held(u)'
      BY <1>1, <2>3, <3>1 DEF Held, Active, Mine
    <3> QED BY <3>2, <3>3
  <2> QED BY <2>4, <2>5 DEF BehindInv
<1>4. ASSUME ~Alive(pooled), NEW p \in Procs, proc[p].state = "unborn",
             task' = [task EXCEPT ![t].pc = "hello", ![t].proc = p],
             proc' = Asked([proc EXCEPT ![p].state = "up"], p, t, "hello")
      PROVE  BehindInv'
  <2> DEFINE P == [proc EXCEPT ![p].state = "up"]
  <2>1. ProcsOK(P) /\ P[p].state = "up" /\ \A q \in Procs : q # p => P[q] = proc[q]
    BY InvParts DEF ProcsOK, Process
  <2>2. proc'[p].state = "up" /\ \A q \in Procs : q # p => proc'[q].state = proc[q].state
    <3> HIDE DEF P
    <3>1. proc' = Asked(P, p, t, "hello") /\ "hello" \in Commands
      BY <1>4 DEF P, Commands
    <3> QED BY <2>1, <3>1, Asking
  <2>3. /\ task'[t].pc = "hello" /\ task'[t].proc = p
        /\ \A u \in Tasks \ {t} : task'[u] = task[u]
    BY <1>1, <1>4 DEF Handler
  <2>4. pooled # p
    BY <1>4, PoolAssumption DEF BehindInv
  <2>5. pooled' # NoProc => proc'[pooled'].state # "unborn"
    BY <1>1, <2>2, <2>4 DEF BehindInv
  <2>6. ASSUME ~overlapped' PROVE (Alone /\ Kept /\ \A u \in Tasks : Held(u))'
    <3>1. Kept /\ \A u \in Tasks : ~Active(u)
      BY <1>2, <2>6 DEF BehindInv
    <3>2. ~Alive(pooled)'
      BY <1>1, <1>4, <2>2, <2>4 DEF Alive
    <3>3. Alone' /\ Kept'
      BY <1>1, <2>2, <2>3, <3>1 DEF Alone, Kept, Active, Mine
    <3>4. \A u \in Tasks : Held(u)'
      BY <1>1, <2>3, <3>1, <3>2 DEF Held, Active, Mine
    <3> QED BY <3>3, <3>4
  <2> QED BY <2>5, <2>6 DEF BehindInv
<1> QED BY <1>3, <1>4 DEF Acquire

(* The only active task writes the pool or ends. *)
LEMMA LastBehind ==
  ASSUME PoolInv, BehindInv, Withers, NEW t \in Tasks, Active(t), NEW h \in Handler, task' = [task EXCEPT ![t] = h],
         h.proc = Mine(t), UNCHANGED overlapped,
         pooled' # NoProc => pooled' \in Procs /\ proc'[pooled'].state # "unborn",
         h.pc \notin {"idle", "hello"},
         h.pc \in {"shutdown", "update", "ended"} \/ pooled' = Mine(t),
         ~overlapped => \A p \in Procs : proc'[p].state = "up" => p = pooled' \/ (h.pc = "shutdown" /\ p = Mine(t))
  PROVE  BehindInv'
<1>1. task'[t] = h /\ (\A u \in Tasks \ {t} : task'[u] = task[u]) /\ Mine(t) \in Procs
  BY OwnParts DEF Active
<1>2. ASSUME ~overlapped PROVE (Alone /\ Kept /\ \A u \in Tasks : Held(u))'
  <2>1. Alone /\ \A u \in Tasks : Held(u)
    BY <1>2 DEF BehindInv
  <2>2. \A u \in Tasks \ {t} : ~Active(u)
    BY <2>1 DEF Alone
  <2>3. Alone' /\ Kept'
    BY <1>1, <1>2, <2>2 DEF Alone, Kept, Active, Mine
  <2>4. Held(t)'
    <3>1. task'[t].proc = Mine(t) /\ task'[t].pc = h.pc
      BY <1>1
    <3>2. h.pc = "update" /\ proc'[Mine(t)].state = "up" => Mine(t) = pooled'
      BY <1>1, <1>2
    <3>3. Alive(Mine(t))' => proc'[Mine(t)].state = "up"
      BY <3>1 DEF Alive, Mine
    <3> QED BY <3>1, <3>2, <3>3 DEF Held, Mine, Active
  <2>5. \A u \in Tasks \ {t} : Held(u)'
    BY <1>1, <2>2 DEF Held, Active, Mine
  <2> QED BY <2>3, <2>4, <2>5
<1> QED BY <1>2 DEF BehindInv

LEMMA StartKeepsBehind == ASSUME PoolInv, BehindInv, NEW t \in Tasks, Started(t) \/ StartFails(t) PROVE BehindInv'
<1>1. task[t].pc = "hello" /\ Active(t) /\ UNCHANGED overlapped /\ Mine(t) \in Procs /\ task \in [Tasks -> Handler]
  BY OwnParts DEF Started, StartFails, Active
<1>2. ASSUME ~overlapped, NEW p \in Procs, proc[p].state = "up" PROVE p = Mine(t)
  <2>1. Kept /\ Alone /\ ~Alive(pooled)
    BY <1>1, <1>2 DEF BehindInv, Held
  <2>2. p # pooled
    BY <1>2, <2>1, PoolAssumption DEF Alive
  <2> QED BY <1>1, <1>2, <2>1, <2>2 DEF Kept, Alone
<1>3. CASE Started(t)
  <2> DEFINE P == [proc EXCEPT ![Mine(t)].outbox = <<>>, ![Mine(t)].reader = NoTask]
             h == [task[t] EXCEPT !.pc = "prepare"]
  <2>1. /\ pooled' = Mine(t) /\ task' = [task EXCEPT ![t].pc = "prepare"] /\ proc' = Asked(P, Mine(t), t, "prepare")
        /\ proc[Mine(t)].state = "up"
    BY <1>3 DEF Started, Reads, Alive
  <2>2. ProcsOK(P) /\ \A q \in Procs : P[q].state = proc[q].state
    BY <1>1, Greeting
  <2> HIDE DEF P
  <2>3. Withers /\ \A q \in Procs : proc'[q].state = proc[q].state
    <3>1. "prepare" \in Commands
      BY DEF Commands
    <3> QED BY <1>1, <2>1, <2>2, <3>1, Asking, AskWithers
  <2>4. h \in Handler /\ h.proc = Mine(t) /\ h.pc = "prepare" /\ task' = [task EXCEPT ![t] = h]
    BY <1>1, <2>1 DEF Handler, Commands, Mine
  <2> HIDE DEF h
  <2>5. ~overlapped => \A p \in Procs : proc'[p].state = "up" => p = pooled'
    BY <1>2, <2>1, <2>3
  <2>6. pooled' # NoProc => pooled' \in Procs /\ proc'[pooled'].state # "unborn"
    BY <1>1, <2>1, <2>3
  <2>7. h.pc \notin {"idle", "hello"} /\ pooled' = Mine(t)
    BY <2>1, <2>4
  <2> QED BY <1>1, <2>3, <2>4, <2>5, <2>6, <2>7, LastBehind
<1>4. CASE StartFails(t)
  <2> DEFINE h == With(t, "ended", FALSE)
  <2>1. Discarded(t) /\ task' = [task EXCEPT ![t] = h] /\ UNCHANGED pooled
    BY <1>4 DEF StartFails, Becomes
  <2>2. h \in Handler /\ h.proc = Mine(t) /\ h.pc = "ended"
    BY <1>1 DEF Handler, With, Mine
  <2> HIDE DEF h
  <2>3. Withers
    BY <2>1, FailWithers
  <2>4. proc'[Mine(t)].state # "up"
    BY <1>1, <2>1, KillSettles, PoolAssumption DEF Discarded, Alive
  <2>5. ~overlapped => \A p \in Procs : proc'[p].state # "up"
    BY <1>2, <2>3, <2>4 DEF Withers
  <2>6. pooled' # NoProc => pooled' \in Procs /\ proc'[pooled'].state # "unborn"
    BY <2>1, <2>3, OwnParts DEF BehindInv, Withers
  <2> QED BY <1>1, <2>1, <2>2, <2>3, <2>5, <2>6, LastBehind
<1> QED BY <1>3, <1>4

LEMMA EndKeepsBehind ==
  ASSUME PoolInv, BehindInv, NEW t \in Tasks, Release(t) \/ StopEnds(t) \/ UpdateOwnership(t) PROVE BehindInv'
<1>1. /\ task[t].pc \in {"release", "shutdown", "update"} /\ Active(t) /\ UNCHANGED overlapped
      /\ Mine(t) \in Procs /\ task \in [Tasks -> Handler]
  BY OwnParts DEF Release, StopEnds, UpdateOwnership, Active
<1>2. ASSUME ~overlapped, NEW p \in Procs, proc[p].state = "up" PROVE p = pooled \/ p = Mine(t)
  BY <1>1, <1>2 DEF BehindInv, Kept, Alone
<1>3. AfterRelease(t) \in {"update", "ended"}
  BY DEF AfterRelease
<1>4. ASSUME NEW pc \in {"shutdown", "update", "ended"}, task' = [task EXCEPT ![t].pc = pc]
      PROVE  \E h \in Handler : task' = [task EXCEPT ![t] = h] /\ h.proc = Mine(t) /\ h.pc = pc
  <2> DEFINE h == [task[t] EXCEPT !.pc = pc]
  <2>1. h \in Handler /\ h.proc = Mine(t) /\ h.pc = pc /\ task' = [task EXCEPT ![t] = h]
    BY <1>1, <1>4 DEF Handler, Commands, Mine
  <2> QED BY <2>1
<1>5. pooled # NoProc => pooled \in Procs /\ proc[pooled].state # "unborn"
  BY OwnParts DEF BehindInv
<1>6. CASE Release(t)
  <2> DEFINE p == Mine(t)
             P == [proc EXCEPT ![p].episodes = @ + 1]
             discard == ~task[t].healthy \/ ~Alive(p) \/ proc[p].episodes + 1 >= RecycleAfter
             pc == IF discard /\ Alive(p) THEN "shutdown" ELSE AfterRelease(t)
  <2>1. /\ pooled' = IF discard THEN NoProc ELSE pooled
        /\ proc' = IF discard THEN Asked(P, p, t, "shutdown") ELSE P
        /\ task' = [task EXCEPT ![t].pc = pc] /\ task[t].pc = "release"
    BY <1>6 DEF Release
  <2>2. ProcsOK(P) /\ \A q \in Procs : P[q].state = proc[q].state
    BY <1>1, Counting
  <2>3. /\ pc \in {"shutdown", "update", "ended"} /\ (discard /\ proc[p].state = "up" => pc = "shutdown")
    BY <1>1, <1>3, PoolAssumption DEF Alive
  <2> HIDE DEF P, discard, pc
  <2>4. Withers /\ \A q \in Procs : proc'[q].state = proc[q].state
    <3>1. "shutdown" \in Commands
      BY DEF Commands
    <3>2. CASE discard
      BY <1>1, <2>1, <2>2, <3>1, <3>2, Asking, AskWithers
    <3>3. CASE ~discard
      BY <2>1, <2>2, <3>3 DEF Withers
    <3> QED BY <3>2, <3>3
  <2>5. ~overlapped => Mine(t) = pooled
    BY <1>1, <2>1 DEF BehindInv, Held
  <2>6. ~overlapped => \A q \in Procs : proc'[q].state = "up" => q = pooled' \/ (pc = "shutdown" /\ q = Mine(t))
    BY <1>2, <2>1, <2>3, <2>4, <2>5
  <2>7. pooled' # NoProc => pooled' \in Procs /\ proc'[pooled'].state # "unborn"
    BY <1>5, <2>1, <2>4
  <2>8. PICK h \in Handler : task' = [task EXCEPT ![t] = h] /\ h.proc = Mine(t) /\ h.pc = pc
    BY <1>4, <2>1, <2>3
  <2> QED BY <1>1, <2>3, <2>4, <2>6, <2>7, <2>8, LastBehind
<1>7. CASE StopEnds(t)
  <2>1. Kill(Mine(t)) /\ UNCHANGED pooled /\ task' = [task EXCEPT ![t].pc = AfterRelease(t)]
    BY <1>7 DEF StopEnds
  <2>2. Withers /\ proc'[Mine(t)].state = "dead"
    BY <1>1, <2>1, KillWithers, KillSettles
  <2>3. ~overlapped => \A q \in Procs : proc'[q].state = "up" => q = pooled'
    BY <1>2, <2>1, <2>2 DEF Withers
  <2>4. pooled' # NoProc => pooled' \in Procs /\ proc'[pooled'].state # "unborn"
    BY <1>5, <2>1, <2>2 DEF Withers
  <2>5. PICK h \in Handler : task' = [task EXCEPT ![t] = h] /\ h.proc = Mine(t) /\ h.pc = AfterRelease(t)
    BY <1>3, <1>4, <2>1
  <2> QED BY <1>1, <1>3, <2>2, <2>3, <2>4, <2>5, LastBehind
<1>8. CASE UpdateOwnership(t)
  <2>1. task[t].pc = "update" /\ UNCHANGED <<proc, pooled>> /\ task' = [task EXCEPT ![t].pc = "ended"]
    BY <1>8 DEF UpdateOwnership
  <2>2. Withers
    BY <2>1 DEF Withers
  <2>3. ~overlapped /\ Alive(Mine(t)) => Mine(t) = pooled
    BY <2>1 DEF BehindInv, Held
  <2>4. ~overlapped => \A q \in Procs : proc'[q].state = "up" => q = pooled'
    BY <1>1, <1>2, <2>1, <2>3, PoolAssumption DEF Alive
  <2>5. PICK h \in Handler : task' = [task EXCEPT ![t] = h] /\ h.proc = Mine(t) /\ h.pc = "ended"
    BY <1>4, <2>1
  <2>6. pooled' # NoProc => pooled' \in Procs /\ proc'[pooled'].state # "unborn"
    BY <1>5, <2>1
  <2> QED BY <1>1, <2>2, <2>4, <2>5, <2>6, LastBehind
<1> QED BY <1>6, <1>7, <1>8

LEMMA InitBehind == PoolInit => BehindInv
  BY DEF PoolInit, BehindInv, Alone, Kept, Held, Active, Alive

LEMMA NextBehind == ASSUME PoolInv, BehindInv, PoolNext \/ UNCHANGED poolVars PROVE BehindInv'
<1>1. ASSUME NEW t \in Tasks, Client(t) PROVE BehindInv'
  BY <1>1, StartKeepsBehind, WorkKeepsBehind, EndKeepsBehind DEF Client
<1>2. ASSUME NEW t \in Tasks, Acquire(t) PROVE BehindInv'
  BY <1>2, AcquireKeepsBehind
<1> QED BY <1>1, <1>2, QuietKeepsBehind DEF PoolNext

(* "One bridge process per (candidate configuration, backend)" (BridgePool): however  *)
(* starts, requests, closes and recycling fail, a process that runs is in the pool or *)
(* in the hands of a task, as long as no two tasks overlapped.                        *)
THEOREM NoneLeftBehind == PoolSpec => []NoBridgeLeftBehind
<1>1. PoolInv /\ BehindInv => NoBridgeLeftBehind
  BY DEF NoBridgeLeftBehind, BehindInv, Kept, Alive
<1> QED BY <1>1, PoolHolds, InitBehind, NextBehind, PTL DEF PoolSpec

(***************************************************************************)
(* What holds of a log.                                                    *)
(***************************************************************************)
Corrects(l, e, d) == l[e].memory # NoFact /\ l[e].memory[1] = d
Corrected(l, d) == \E e \in DOMAIN l : Corrects(l, e, d)

(* The state of a document's fact, read off the log. *)
StateOf(l, d) == IF Corrected(l, d) THEN "wrong" ELSE IF l[d].retractedBy # 0 THEN "withdrawn" ELSE "valid"
FactsOf(l) == [d \in Derivable(l) |-> StateOf(l, d)]

LogTyped(l, last) == l \in [DOMAIN l -> Event] /\ DOMAIN l \subseteq 1 .. last
(* A retraction and the message it takes back name each other, and an event acts on earlier ones. *)
Retractions(l) ==
  /\ \A e \in DOMAIN l : l[e].retracts # 0 => l[e].kind = "retraction" /\ l[e].retracts < e
  /\ \A t \in DOMAIN l : l[t].retractedBy # 0 => l[t].retractedBy \in DOMAIN l
  /\ \A e, t \in DOMAIN l : l[e].retracts = t <=> l[t].retractedBy = e
  /\ \A e, t \in DOMAIN l : l[e].retracts = t => t \in Derivable(l) /\ l[t].kind = "message"
(* A fact is corrected once, before the message it is of is taken back. *)
Corrections(l) ==
  /\ \A e \in DOMAIN l : l[e].memory # NoFact => l[e].kind = "governance" /\ 0 < l[e].memory[1] /\ l[e].memory[1] < e
  /\ \A e, c, d \in DOMAIN l : Corrects(l, e, d) /\ Corrects(l, c, d) => e = c
  /\ \A e, d \in DOMAIN l : Corrects(l, e, d) => d \in Derivable(l)
  /\ \A e, d, r \in DOMAIN l : Corrects(l, e, d) /\ l[r].retracts = d => e < r
(* A retraction keeps the fact it withdrew, if there was one to withdraw. *)
Withdrawals(l, gen) ==
  /\ \A e \in DOMAIN l : l[e].withdrawn \in {{}, {<<l[e].retracts, gen>>}}
  /\ \A e \in DOMAIN l : l[e].retracts = 0 => l[e].withdrawn = {}
  /\ \A e, t \in DOMAIN l : l[e].retracts = t => (l[e].withdrawn = {} <=> Corrected(l, t))

LogOrder(l, last, gen) == LogTyped(l, last) /\ Retractions(l) /\ Corrections(l) /\ Withdrawals(l, gen)

MemoryInv ==
  /\ lastId \in 0 .. MaxEvents /\ builds \in 0 .. MaxRebuilds
  /\ LogOrder(log, lastId, builds)
  /\ facts = FactsOf(log)

LEMMA EventFields ==
  ASSUME NEW v \in Event
  PROVE  /\ v.kind \in {"message", "retraction", "assertion", "governance"}
         /\ v.actor \in {"user", "assistant", "system"}
         /\ v.status \in {"none", "candidate", "approved", "rejected"}
         /\ v.skipped \in BOOLEAN /\ v.retracts \in 0 .. MaxEvents /\ v.retractedBy \in 0 .. MaxEvents
         /\ v.withdrawn \in SUBSET ((0 .. MaxEvents) \X (0 .. MaxRebuilds))
         /\ v.memory \in (0 .. MaxEvents) \X (0 .. MaxRebuilds)
  BY DEF Event

LEMMA PlainEvent ==
  ASSUME NEW k \in {"message", "retraction", "assertion", "governance"},
         NEW a \in {"user", "assistant", "system"}
  PROVE  /\ Plain(k, a) \in Event
         /\ Plain(k, a).kind = k /\ Plain(k, a).retracts = 0 /\ Plain(k, a).retractedBy = 0
         /\ Plain(k, a).withdrawn = {} /\ Plain(k, a).memory = NoFact /\ Plain(k, a).status = "none"
         /\ Plain(k, a).skipped = FALSE
<1>1. 0 \in 0 .. MaxEvents /\ 0 \in 0 .. MaxRebuilds
  BY StoreAssumption
<1>2. NoFact \in (0 .. MaxEvents) \X (0 .. MaxRebuilds)
  BY <1>1 DEF NoFact
<1> QED BY <1>1, <1>2 DEF Plain, Event

(* One event more, which acts on no other. *)
Unmoved(v, w) == /\ v.kind = w.kind /\ v.retracts = w.retracts /\ v.retractedBy = w.retractedBy
                 /\ v.memory = w.memory /\ v.withdrawn = w.withdrawn

LEMMA OrderGrows ==
  ASSUME NEW l, NEW last \in Nat, NEW gen, LogOrder(l, last, gen), NEW m, NEW n, n = last + 1,
         DOMAIN m = DOMAIN l \cup {n}, m \in [DOMAIN m -> Event], \A e \in DOMAIN l : Unmoved(m[e], l[e]),
         Derivable(l) \subseteq Derivable(m), m[n].retracts = 0, m[n].retractedBy = 0,
         m[n].withdrawn = {}, m[n].memory = NoFact
  PROVE  /\ LogOrder(m, n, gen)
         /\ \A d \in Derivable(l) : StateOf(m, d) = StateOf(l, d)
         /\ \A d \in Derivable(m) \ Derivable(l) : StateOf(m, d) = "valid"
<1> DEFINE D == DOMAIN l
<1>0. /\ DOMAIN m = D \cup {n} /\ D \subseteq 1 .. last /\ n \notin D /\ D \subseteq Nat /\ 0 \notin D /\ n \in Nat /\ n # 0
      /\ Derivable(l) \subseteq D /\ Derivable(m) \subseteq D \cup {n}
  BY DEF LogOrder, LogTyped, Derivable
<1>1. LogTyped(m, n)
  BY <1>0 DEF LogTyped
<1>2. \A e \in D : /\ m[e].kind = l[e].kind /\ m[e].retracts = l[e].retracts /\ m[e].retractedBy = l[e].retractedBy
                   /\ m[e].memory = l[e].memory /\ m[e].withdrawn = l[e].withdrawn
  BY DEF Unmoved
<1>3. \A e \in D : \A d : Corrects(m, e, d) <=> Corrects(l, e, d)
  BY <1>2 DEF Corrects
<1>4. \A d : ~Corrects(m, n, d)
  BY DEF Corrects
<1>5. \A d : Corrected(m, d) <=> Corrected(l, d)
  BY <1>0, <1>3, <1>4 DEF Corrected
<1>6. ASSUME NEW e \in D PROVE l[e].retracts < n /\ l[e].retracts # n
  <2>1. l[e].retracts \in Nat
    BY EventFields DEF LogOrder, LogTyped
  <2>2. l[e].retracts = 0 \/ l[e].retracts < e
    BY DEF LogOrder, Retractions
  <2> QED BY <1>0, <2>1, <2>2
<1>7. \A e \in D : ~Corrects(l, e, n)
  BY <1>0 DEF LogOrder, Corrections, Corrects
<1>8. \A e \in D : l[e].retractedBy # n
  BY <1>0 DEF LogOrder, Retractions
<1> HIDE DEF D
<1>10. Retractions(m)
  <2>1. \A e \in DOMAIN m : m[e].retracts # 0 => m[e].kind = "retraction" /\ m[e].retracts < e
    BY <1>0, <1>2 DEF LogOrder, Retractions, D
  <2>2. \A t \in DOMAIN m : m[t].retractedBy # 0 => m[t].retractedBy \in DOMAIN m
    BY <1>0, <1>2 DEF LogOrder, Retractions, D
  <2>3. \A e, t \in DOMAIN m : m[e].retracts = t <=> m[t].retractedBy = e
    <3> SUFFICES ASSUME NEW e \in DOMAIN m, NEW t \in DOMAIN m PROVE m[e].retracts = t <=> m[t].retractedBy = e
      OBVIOUS
    <3>1. CASE e \in D /\ t \in D
      BY <1>2, <3>1 DEF LogOrder, Retractions, D
    <3>2. CASE e = n
      <4>1. m[e].retracts # t
        BY <1>0, <3>2
      <4>2. m[t].retractedBy # e
        <5>1. CASE t \in D
          BY <1>2, <1>8, <3>2, <5>1
        <5>2. CASE t = n
          BY <1>0, <3>2, <5>2
        <5> QED BY <1>0, <5>1, <5>2
      <4> QED BY <4>1, <4>2
    <3>3. CASE t = n
      BY <1>0, <1>2, <1>6, <3>3
    <3> QED BY <1>0, <3>1, <3>2, <3>3
  <2>4. \A e, t \in DOMAIN m : m[e].retracts = t => t \in Derivable(m) /\ m[t].kind = "message"
    BY <1>0, <1>2, <1>6 DEF LogOrder, Retractions, D
  <2> QED BY <2>1, <2>2, <2>3, <2>4 DEF Retractions
<1>11. Corrections(m)
  <2>1. \A e \in DOMAIN m : m[e].memory # NoFact => m[e].kind = "governance" /\ 0 < m[e].memory[1] /\ m[e].memory[1] < e
    BY <1>0, <1>2 DEF LogOrder, Corrections, D
  <2>2. \A e, d \in DOMAIN m : Corrects(m, e, d) => e \in D /\ d \in D /\ Corrects(l, e, d)
    BY <1>0, <1>3, <1>4, <1>7
  <2>3. \A e, c, d \in DOMAIN m : Corrects(m, e, d) /\ Corrects(m, c, d) => e = c
    BY <2>2 DEF LogOrder, Corrections, D
  <2>4. \A e, d \in DOMAIN m : Corrects(m, e, d) => d \in Derivable(m)
    BY <2>2 DEF LogOrder, Corrections, D
  <2>5. \A e, d, r \in DOMAIN m : Corrects(m, e, d) /\ m[r].retracts = d => e < r
    BY <1>0, <1>2, <2>2 DEF LogOrder, Corrections, D
  <2> QED BY <2>1, <2>3, <2>4, <2>5 DEF Corrections
<1>12. Withdrawals(m, gen)
  <2>1. \A e \in DOMAIN m : m[e].withdrawn \in {{}, {<<m[e].retracts, gen>>}}
    BY <1>0, <1>2 DEF LogOrder, Withdrawals, D
  <2>2. \A e \in DOMAIN m : m[e].retracts = 0 => m[e].withdrawn = {}
    BY <1>0, <1>2 DEF LogOrder, Withdrawals, D
  <2>3. \A e, t \in DOMAIN m : m[e].retracts = t => (m[e].withdrawn = {} <=> Corrected(m, t))
    BY <1>0, <1>2, <1>5, <1>6 DEF LogOrder, Withdrawals, D
  <2> QED BY <2>1, <2>2, <2>3 DEF Withdrawals
<1>13. LogOrder(m, n, gen)
  BY <1>1, <1>10, <1>11, <1>12 DEF LogOrder
<1>14. \A d \in Derivable(l) : StateOf(m, d) = StateOf(l, d)
  BY <1>0, <1>2, <1>5 DEF StateOf
<1>15. ASSUME NEW d \in Derivable(m) \ Derivable(l) PROVE StateOf(m, d) = "valid"
  <2>1. ~Corrected(l, d)
    <3>1. CASE d = n
      BY <1>7, <3>1 DEF Corrected, D
    <3>2. CASE d \in D
      BY <3>2 DEF Corrected, LogOrder, Corrections, D
    <3> QED BY <1>0, <3>1, <3>2
  <2>2. m[d].retractedBy = 0
    <3>1. CASE d = n
      BY <3>1
    <3>2. CASE d \in D
      BY <1>2, <3>2 DEF LogOrder, Retractions, D
    <3> QED BY <1>0, <3>1, <3>2
  <2> QED BY <1>5, <2>1, <2>2 DEF StateOf
<1> QED BY <1>13, <1>14, <1>15

(* An event that has a fact. *)
Derives(v) == \/ v.kind = "message" /\ ~v.skipped
              \/ v.kind = "assertion" /\ v.status = "approved"

LEMMA DerivableIs == \A l : Derivable(l) = {e \in DOMAIN l : Derives(l[e])}
  BY DEF Derivable, Derives

LEMMA AddedIs ==
  ASSUME NEW f, NEW x, NEW v
  PROVE  /\ DOMAIN Added(f, x, v) = DOMAIN f \cup {x}
         /\ \A d \in DOMAIN f : Added(f, x, v)[d] = f[d]
         /\ x \notin DOMAIN f => Added(f, x, v)[x] = v
         /\ \A S : (\A d \in DOMAIN f : f[d] \in S) /\ v \in S => Added(f, x, v) \in [DOMAIN f \cup {x} -> S]
  BY DEF Added

(* l and one event more: the facts are those there were, and those the event adds are valid. *)
LEMMA FactsGrow ==
  ASSUME NEW l, NEW last \in Nat, NEW gen, LogOrder(l, last, gen), NEW m,
         m \in [DOMAIN l -> Event], \A e \in DOMAIN l : Unmoved(m[e], l[e]), Derivable(l) \subseteq Derivable(m),
         NEW v \in Event, v.retracts = 0, v.retractedBy = 0, v.withdrawn = {}, v.memory = NoFact
  PROVE  LET k == Added(m, last + 1, v) IN
         /\ LogOrder(k, last + 1, gen)
         /\ Derivable(k) = Derivable(m) \cup (IF Derives(v) THEN {last + 1} ELSE {})
         /\ FactsOf(k) = [d \in Derivable(k) |-> IF d \in Derivable(l) THEN FactsOf(l)[d] ELSE "valid"]
<1> DEFINE n == last + 1
           k == Added(m, n, v)
<1>1. n \notin DOMAIN l /\ DOMAIN m = DOMAIN l /\ \A e \in DOMAIN m : m[e] \in Event
  BY DEF LogOrder, LogTyped
<1> HIDE DEF n
<1>2. DOMAIN k = DOMAIN l \cup {n} /\ (\A e \in DOMAIN l : k[e] = m[e]) /\ k[n] = v
  BY <1>1 DEF Added
<1>3. k \in [DOMAIN l \cup {n} -> Event]
  BY <1>1, AddedIs
<1> HIDE DEF k
<1>4. Derivable(k) = Derivable(m) \cup (IF Derives(v) THEN {n} ELSE {})
  <2>1. CASE Derives(v)
    BY <1>1, <1>2, <2>1, DerivableIs
  <2>2. CASE ~Derives(v)
    BY <1>1, <1>2, <2>2, DerivableIs
  <2> QED BY <2>1, <2>2
<1>5. /\ LogOrder(k, n, gen)
      /\ \A d \in Derivable(l) : StateOf(k, d) = StateOf(l, d)
      /\ \A d \in Derivable(k) \ Derivable(l) : StateOf(k, d) = "valid"
  <2>1. \A e \in DOMAIN l : Unmoved(k[e], l[e])
    BY <1>2
  <2>2. Derivable(l) \subseteq Derivable(k)
    BY <1>4
  <2>3. k[n].retracts = 0 /\ k[n].retractedBy = 0 /\ k[n].withdrawn = {} /\ k[n].memory = NoFact
    BY <1>2
  <2>4. n = last + 1 /\ DOMAIN k = DOMAIN l \cup {n} /\ k \in [DOMAIN k -> Event]
    BY <1>2, <1>3 DEF n
  <2> QED BY <2>1, <2>2, <2>3, <2>4, OrderGrows
<1>6. FactsOf(k) = [d \in Derivable(k) |-> IF d \in Derivable(l) THEN FactsOf(l)[d] ELSE "valid"]
  BY <1>5 DEF FactsOf
<1> QED BY <1>4, <1>5, <1>6 DEF k, n

LEMMA UnmovedSame == \A v : Unmoved(v, v)
  BY DEF Unmoved

LEMMA RememberKeeps ==
  ASSUME MemoryInv, NEW actor \in {"user", "assistant"}, NEW text \in {"lasting", "filler", "retraction"},
         Remember(actor, text)
  PROVE  MemoryInv'
<1> DEFINE v == [Plain("message", actor) EXCEPT !.skipped = Verdict(text) = "skipped"]
           n == lastId + 1
<1>1. /\ lastId \in Nat /\ n \in 0 .. MaxEvents /\ lastId' = n /\ builds' = builds /\ log' = Added(log, n, v)
      /\ facts' = IF Verdict(text) = "skipped" THEN facts ELSE Added(facts, n, "valid")
      /\ LogOrder(log, lastId, builds) /\ facts = FactsOf(log) /\ builds \in 0 .. MaxRebuilds
  BY StoreAssumption DEF MemoryInv, Remember, Done, NextId, InsertedId
<1>2. /\ v \in Event /\ v.retracts = 0 /\ v.retractedBy = 0 /\ v.withdrawn = {} /\ v.memory = NoFact
      /\ v.kind = "message" /\ v.skipped = (Verdict(text) = "skipped")
  <2>1. Plain("message", actor) \in Event
    BY PlainEvent
  <2>2. (Verdict(text) = "skipped") \in BOOLEAN
    OBVIOUS
  <2> DEFINE skip == Verdict(text) = "skipped"
             w == Plain("message", actor)
  <2>3. w \in Event /\ w.kind = "message" /\ w.retracts = 0 /\ w.retractedBy = 0 /\ w.withdrawn = {} /\ w.memory = NoFact
    BY PlainEvent
  <2>4. v = [w EXCEPT !.skipped = skip]
    OBVIOUS
  <2> HIDE DEF v, w, skip
  <2>5. v \in Event /\ v.retracts = w.retracts /\ v.retractedBy = w.retractedBy /\ v.withdrawn = w.withdrawn
        /\ v.memory = w.memory /\ v.kind = w.kind /\ v.skipped = skip
    BY <2>2, <2>3, <2>4 DEF Event, skip
  <2> QED BY <2>3, <2>5 DEF skip
<1> HIDE DEF v
<1>3. log \in [DOMAIN log -> Event] /\ n \notin DOMAIN log /\ Derivable(log) \subseteq DOMAIN log
  BY <1>1 DEF LogOrder, LogTyped, Derivable
<1>4. /\ LogOrder(log', n, builds)
      /\ Derivable(log') = Derivable(log) \cup (IF Derives(v) THEN {n} ELSE {})
      /\ FactsOf(log') = [d \in Derivable(log') |-> IF d \in Derivable(log) THEN FactsOf(log)[d] ELSE "valid"]
  BY <1>1, <1>2, <1>3, UnmovedSame, FactsGrow
<1>5. facts' = FactsOf(log')
  <2> HIDE DEF n
  <2>0. DOMAIN facts = Derivable(log) /\ facts = [d \in Derivable(log) |-> facts[d]]
    BY <1>1 DEF FactsOf
  <2>1. CASE Verdict(text) = "skipped"
    BY <1>1, <1>2, <1>4, <2>0, <2>1 DEF Derives
  <2>2. CASE Verdict(text) # "skipped"
    <3>1. Derivable(log') = Derivable(log) \cup {n}
      BY <1>2, <1>4, <2>2 DEF Derives
    <3> QED BY <1>1, <1>4, <2>0, <2>2, <3>1 DEF Added
  <2> QED BY <2>1, <2>2
<1>6. (LogOrder(log, lastId, builds))' /\ (facts = FactsOf(log))'
  BY <1>1, <1>4, <1>5
<1> QED BY <1>1, <1>6 DEF MemoryInv

LEMMA AssertKeeps ==
  ASSUME MemoryInv, NEW status \in {"candidate", "approved"}, AssertFact(status)
  PROVE  MemoryInv'
<1> DEFINE v == [Plain("assertion", "user") EXCEPT !.status = status]
           n == lastId + 1
<1>1. /\ lastId \in Nat /\ n \in 0 .. MaxEvents /\ lastId' = n /\ builds' = builds /\ log' = Added(log, n, v)
      /\ facts' = IF status = "approved" THEN Added(facts, n, "valid") ELSE facts
      /\ LogOrder(log, lastId, builds) /\ facts = FactsOf(log) /\ builds \in 0 .. MaxRebuilds
  BY StoreAssumption DEF MemoryInv, AssertFact, Done, NextId, InsertedId
<1>2. /\ v \in Event /\ v.retracts = 0 /\ v.retractedBy = 0 /\ v.withdrawn = {} /\ v.memory = NoFact
      /\ v.kind = "assertion" /\ v.status = status
  <2>1. Plain("assertion", "user") \in Event
    BY PlainEvent
  <2> QED BY <2>1, PlainEvent DEF Event
<1> HIDE DEF v
<1>3. log \in [DOMAIN log -> Event] /\ n \notin DOMAIN log /\ Derivable(log) \subseteq DOMAIN log
  BY <1>1 DEF LogOrder, LogTyped, Derivable
<1>4. /\ LogOrder(log', n, builds)
      /\ Derivable(log') = Derivable(log) \cup (IF Derives(v) THEN {n} ELSE {})
      /\ FactsOf(log') = [d \in Derivable(log') |-> IF d \in Derivable(log) THEN FactsOf(log)[d] ELSE "valid"]
  BY <1>1, <1>2, <1>3, UnmovedSame, FactsGrow
<1>5. facts' = FactsOf(log')
  <2> HIDE DEF n
  <2>0. DOMAIN facts = Derivable(log) /\ facts = [d \in Derivable(log) |-> facts[d]]
    BY <1>1 DEF FactsOf
  <2>1. CASE status # "approved"
    BY <1>1, <1>2, <1>4, <2>0, <2>1 DEF Derives
  <2>2. CASE status = "approved"
    <3>1. Derivable(log') = Derivable(log) \cup {n}
      BY <1>2, <1>4, <2>2 DEF Derives
    <3> QED BY <1>1, <1>4, <2>0, <2>2, <3>1 DEF Added
  <2> QED BY <2>1, <2>2
<1>6. (LogOrder(log, lastId, builds))' /\ (facts = FactsOf(log))'
  BY <1>1, <1>4, <1>5
<1> QED BY <1>1, <1>6 DEF MemoryInv

(* A candidate that is approved or rejected, and the event that tells of it. *)
LEMMA ReviewKeeps ==
  ASSUME MemoryInv, NEW e \in DOMAIN log, Approve(e) \/ Reject(e)
  PROVE  MemoryInv'
<1> DEFINE v == Plain("governance", "user")
           n == lastId + 1
           new == IF Approve(e) THEN "approved" ELSE "rejected"
           m == [log EXCEPT ![e].status = new]
<1>1. /\ lastId \in Nat /\ n \in 0 .. MaxEvents /\ lastId' = n /\ builds' = builds /\ log' = Added(m, n, v)
      /\ facts' = IF new = "approved" THEN Added(facts, e, "valid") ELSE facts
      /\ LogOrder(log, lastId, builds) /\ facts = FactsOf(log) /\ builds \in 0 .. MaxRebuilds
      /\ log[e].kind = "assertion" /\ log[e].status = "candidate" /\ new \in {"approved", "rejected"}
  <2>1. CASE Approve(e)
    BY <2>1, StoreAssumption DEF MemoryInv, Approve, Candidate, Done, NextId, InsertedId
  <2>2. CASE ~Approve(e)
    BY <2>2, StoreAssumption DEF MemoryInv, Reject, Candidate, Done, NextId, InsertedId
  <2> QED BY <2>1, <2>2
<1> HIDE DEF new
<1>2. /\ v \in Event /\ v.retracts = 0 /\ v.retractedBy = 0 /\ v.withdrawn = {} /\ v.memory = NoFact
      /\ v.kind = "governance"
  BY PlainEvent
<1> HIDE DEF v
<1>3. log \in [DOMAIN log -> Event] /\ n \notin DOMAIN log /\ Derivable(log) \subseteq DOMAIN log
  BY <1>1 DEF LogOrder, LogTyped, Derivable
<1>4. m \in [DOMAIN log -> Event] /\ (\A d \in DOMAIN log : Unmoved(m[d], log[d]))
      /\ Derivable(m) = Derivable(log) \cup (IF new = "approved" THEN {e} ELSE {}) /\ e \notin Derivable(log)
  <2>0. DOMAIN m = DOMAIN log /\ (\A d \in DOMAIN log : d # e => m[d] = log[d]) /\ m[e] = [log[e] EXCEPT !.status = new]
    BY <1>3
  <2>1. log[e] \in Event
    BY <1>3
  <2>2. m[e] \in Event /\ m[e].status = new /\ m[e].kind = log[e].kind /\ m[e].skipped = log[e].skipped /\ Unmoved(m[e], log[e])
    BY <1>1, <2>0, <2>1 DEF Event, Unmoved
  <2>3. m \in [DOMAIN log -> Event]
    <3>1. m = [d \in DOMAIN log |-> m[d]]
      OBVIOUS
    <3> HIDE DEF m
    <3> QED BY <1>3, <2>0, <2>2, <3>1
  <2> HIDE DEF m
  <2>4. Derivable(m) = Derivable(log) \cup (IF new = "approved" THEN {e} ELSE {}) /\ e \notin Derivable(log)
    <3>0. ~Derives(log[e]) /\ (Derives(m[e]) <=> new = "approved")
      BY <1>1, <2>2 DEF Derives
    <3>1. CASE new = "approved"
      BY <2>0, <3>0, <3>1, DerivableIs
    <3>2. CASE new # "approved"
      BY <2>0, <3>0, <3>2, DerivableIs
    <3> QED BY <3>0, <3>1, <3>2, DerivableIs
  <2> QED BY <2>0, <2>2, <2>3, <2>4, UnmovedSame
<1> HIDE DEF m
<1>5. /\ LogOrder(log', n, builds)
      /\ Derivable(log') = Derivable(m)
      /\ FactsOf(log') = [d \in Derivable(log') |-> IF d \in Derivable(log) THEN FactsOf(log)[d] ELSE "valid"]
  <2>1. /\ LogOrder(log', n, builds)
        /\ Derivable(log') = Derivable(m) \cup (IF Derives(v) THEN {n} ELSE {})
        /\ FactsOf(log') = [d \in Derivable(log') |-> IF d \in Derivable(log) THEN FactsOf(log)[d] ELSE "valid"]
    <3>1. Derivable(log) \subseteq Derivable(m)
      BY <1>4
    <3> QED BY <1>1, <1>2, <1>4, <3>1, FactsGrow
  <2> QED BY <1>2, <2>1 DEF Derives
<1>6. facts' = FactsOf(log')
  <2>0. DOMAIN facts = Derivable(log) /\ facts = [d \in Derivable(log) |-> facts[d]]
    BY <1>1 DEF FactsOf
  <2>1. CASE new # "approved"
    BY <1>1, <1>4, <1>5, <2>0, <2>1
  <2>2. CASE new = "approved"
    BY <1>1, <1>4, <1>5, <2>0, <2>2 DEF Added
  <2> QED BY <2>1, <2>2
<1>7. (LogOrder(log, lastId, builds))' /\ (facts = FactsOf(log))'
  BY <1>1, <1>5, <1>6
<1> QED BY <1>1, <1>7 DEF MemoryInv

LEMMA DomainOfLog ==
  ASSUME MemoryInv
  PROVE  /\ IsFiniteSet(DOMAIN log) /\ DOMAIN log \subseteq Nat /\ 0 \notin DOMAIN log /\ lastId + 1 \notin DOMAIN log
         /\ Derivable(log) \subseteq DOMAIN log /\ DOMAIN facts = Derivable(log)
         /\ facts = [d \in Derivable(log) |-> facts[d]] /\ \A d \in Derivable(log) : facts[d] = StateOf(log, d)
         /\ log \in [DOMAIN log -> Event] /\ lastId \in Nat /\ DOMAIN log \subseteq 1 .. lastId
<1>1. lastId \in Nat /\ DOMAIN log \subseteq 1 .. lastId /\ log \in [DOMAIN log -> Event] /\ facts = FactsOf(log)
  BY StoreAssumption DEF MemoryInv, LogOrder, LogTyped
<1>2. IsFiniteSet(1 .. lastId)
  <2>1. 1 \in Int /\ lastId \in Int
    BY <1>1
  <2> QED BY <2>1, FS_Interval
<1>3. IsFiniteSet(DOMAIN log)
  BY <1>1, <1>2, FS_Subset
<1>4. Derivable(log) \subseteq DOMAIN log
  BY DEF Derivable
<1>5. DOMAIN facts = Derivable(log) /\ facts = [d \in Derivable(log) |-> facts[d]] /\ \A d \in Derivable(log) : facts[d] = StateOf(log, d)
  BY <1>1 DEF FactsOf
<1> QED BY <1>1, <1>3, <1>4, <1>5

LEMMA LatestIs ==
  ASSUME NEW S, IsFiniteSet(S), S \subseteq Nat
  PROVE  /\ S = {} => Latest(S) = 0
         /\ S # {} => Latest(S) \in S /\ \A e \in S : e <= Latest(S)
<1>1. S \subseteq Int
  OBVIOUS
<1>2. CASE S = {}
  BY <1>2 DEF Latest
<1>3. CASE S # {}
  <2>1. Max(S) \in S /\ \A e \in S : e <= Max(S)
    BY <1>1, <1>3, FiniteExtremes
  <2> QED BY <1>3, <2>1 DEF Latest
<1> QED BY <1>2, <1>3

(* k is l once its message t is taken back by the new event n. *)
TakenBack(l, last, t, k, n, gen) ==
  /\ last \in Nat /\ n = last + 1 /\ LogOrder(l, last, gen)
  /\ t \in Derivable(l) /\ l[t].kind = "message" /\ l[t].retractedBy = 0
  /\ DOMAIN k = DOMAIN l \cup {n} /\ k \in [DOMAIN k -> Event]
  /\ \A e \in DOMAIN l : /\ k[e].kind = l[e].kind /\ k[e].retracts = l[e].retracts /\ k[e].memory = l[e].memory
                         /\ k[e].withdrawn = l[e].withdrawn /\ Derives(k[e]) = Derives(l[e])
                         /\ k[e].retractedBy = IF e = t THEN n ELSE l[e].retractedBy
  /\ k[n].kind = "retraction" /\ k[n].retracts = t /\ k[n].retractedBy = 0 /\ k[n].memory = NoFact
  /\ k[n].withdrawn = IF Corrected(l, t) THEN {} ELSE {<<t, gen>>}

LEMMA OrderRetracted ==
  ASSUME NEW l, NEW last, NEW t, NEW k, NEW n, NEW gen, TakenBack(l, last, t, k, n, gen)
  PROVE  /\ LogOrder(k, n, gen) /\ Derivable(k) = Derivable(l)
         /\ \A d \in Derivable(l) : StateOf(k, d) = IF d = t /\ ~Corrected(l, t) THEN "withdrawn" ELSE StateOf(l, d)
<1> USE DEF TakenBack
<1> DEFINE D == DOMAIN l
<1>0. /\ DOMAIN k = D \cup {n} /\ D \subseteq 1 .. last /\ n \notin D /\ D \subseteq Nat /\ 0 \notin D /\ n \in Nat /\ n # 0
      /\ t \in D /\ Derivable(l) \subseteq D
  BY DEF LogOrder, LogTyped, Derivable
<1>1. LogTyped(k, n)
  BY <1>0 DEF LogTyped
<1>2. \A e \in D : \A d : Corrects(k, e, d) <=> Corrects(l, e, d)
  BY DEF Corrects
<1>3. \A d : ~Corrects(k, n, d)
  BY DEF Corrects
<1>4. \A d : Corrected(k, d) <=> Corrected(l, d)
  BY <1>0, <1>2, <1>3 DEF Corrected
<1>5. Derivable(k) = Derivable(l)
  <2>1. ~Derives(k[n])
    BY DEF Derives
  <2> QED BY <1>0, <2>1, DerivableIs
<1>6. \A e \in D : l[e].retracts # n
  <2> SUFFICES ASSUME NEW e \in D PROVE l[e].retracts # n
    OBVIOUS
  <2>1. l[e].retracts = 0 \/ l[e].retracts < e
    BY DEF LogOrder, Retractions
  <2> QED BY <1>0, <2>1
<1>7. \A e \in D : ~Corrects(l, e, n)
  BY <1>0 DEF LogOrder, Corrections, Corrects
<1>8. \A e \in D : l[e].retracts # t
  BY <1>0 DEF LogOrder, Retractions
<1>9. \A e \in D : l[e].retractedBy # n
  BY <1>0 DEF LogOrder, Retractions
<1> HIDE DEF D
<1>10. Retractions(k)
  <2>1. \A e \in DOMAIN k : k[e].retracts # 0 => k[e].kind = "retraction" /\ k[e].retracts < e
    BY <1>0 DEF LogOrder, Retractions, D
  <2>2. \A d \in DOMAIN k : k[d].retractedBy # 0 => k[d].retractedBy \in DOMAIN k
    BY <1>0 DEF LogOrder, Retractions, D
  <2>3. ASSUME NEW e \in DOMAIN k, NEW d \in DOMAIN k PROVE k[e].retracts = d <=> k[d].retractedBy = e
    <3>1. CASE e \in D /\ d \in D /\ d # t
      BY <3>1 DEF LogOrder, Retractions, D
    <3>2. CASE e \in D /\ d = t
      BY <1>0, <1>8, <3>2 DEF D
    <3>3. CASE e = n /\ d \in D
      BY <1>0, <1>9, <3>3 DEF D
    <3>4. CASE e \in D /\ d = n
      BY <1>0, <1>6, <3>4 DEF D
    <3>5. CASE e = n /\ d = n
      BY <1>0, <3>5
    <3> QED BY <1>0, <3>1, <3>2, <3>3, <3>4, <3>5
  <2>4. ASSUME NEW e \in DOMAIN k, NEW d \in DOMAIN k, k[e].retracts = d PROVE d \in Derivable(k) /\ k[d].kind = "message"
    <3>1. CASE e = n
      BY <1>0, <1>5, <2>4, <3>1 DEF D
    <3>2. CASE e \in D
      <4>1. d \in D
        BY <1>0, <1>6, <2>4, <3>2 DEF D
      <4> QED BY <1>5, <2>4, <3>2, <4>1 DEF LogOrder, Retractions, D
    <3> QED BY <1>0, <3>1, <3>2
  <2> QED BY <2>1, <2>2, <2>3, <2>4 DEF Retractions
<1>11. Corrections(k)
  <2>1. \A e \in DOMAIN k : k[e].memory # NoFact => k[e].kind = "governance" /\ 0 < k[e].memory[1] /\ k[e].memory[1] < e
    BY <1>0 DEF LogOrder, Corrections, D
  <2>2. \A e, d \in DOMAIN k : Corrects(k, e, d) => e \in D /\ d \in D /\ Corrects(l, e, d)
    BY <1>0, <1>2, <1>3, <1>7
  <2>3. \A e, c, d \in DOMAIN k : Corrects(k, e, d) /\ Corrects(k, c, d) => e = c
    BY <2>2 DEF LogOrder, Corrections, D
  <2>4. \A e, d \in DOMAIN k : Corrects(k, e, d) => d \in Derivable(k)
    BY <1>5, <2>2 DEF LogOrder, Corrections, D
  <2>5. ASSUME NEW e \in DOMAIN k, NEW d \in DOMAIN k, NEW r \in DOMAIN k, Corrects(k, e, d), k[r].retracts = d PROVE e < r
    <3>1. e \in D /\ d \in D /\ Corrects(l, e, d)
      BY <2>2, <2>5
    <3>2. CASE r = n
      BY <1>0, <3>1, <3>2
    <3>3. CASE r \in D
      BY <2>5, <3>1, <3>3 DEF LogOrder, Corrections, D
    <3> QED BY <1>0, <3>2, <3>3
  <2> QED BY <2>1, <2>3, <2>4, <2>5 DEF Corrections
<1>12. Withdrawals(k, gen)
  <2>1. \A e \in DOMAIN k : k[e].withdrawn \in {{}, {<<k[e].retracts, gen>>}}
    BY <1>0 DEF LogOrder, Withdrawals, D
  <2>2. \A e \in DOMAIN k : k[e].retracts = 0 => k[e].withdrawn = {}
    BY <1>0 DEF LogOrder, Withdrawals, D
  <2>3. ASSUME NEW e \in DOMAIN k, NEW d \in DOMAIN k, k[e].retracts = d PROVE k[e].withdrawn = {} <=> Corrected(k, d)
    <3>1. CASE e = n
      <4>1. d = t /\ {<<t, gen>>} # {}
        BY <2>3, <3>1
      <4> QED BY <1>4, <3>1, <4>1
    <3>2. CASE e \in D
      <4>1. d \in D
        BY <1>0, <1>6, <2>3, <3>2 DEF D
      <4> QED BY <1>4, <2>3, <3>2, <4>1 DEF LogOrder, Withdrawals, D
    <3> QED BY <1>0, <3>1, <3>2
  <2> QED BY <2>1, <2>2, <2>3 DEF Withdrawals
<1>13. LogOrder(k, n, gen)
  BY <1>1, <1>10, <1>11, <1>12 DEF LogOrder
<1>14. ASSUME NEW d \in Derivable(l)
       PROVE  StateOf(k, d) = IF d = t /\ ~Corrected(l, t) THEN "withdrawn" ELSE StateOf(l, d)
  <2>1. CASE d = t
    <3>1. k[t].retractedBy # 0
      BY <1>0 DEF D
    <3> QED BY <1>4, <2>1, <3>1 DEF StateOf
  <2>2. CASE d # t
    <3>1. k[d].retractedBy = l[d].retractedBy
      BY <1>0, <2>2 DEF D
    <3> QED BY <1>4, <2>2, <3>1 DEF StateOf
  <2> QED BY <2>1, <2>2
<1> QED BY <1>5, <1>13, <1>14

LEMMA RetractKeeps ==
  ASSUME MemoryInv, Retract
  PROVE  MemoryInv'
<1> DEFINE n == lastId + 1
           S == {e \in DOMAIN log : /\ log[e].kind = "message" /\ log[e].actor = "user"
                                   /\ log[e].retractedBy = 0 /\ ~log[e].skipped}
           t == Latest(S)
           hit == IF Live(t, facts) THEN {<<t, builds>>} ELSE {}
           v == [Plain("retraction", "user") EXCEPT !.retracts = t, !.withdrawn = hit]
           m == IF t = 0 THEN log ELSE [log EXCEPT ![t].retractedBy = n]
<1>1. /\ lastId \in Nat /\ n \in 0 .. MaxEvents /\ lastId' = n /\ builds' = builds /\ log' = Added(m, n, v)
      /\ facts' = IF hit = {} THEN facts ELSE Marked(facts, t, "withdrawn")
      /\ LogOrder(log, lastId, builds) /\ facts = FactsOf(log) /\ builds \in 0 .. MaxRebuilds
  BY StoreAssumption DEF MemoryInv, Retract, Done, NextId, InsertedId
<1>2. /\ IsFiniteSet(DOMAIN log) /\ DOMAIN log \subseteq Nat /\ 0 \notin DOMAIN log /\ n \notin DOMAIN log
      /\ Derivable(log) \subseteq DOMAIN log /\ DOMAIN facts = Derivable(log)
      /\ facts = [d \in Derivable(log) |-> facts[d]] /\ (\A d \in Derivable(log) : facts[d] = StateOf(log, d))
      /\ log \in [DOMAIN log -> Event] /\ DOMAIN log \subseteq 1 .. lastId
  BY DomainOfLog
<1>3. (S = {} => t = 0) /\ (S # {} => t \in S)
  <2>1. IsFiniteSet(S) /\ S \subseteq Nat
    BY <1>2, FS_Subset
  <2> HIDE DEF S
  <2> QED BY <2>1, LatestIs
<1>4. t = 0 \/ (t \in DOMAIN log /\ t \in Derivable(log) /\ t # 0 /\ log[t].kind = "message" /\ log[t].retractedBy = 0)
  <2>1. CASE S = {}
    BY <1>3, <2>1
  <2>2. CASE S # {}
    <3>1. t \in S
      BY <1>3, <2>2
    <3> HIDE DEF t
    <3> QED BY <1>2, <3>1, DerivableIs DEF Derives
  <2> QED BY <2>1, <2>2
<1> HIDE DEF S, t
<1>5. t \in 0 .. MaxEvents /\ hit \in {{}, {<<t, builds>>}}
  <2>1. t \in 0 .. MaxEvents
    <3> HIDE DEF hit, m, v
    <3>1. CASE t = 0
      BY <1>1, <3>1, StoreAssumption
    <3>2. CASE t \in DOMAIN log
      BY <1>1, <1>2, <3>2, StoreAssumption
    <3> QED BY <1>4, <3>1, <3>2
  <2> QED BY <2>1
<1>6. /\ v \in Event /\ v.retracts = t /\ v.retractedBy = 0 /\ v.withdrawn = hit /\ v.memory = NoFact /\ v.kind = "retraction"
      /\ ~Derives(v)
  <2> DEFINE w == Plain("retraction", "user")
  <2>1. w \in Event /\ w.kind = "retraction" /\ w.retracts = 0 /\ w.retractedBy = 0 /\ w.withdrawn = {} /\ w.memory = NoFact
    BY PlainEvent
  <2>2. hit \in SUBSET ((0 .. MaxEvents) \X (0 .. MaxRebuilds))
    BY <1>1, <1>5
  <2> HIDE DEF w, hit
  <2>3. v = [w EXCEPT !.retracts = t, !.withdrawn = hit]
    BY DEF w
  <2> HIDE DEF v
  <2>4. v \in Event /\ v.retracts = t /\ v.retractedBy = w.retractedBy /\ v.withdrawn = hit
        /\ v.memory = w.memory /\ v.kind = w.kind
    BY <1>5, <2>1, <2>2, <2>3 DEF Event
  <2> QED BY <2>1, <2>4 DEF Derives
<1> HIDE DEF v
<1>7. CASE t = 0
  <2>1. hit = {}
    BY <1>2, <1>7 DEF Live
  <2>2. m = log
    BY <1>7
  <2> HIDE DEF m, hit
  <2>3. v.retracts = 0 /\ v.withdrawn = {}
    BY <1>6, <1>7, <2>1
  <2>4. /\ LogOrder(log', n, builds)
        /\ Derivable(log') = Derivable(log)
        /\ FactsOf(log') = [d \in Derivable(log') |-> IF d \in Derivable(log) THEN FactsOf(log)[d] ELSE "valid"]
    <3>1. /\ LogOrder(log', n, builds)
          /\ Derivable(log') = Derivable(log) \cup (IF Derives(v) THEN {n} ELSE {})
          /\ FactsOf(log') = [d \in Derivable(log') |-> IF d \in Derivable(log) THEN FactsOf(log)[d] ELSE "valid"]
      BY <1>1, <1>2, <1>6, <2>2, <2>3, UnmovedSame, FactsGrow
    <3> QED BY <1>6, <3>1
  <2>5. facts' = FactsOf(log')
    BY <1>1, <1>2, <2>1, <2>4
  <2>6. (LogOrder(log, lastId, builds))' /\ (facts = FactsOf(log))'
    BY <1>1, <2>4, <2>5
  <2> QED BY <1>1, <2>6 DEF MemoryInv
<1>8. CASE t # 0
  <2>0. t \in DOMAIN log /\ t \in Derivable(log) /\ log[t].kind = "message" /\ log[t].retractedBy = 0
    BY <1>4, <1>8
  <2>1. hit = IF Corrected(log, t) THEN {} ELSE {<<t, builds>>}
    <3>1. Live(t, facts) <=> ~Corrected(log, t)
      BY <1>2, <2>0 DEF Live, StateOf
    <3> QED BY <3>1
  <2> HIDE DEF hit
  <2>2. /\ DOMAIN m = DOMAIN log /\ (\A e \in DOMAIN log : m[e] \in Event)
        /\ \A e \in DOMAIN log : /\ m[e].kind = log[e].kind /\ m[e].retracts = log[e].retracts /\ m[e].memory = log[e].memory
                                 /\ m[e].withdrawn = log[e].withdrawn /\ Derives(m[e]) = Derives(log[e])
                                 /\ m[e].retractedBy = IF e = t THEN n ELSE log[e].retractedBy
    <3>1. DOMAIN m = DOMAIN log /\ (\A e \in DOMAIN log : m[e] = IF e = t THEN [log[t] EXCEPT !.retractedBy = n] ELSE log[e])
      BY <1>2, <1>8
    <3> HIDE DEF m
    <3> SUFFICES ASSUME NEW e \in DOMAIN log
                 PROVE  /\ m[e] \in Event /\ m[e].kind = log[e].kind /\ m[e].retracts = log[e].retracts
                        /\ m[e].memory = log[e].memory
                        /\ m[e].withdrawn = log[e].withdrawn /\ Derives(m[e]) = Derives(log[e])
                        /\ m[e].retractedBy = IF e = t THEN n ELSE log[e].retractedBy
      BY <3>1
    <3>2. CASE e # t
      BY <1>2, <3>1, <3>2
    <3>3. CASE e = t
      <4>1. log[e] \in Event /\ m[e] = [log[e] EXCEPT !.retractedBy = n]
        BY <1>2, <3>1, <3>3
      <4> HIDE DEF n
      <4>2. /\ m[e] \in Event /\ m[e].kind = log[e].kind /\ m[e].retracts = log[e].retracts
            /\ m[e].memory = log[e].memory /\ m[e].skipped = log[e].skipped /\ m[e].status = log[e].status
            /\ m[e].withdrawn = log[e].withdrawn /\ m[e].retractedBy = n
        BY <1>1, <4>1 DEF Event
      <4>3. Derives(m[e]) = Derives(log[e])
        BY <4>2 DEF Derives
      <4> QED BY <3>3, <4>2, <4>3
    <3> QED BY <3>2, <3>3
  <2> HIDE DEF m, n
  <2> DEFINE k == Added(m, n, v)
  <2>3. DOMAIN k = DOMAIN log \cup {n} /\ (\A e \in DOMAIN log : k[e] = m[e]) /\ k[n] = v /\ k \in [DOMAIN k -> Event]
    BY <1>2, <1>6, <2>2 DEF Added
  <2> HIDE DEF k
  <2>4. /\ LogOrder(k, n, builds) /\ Derivable(k) = Derivable(log)
        /\ \A d \in Derivable(log) : StateOf(k, d) = IF d = t /\ ~Corrected(log, t) THEN "withdrawn" ELSE StateOf(log, d)
    <3>1. n = lastId + 1
      BY DEF n
    <3>2. \A e \in DOMAIN log : /\ k[e].kind = log[e].kind /\ k[e].retracts = log[e].retracts /\ k[e].memory = log[e].memory
                               /\ k[e].withdrawn = log[e].withdrawn /\ Derives(k[e]) = Derives(log[e])
                               /\ k[e].retractedBy = IF e = t THEN n ELSE log[e].retractedBy
      BY <2>2, <2>3
    <3>3. k[n].kind = "retraction" /\ k[n].retracts = t /\ k[n].retractedBy = 0 /\ k[n].memory = NoFact
          /\ k[n].withdrawn = IF Corrected(log, t) THEN {} ELSE {<<t, builds>>}
      BY <1>6, <2>1, <2>3
    <3>4. /\ LogOrder(log, lastId, builds) /\ lastId \in Nat /\ t \in Derivable(log)
          /\ log[t].kind = "message" /\ log[t].retractedBy = 0
      BY <1>1, <2>0
    <3>5. TakenBack(log, lastId, t, k, n, builds)
      BY <2>3, <3>1, <3>2, <3>3, <3>4 DEF TakenBack
    <3> QED BY <3>5, OrderRetracted
  <2>5. facts' = FactsOf(k)
    <3>1. CASE Corrected(log, t)
      BY <1>1, <1>2, <2>1, <2>4, <3>1 DEF FactsOf
    <3>2. CASE ~Corrected(log, t)
      <4>1. hit # {}
        BY <2>1, <3>2
      <4> QED BY <1>1, <1>2, <2>4, <3>2, <4>1 DEF FactsOf, Marked
    <3> QED BY <3>1, <3>2
  <2>6. (LogOrder(log, lastId, builds))' /\ (facts = FactsOf(log))'
    BY <1>1, <2>4, <2>5 DEF k
  <2> QED BY <1>1, <2>6 DEF MemoryInv
<1> QED BY <1>7, <1>8

(* k is l once its fact d is corrected by the new event n. *)
CorrectedBy(l, d, k, n, gen) ==
  /\ DOMAIN k = DOMAIN l \cup {n} /\ k \in [DOMAIN k -> Event]
  /\ \A e \in DOMAIN l : k[e] = l[e]
  /\ k[n].kind = "governance" /\ k[n].retracts = 0 /\ k[n].retractedBy = 0 /\ k[n].withdrawn = {}
  /\ k[n].memory = <<d, gen>>

LEMMA OrderCorrected ==
  ASSUME NEW l, NEW last \in Nat, NEW gen, LogOrder(l, last, gen), NEW d \in Derivable(l), ~Corrected(l, d),
         l[d].retractedBy = 0, NEW n, n = last + 1, NEW k, CorrectedBy(l, d, k, n, gen)
  PROVE  /\ LogOrder(k, n, gen) /\ Derivable(k) = Derivable(l)
         /\ \A x \in Derivable(l) : StateOf(k, x) = IF x = d THEN "wrong" ELSE StateOf(l, x)
<1> USE DEF CorrectedBy
<1> DEFINE D == DOMAIN l
<1>0. /\ DOMAIN k = D \cup {n} /\ D \subseteq 1 .. last /\ n \notin D /\ D \subseteq Nat /\ 0 \notin D /\ n \in Nat /\ n # 0
      /\ d \in D /\ Derivable(l) \subseteq D /\ d < n /\ 0 < d /\ \A e \in D : e < n
  BY DEF LogOrder, LogTyped, Derivable
<1>1. LogTyped(k, n)
  BY <1>0 DEF LogTyped
<1>2. \A e \in D : \A x : Corrects(k, e, x) <=> Corrects(l, e, x)
  BY DEF Corrects
<1>3. \A x : Corrects(k, n, x) <=> x = d
  BY <1>0 DEF Corrects, NoFact
<1>4. \A x : Corrected(k, x) <=> Corrected(l, x) \/ x = d
  BY <1>0, <1>2, <1>3 DEF Corrected
<1>5. Derivable(k) = Derivable(l)
  <2>1. ~Derives(k[n])
    BY DEF Derives
  <2> QED BY <1>0, <2>1, DerivableIs
<1>6. \A e \in D : l[e].retracts # n
  <2> SUFFICES ASSUME NEW e \in D PROVE l[e].retracts # n
    OBVIOUS
  <2>1. l[e].retracts = 0 \/ l[e].retracts < e
    BY DEF LogOrder, Retractions
  <2> QED BY <1>0, <2>1
<1>7. \A e \in D : ~Corrects(l, e, n)
  BY <1>0 DEF LogOrder, Corrections, Corrects
<1>8. \A e \in D : l[e].retracts # d
  BY <1>0 DEF LogOrder, Retractions
<1>9. \A e \in D : l[e].retractedBy # n
  BY <1>0 DEF LogOrder, Retractions
<1> HIDE DEF D
<1>10. Retractions(k)
  <2>1. \A e \in DOMAIN k : k[e].retracts # 0 => k[e].kind = "retraction" /\ k[e].retracts < e
    BY <1>0 DEF LogOrder, Retractions, D
  <2>2. \A x \in DOMAIN k : k[x].retractedBy # 0 => k[x].retractedBy \in DOMAIN k
    BY <1>0 DEF LogOrder, Retractions, D
  <2>3. ASSUME NEW e \in DOMAIN k, NEW x \in DOMAIN k PROVE k[e].retracts = x <=> k[x].retractedBy = e
    <3>1. CASE e \in D /\ x \in D
      BY <3>1 DEF LogOrder, Retractions, D
    <3>2. CASE e = n /\ x \in D
      BY <1>0, <1>9, <3>2 DEF D
    <3>3. CASE e \in D /\ x = n
      BY <1>0, <1>6, <3>3 DEF D
    <3>4. CASE e = n /\ x = n
      BY <1>0, <3>4
    <3> QED BY <1>0, <3>1, <3>2, <3>3, <3>4
  <2>4. ASSUME NEW e \in DOMAIN k, NEW x \in DOMAIN k, k[e].retracts = x PROVE x \in Derivable(k) /\ k[x].kind = "message"
    <3>1. e \in D
      BY <1>0, <2>4
    <3>2. x \in D
      BY <1>0, <1>6, <2>4, <3>1 DEF D
    <3> QED BY <1>5, <2>4, <3>1, <3>2 DEF LogOrder, Retractions, D
  <2> QED BY <2>1, <2>2, <2>3, <2>4 DEF Retractions
<1>11. Corrections(k)
  <2>1. ASSUME NEW e \in DOMAIN k, k[e].memory # NoFact
        PROVE  k[e].kind = "governance" /\ 0 < k[e].memory[1] /\ k[e].memory[1] < e
    <3>1. CASE e \in D
      BY <2>1, <3>1 DEF LogOrder, Corrections, D
    <3>2. CASE e = n
      BY <1>0, <3>2
    <3> QED BY <1>0, <3>1, <3>2
  <2>2. \A e, x \in DOMAIN k : Corrects(k, e, x) => x \in D /\ ((e \in D /\ Corrects(l, e, x) /\ x # d) \/ (e = n /\ x = d))
    <3> SUFFICES ASSUME NEW e \in DOMAIN k, NEW x \in DOMAIN k, Corrects(k, e, x)
                 PROVE  x \in D /\ ((e \in D /\ Corrects(l, e, x) /\ x # d) \/ (e = n /\ x = d))
      OBVIOUS
    <3>1. CASE e \in D
      <4>1. Corrects(l, e, x)
        BY <1>2, <3>1
      <4>2. x # d
        BY <3>1, <4>1 DEF Corrected, D
      <4> QED BY <1>0, <1>7, <3>1, <4>1, <4>2
    <3>2. CASE e = n
      BY <1>0, <1>3, <3>2
    <3> QED BY <1>0, <3>1, <3>2
  <2>3. \A e, c, x \in DOMAIN k : Corrects(k, e, x) /\ Corrects(k, c, x) => e = c
    BY <2>2 DEF LogOrder, Corrections, D
  <2>4. \A e, x \in DOMAIN k : Corrects(k, e, x) => x \in Derivable(k)
    BY <1>5, <2>2 DEF LogOrder, Corrections, D
  <2>5. ASSUME NEW e \in DOMAIN k, NEW x \in DOMAIN k, NEW r \in DOMAIN k, Corrects(k, e, x), k[r].retracts = x PROVE e < r
    <3>1. r \in D /\ l[r].retracts = x
      BY <1>0, <2>5 DEF D
    <3>2. e \in D /\ x \in D /\ Corrects(l, e, x)
      BY <1>8, <2>2, <2>5, <3>1
    <3> QED BY <3>1, <3>2 DEF LogOrder, Corrections, D
  <2> QED BY <2>1, <2>3, <2>4, <2>5 DEF Corrections
<1>12. Withdrawals(k, gen)
  <2>1. \A e \in DOMAIN k : k[e].withdrawn \in {{}, {<<k[e].retracts, gen>>}}
    BY <1>0 DEF LogOrder, Withdrawals, D
  <2>2. \A e \in DOMAIN k : k[e].retracts = 0 => k[e].withdrawn = {}
    BY <1>0 DEF LogOrder, Withdrawals, D
  <2>3. ASSUME NEW e \in DOMAIN k, NEW x \in DOMAIN k, k[e].retracts = x PROVE k[e].withdrawn = {} <=> Corrected(k, x)
    <3>1. e \in D /\ l[e].retracts = x
      BY <1>0, <2>3 DEF D
    <3>2. x \in D /\ x # d
      BY <1>0, <1>6, <1>8, <3>1
    <3> QED BY <1>4, <3>1, <3>2 DEF LogOrder, Withdrawals, D
  <2> QED BY <2>1, <2>2, <2>3 DEF Withdrawals
<1>13. LogOrder(k, n, gen)
  BY <1>1, <1>10, <1>11, <1>12 DEF LogOrder
<1>14. \A x \in Derivable(l) : StateOf(k, x) = IF x = d THEN "wrong" ELSE StateOf(l, x)
  BY <1>0, <1>4 DEF StateOf, D
<1> QED BY <1>5, <1>13, <1>14

LEMMA WrongKeeps ==
  ASSUME MemoryInv, NEW e \in DOMAIN log, Wrong(e)
  PROVE  MemoryInv'
<1> DEFINE n == lastId + 1
           v == [Plain("governance", "user") EXCEPT !.memory = <<e, builds>>]
           k == Added(log, n, v)
<1>1. /\ lastId \in Nat /\ n \in 0 .. MaxEvents /\ lastId' = n /\ builds' = builds /\ log' = k
      /\ facts' = Marked(facts, e, "wrong") /\ Live(e, facts)
      /\ LogOrder(log, lastId, builds) /\ facts = FactsOf(log) /\ builds \in 0 .. MaxRebuilds
  BY StoreAssumption DEF MemoryInv, Wrong, Done, NextId, InsertedId
<1>2. /\ n \notin DOMAIN log /\ DOMAIN facts = Derivable(log) /\ facts = [d \in Derivable(log) |-> facts[d]]
      /\ (\A d \in Derivable(log) : facts[d] = StateOf(log, d)) /\ log \in [DOMAIN log -> Event]
      /\ DOMAIN log \subseteq 1 .. lastId
  BY DomainOfLog
<1>3. e \in Derivable(log) /\ ~Corrected(log, e) /\ log[e].retractedBy = 0
  BY <1>1, <1>2 DEF Live, StateOf
<1>4. /\ v \in Event /\ v.retracts = 0 /\ v.retractedBy = 0 /\ v.withdrawn = {} /\ v.memory = <<e, builds>> /\ v.kind = "governance"
  <2> DEFINE w == Plain("governance", "user")
  <2>1. w \in Event /\ w.kind = "governance" /\ w.retracts = 0 /\ w.retractedBy = 0 /\ w.withdrawn = {}
    BY PlainEvent
  <2>2. <<e, builds>> \in (0 .. MaxEvents) \X (0 .. MaxRebuilds)
    BY <1>1, <1>2, StoreAssumption
  <2> HIDE DEF w
  <2>3. v = [w EXCEPT !.memory = <<e, builds>>]
    BY DEF w
  <2> HIDE DEF v
  <2> QED BY <2>1, <2>2, <2>3 DEF Event
<1> HIDE DEF v, n
<1>5. CorrectedBy(log, e, k, n, builds)
  BY <1>2, <1>4 DEF Added, CorrectedBy
<1> HIDE DEF k
<1>6. /\ LogOrder(k, n, builds) /\ Derivable(k) = Derivable(log)
      /\ \A x \in Derivable(log) : StateOf(k, x) = IF x = e THEN "wrong" ELSE StateOf(log, x)
  <2>1. n = lastId + 1
    BY DEF n
  <2> QED BY <1>1, <1>3, <1>5, <2>1, OrderCorrected
<1>7. facts' = FactsOf(k)
  BY <1>1, <1>2, <1>6 DEF FactsOf, Marked
<1>8. (LogOrder(log, lastId, builds))' /\ (facts = FactsOf(log))'
  BY <1>1, <1>6, <1>7
<1> QED BY <1>1, <1>8 DEF MemoryInv

(* k is l without its event e, which has taken nothing back. *)
Without(l, e, k) ==
  /\ DOMAIN k = DOMAIN l \ {e} /\ k \in [DOMAIN k -> Event]
  /\ \A x \in DOMAIN k : /\ k[x].kind = l[x].kind /\ k[x].retracts = l[x].retracts /\ k[x].memory = l[x].memory
                         /\ k[x].withdrawn = l[x].withdrawn /\ Derives(k[x]) = Derives(l[x])
                         /\ k[x].retractedBy = IF x = l[e].retracts THEN 0 ELSE l[x].retractedBy

LEMMA OrderShrinks ==
  ASSUME NEW l, NEW last \in Nat, NEW gen, LogOrder(l, last, gen), NEW e \in DOMAIN l, l[e].memory = NoFact,
         NEW k, Without(l, e, k)
  PROVE  /\ LogOrder(k, last, gen) /\ Derivable(k) = Derivable(l) \ {e}
         /\ \A x \in Derivable(k) : StateOf(k, x) = IF x = l[e].retracts /\ ~Corrected(l, x) THEN "valid" ELSE StateOf(l, x)
<1> USE DEF Without
<1> DEFINE D == DOMAIN l
           t == l[e].retracts
<1>0. DOMAIN k = D \ {e} /\ D \subseteq 1 .. last /\ D \subseteq Nat /\ 0 \notin D /\ Derivable(l) \subseteq D
  BY DEF LogOrder, LogTyped, Derivable
<1>1. LogTyped(k, last)
  BY <1>0 DEF LogTyped
<1>2. \A c \in DOMAIN k : \A x : Corrects(k, c, x) <=> Corrects(l, c, x)
  BY DEF Corrects
<1>3. \A x : ~Corrects(l, e, x)
  BY DEF Corrects
<1>4. \A x : Corrected(k, x) <=> Corrected(l, x)
  BY <1>0, <1>2, <1>3 DEF Corrected
<1>5. Derivable(k) = Derivable(l) \ {e}
  BY <1>0, DerivableIs
<1>6. \A r \in D : \A x \in D : l[r].retracts = x <=> l[x].retractedBy = r
  BY DEF LogOrder, Retractions
<1> HIDE DEF D
<1>10. Retractions(k)
  <2>1. \A r \in DOMAIN k : k[r].retracts # 0 => k[r].kind = "retraction" /\ k[r].retracts < r
    BY <1>0 DEF LogOrder, Retractions, D
  <2>2. ASSUME NEW x \in DOMAIN k, k[x].retractedBy # 0 PROVE k[x].retractedBy \in DOMAIN k
    <3>1. x \in D /\ x # t /\ k[x].retractedBy = l[x].retractedBy
      BY <1>0, <2>2
    <3>2. l[x].retractedBy \in D /\ l[x].retractedBy # e
      BY <1>6, <2>2, <3>1 DEF LogOrder, Retractions, D
    <3> QED BY <1>0, <3>1, <3>2
  <2>3. ASSUME NEW r \in DOMAIN k, NEW x \in DOMAIN k PROVE k[r].retracts = x <=> k[x].retractedBy = r
    <3>0. r \in D /\ x \in D /\ r # e /\ r # 0 /\ e \in D
      BY <1>0 DEF D
    <3>1. CASE x # t
      BY <1>6, <3>0, <3>1
    <3>2. CASE x = t
      BY <1>6, <3>0, <3>2
    <3> QED BY <3>1, <3>2
  <2>4. \A r, x \in DOMAIN k : k[r].retracts = x => x \in Derivable(k) /\ k[x].kind = "message"
    BY <1>0, <1>5 DEF LogOrder, Retractions, D
  <2> QED BY <2>1, <2>2, <2>3, <2>4 DEF Retractions
<1>11. Corrections(k)
  <2>1. \A c \in DOMAIN k : k[c].memory # NoFact => k[c].kind = "governance" /\ 0 < k[c].memory[1] /\ k[c].memory[1] < c
    BY <1>0 DEF LogOrder, Corrections, D
  <2>2. \A c, x \in DOMAIN k : Corrects(k, c, x) => c \in D /\ x \in D /\ x # e /\ Corrects(l, c, x)
    BY <1>0, <1>2
  <2>3. \A b, c, x \in DOMAIN k : Corrects(k, b, x) /\ Corrects(k, c, x) => b = c
    BY <2>2 DEF LogOrder, Corrections, D
  <2>4. \A c, x \in DOMAIN k : Corrects(k, c, x) => x \in Derivable(k)
    BY <1>5, <2>2 DEF LogOrder, Corrections, D
  <2>5. \A c, x, r \in DOMAIN k : Corrects(k, c, x) /\ k[r].retracts = x => c < r
    BY <1>0, <2>2 DEF LogOrder, Corrections, D
  <2> QED BY <2>1, <2>3, <2>4, <2>5 DEF Corrections
<1>12. Withdrawals(k, gen)
  BY <1>0, <1>4 DEF LogOrder, Withdrawals, D
<1>13. LogOrder(k, last, gen)
  BY <1>1, <1>10, <1>11, <1>12 DEF LogOrder
<1>14. ASSUME NEW x \in Derivable(k)
       PROVE  StateOf(k, x) = IF x = t /\ ~Corrected(l, x) THEN "valid" ELSE StateOf(l, x)
  <2>1. x \in DOMAIN k
    BY <1>0, <1>5
  <2>2. CASE x = t
    <3>1. k[x].retractedBy = 0
      BY <2>1, <2>2
    <3> QED BY <1>4, <2>2, <3>1 DEF StateOf
  <2>3. CASE x # t
    <3>1. k[x].retractedBy = l[x].retractedBy
      BY <2>1, <2>3
    <3> QED BY <1>4, <2>3, <3>1 DEF StateOf
  <2> QED BY <2>2, <2>3
<1> QED BY <1>5, <1>13, <1>14

LEMMA ForgetKeeps ==
  ASSUME MemoryInv, NEW e \in Targets, Forget(e)
  PROVE  MemoryInv'
<1> DEFINE n == lastId + 1
           t == log[e].retracts
           freed == IF t = 0 THEN log ELSE [log EXCEPT ![t].retractedBy = 0]
           kept == Restrict(freed, DOMAIN log \ {e})
           v == Plain("governance", "user")
           k == Added(kept, n, v)
<1>1. /\ lastId \in Nat /\ n \in 0 .. MaxEvents /\ lastId' = n /\ builds' = builds /\ log' = k
      /\ facts' = Forgotten(e) /\ e \in DOMAIN log /\ (t = 0 \/ t \in DOMAIN log)
      /\ LogOrder(log, lastId, builds) /\ facts = FactsOf(log) /\ builds \in 0 .. MaxRebuilds
  BY StoreAssumption DEF MemoryInv, Forget, Done, NextId, InsertedId
<1>2. /\ n \notin DOMAIN log /\ DOMAIN facts = Derivable(log) /\ facts = [d \in Derivable(log) |-> facts[d]]
      /\ (\A d \in Derivable(log) : facts[d] = StateOf(log, d)) /\ log \in [DOMAIN log -> Event]
      /\ DOMAIN log \subseteq 1 .. lastId /\ 0 \notin DOMAIN log /\ Derivable(log) \subseteq DOMAIN log
  BY DomainOfLog
<1>3. log[e].memory = NoFact
  BY DEF Targets, MemoryInv, LogOrder, Corrections
<1>4. Without(log, e, kept)
  <2>1. DOMAIN freed = DOMAIN log /\ \A x \in DOMAIN log : freed[x] = IF x = t THEN [log[x] EXCEPT !.retractedBy = 0] ELSE log[x]
    BY <1>1, <1>2
  <2> HIDE DEF freed
  <2>2. DOMAIN kept = DOMAIN log \ {e} /\ (\A x \in DOMAIN kept : kept[x] = IF x = t THEN [log[x] EXCEPT !.retractedBy = 0] ELSE log[x])
        /\ kept = [x \in DOMAIN log \ {e} |-> kept[x]]
    BY <2>1 DEF Restrict
  <2> HIDE DEF kept
  <2>3. ASSUME NEW x \in DOMAIN kept
        PROVE  /\ kept[x] \in Event /\ kept[x].kind = log[x].kind /\ kept[x].retracts = log[x].retracts /\ kept[x].memory = log[x].memory
               /\ kept[x].withdrawn = log[x].withdrawn /\ Derives(kept[x]) = Derives(log[x])
               /\ kept[x].retractedBy = IF x = t THEN 0 ELSE log[x].retractedBy
    <3>0. log[x] \in Event /\ 0 \in 0 .. MaxEvents
      BY <1>2, <2>2, StoreAssumption
    <3>1. CASE x # t
      BY <2>2, <3>0, <3>1
    <3>2. CASE x = t
      <4>1. kept[x] = [log[x] EXCEPT !.retractedBy = 0]
        BY <2>2, <3>2
      <4>2. /\ kept[x] \in Event /\ kept[x].kind = log[x].kind /\ kept[x].retracts = log[x].retracts /\ kept[x].memory = log[x].memory
            /\ kept[x].withdrawn = log[x].withdrawn /\ kept[x].skipped = log[x].skipped /\ kept[x].status = log[x].status
            /\ kept[x].retractedBy = 0
        BY <3>0, <4>1 DEF Event
      <4>3. Derives(kept[x]) = Derives(log[x])
        BY <4>2 DEF Derives
      <4> QED BY <3>2, <4>2, <4>3
    <3> QED BY <3>1, <3>2
  <2>4. kept \in [DOMAIN kept -> Event]
    BY <2>2, <2>3
  <2> QED BY <2>2, <2>3, <2>4 DEF Without
<1> HIDE DEF kept, v
<1>5. /\ LogOrder(kept, lastId, builds) /\ Derivable(kept) = Derivable(log) \ {e}
      /\ \A x \in Derivable(kept) : StateOf(kept, x) = IF x = t /\ ~Corrected(log, x) THEN "valid" ELSE StateOf(log, x)
  BY <1>1, <1>3, <1>4, OrderShrinks
<1>6. Forgotten(e) = FactsOf(kept)
  <2> DEFINE undone == {id[1] : id \in {w \in log[e].withdrawn \cup {log[e].memory} : Named(w)}} \ {e}
  <2>1. ~Named(NoFact)
    BY <1>2 DEF Named, NoFact
  <2>2. ASSUME NEW x \in Derivable(kept) PROVE x \in undone <=> x = t /\ ~Corrected(log, x)
    <3>0. x \in Derivable(log) /\ x # e /\ x # 0 /\ x \in DOMAIN log
      BY <1>2, <1>5
    <3>1. log[e].withdrawn \in {{}, {<<t, builds>>}}
      BY <1>1 DEF LogOrder, Withdrawals
    <3>2. x = t => (log[e].withdrawn = {} <=> Corrected(log, x))
      BY <1>1, <3>0 DEF LogOrder, Withdrawals
    <3>3. CASE log[e].withdrawn = {}
      <4>1. undone = {}
        BY <1>3, <2>1, <3>3
      <4> QED BY <3>2, <3>3, <4>1
    <3>4. CASE log[e].withdrawn = {<<t, builds>>}
      <4>1. Named(<<t, builds>>) <=> t \in Derivable(log)
        BY <1>2 DEF Named
      <4>2. undone = IF t \in Derivable(log) THEN {t} \ {e} ELSE {}
        <5>1. CASE t \in Derivable(log)
          <6>1. {w \in log[e].withdrawn \cup {log[e].memory} : Named(w)} = {<<t, builds>>}
            BY <1>3, <2>1, <3>4, <4>1, <5>1
          <6>2. {id[1] : id \in {<<t, builds>>}} = {t}
            OBVIOUS
          <6>3. undone = {t} \ {e}
            BY <6>1, <6>2
          <6> HIDE DEF undone
          <6> QED BY <5>1, <6>3
        <5>2. CASE t \notin Derivable(log)
          <6>1. {w \in log[e].withdrawn \cup {log[e].memory} : Named(w)} = {}
            BY <1>3, <2>1, <3>4, <4>1, <5>2
          <6> QED BY <5>2, <6>1
        <5> QED BY <5>1, <5>2
      <4>3. log[e].withdrawn # {}
        BY <3>4
      <4> HIDE DEF undone
      <4>4. CASE t \in Derivable(log)
        BY <3>0, <3>2, <4>2, <4>3, <4>4
      <4>5. CASE t \notin Derivable(log)
        BY <3>0, <4>2, <4>5
      <4> QED BY <4>4, <4>5
    <3> QED BY <3>1, <3>3, <3>4
  <2>3. Forgotten(e) = [d \in DOMAIN facts \ {e} |-> IF d \in undone THEN "valid" ELSE facts[d]]
    BY DEF Forgotten
  <2> HIDE DEF undone
  <2>4. Forgotten(e) = [d \in Derivable(kept) |-> IF d \in undone THEN "valid" ELSE facts[d]]
    BY <1>2, <1>5, <2>3
  <2>5. \A d \in Derivable(kept) : (IF d \in undone THEN "valid" ELSE facts[d]) = StateOf(kept, d)
    BY <1>2, <1>5, <2>2
  <2> QED BY <2>4, <2>5 DEF FactsOf
<1>7. v \in Event /\ v.retracts = 0 /\ v.retractedBy = 0 /\ v.withdrawn = {} /\ v.memory = NoFact /\ ~Derives(v)
  BY PlainEvent DEF v, Derives
<1>8. LogOrder(k, n, builds) /\ Derivable(k) = Derivable(kept) /\ FactsOf(k) = FactsOf(kept)
  <2>1. kept \in [DOMAIN kept -> Event]
    BY <1>4 DEF Without
  <2>2. /\ LogOrder(k, n, builds)
        /\ Derivable(k) = Derivable(kept) \cup (IF Derives(v) THEN {n} ELSE {})
        /\ FactsOf(k) = [d \in Derivable(k) |-> IF d \in Derivable(kept) THEN FactsOf(kept)[d] ELSE "valid"]
    BY <1>1, <1>5, <1>7, <2>1, UnmovedSame, FactsGrow
  <2>3. Derivable(k) = Derivable(kept)
    BY <1>7, <2>2
  <2> QED BY <2>2, <2>3 DEF FactsOf
<1> HIDE DEF k
<1>9. (LogOrder(log, lastId, builds))' /\ (facts = FactsOf(log))'
  BY <1>1, <1>6, <1>8
<1> QED BY <1>1, <1>9 DEF MemoryInv

LEMMA ForgetRaisesKeeps ==
  ASSUME MemoryInv, NEW e \in Targets, ForgetRaises(e)
  PROVE  MemoryInv'
<1>1. /\ log' = log /\ lastId' = lastId /\ builds' = builds /\ e \in DOMAIN log
      /\ log[e].retracts # 0 /\ log[e].retracts \notin DOMAIN log
      /\ facts' = [d \in DOMAIN facts \ {e} |-> IF <<d, builds>> \in log[e].withdrawn THEN "valid" ELSE facts[d]]
  BY DEF ForgetRaises, Done
<1>2. /\ DOMAIN facts = Derivable(log) /\ facts = [d \in Derivable(log) |-> facts[d]]
      /\ Derivable(log) \subseteq DOMAIN log
  BY DomainOfLog
<1>3. e \notin Derivable(log)
  <2>1. log[e].kind = "retraction"
    BY <1>1 DEF MemoryInv, LogOrder, Retractions
  <2> QED BY <2>1, DerivableIs DEF Derives
<1>4. \A d \in Derivable(log) : <<d, builds>> \notin log[e].withdrawn
  <2>1. log[e].withdrawn \in {{}, {<<log[e].retracts, builds>>}}
    BY <1>1 DEF MemoryInv, LogOrder, Withdrawals
  <2> QED BY <1>1, <1>2, <2>1
<1>5. facts' = facts
  BY <1>1, <1>2, <1>3, <1>4
<1> QED BY <1>1, <1>5 DEF MemoryInv

(***************************************************************************)
(* InOrder(S) is S, from its least element to its greatest.                *)
(***************************************************************************)
Below(S, e) == {d \in S : d <= e}

LEMMA EveryRank ==
  ASSUME NEW S, IsFiniteSet(S), S \subseteq Nat
  PROVE  \A n \in 1 .. Cardinality(S) : \E e \in S : Cardinality(Below(S, e)) = n
<1> DEFINE G == {T \in SUBSET S : \A n \in 1 .. Cardinality(T) : \E e \in T : Cardinality(Below(T, e)) = n}
<1>1. {} \in G
  BY FS_EmptySet
<1>2. ASSUME NEW T \in SUBSET S, T # {}, \A x \in T : T \ {x} \in G PROVE T \in G
  <2> DEFINE x == Max(T)
             U == T \ {x}
  <2>00. IsFiniteSet(T)
    BY FS_Subset
  <2>01. T \subseteq Nat /\ Nat \subseteq Int
    OBVIOUS
  <2>0. IsFiniteSet(T) /\ T \subseteq Int
    BY <2>00, <2>01
  <2>1. IsFiniteSet(T) /\ Cardinality(T) \in Nat /\ T \subseteq Int
    BY <2>0, FS_CardinalityType
  <2>2. x \in T /\ \A y \in T : y <= x
    BY <1>2, <2>1, FiniteExtremes
  <2> HIDE DEF x
  <2>3. U \in G
    BY <1>2, <2>2
  <2>4. Cardinality(U) = Cardinality(T) - 1
    BY <2>1, <2>2, FS_RemoveElement
  <2>5. ASSUME NEW n \in 1 .. Cardinality(T) PROVE \E e \in T : Cardinality(Below(T, e)) = n
    <3>1. CASE n = Cardinality(T)
      <4>1. Below(T, x) = T
        BY <2>2 DEF Below
      <4> QED BY <2>2, <3>1, <4>1
    <3>2. CASE n # Cardinality(T)
      <4>1. n \in 1 .. Cardinality(U)
        BY <2>1, <2>4, <3>2
      <4>2. PICK e \in U : Cardinality(Below(U, e)) = n
        BY <2>3, <4>1
      <4>3. Below(T, e) = Below(U, e)
        <5>1. e \in Nat /\ x \in Nat /\ e <= x /\ e # x
          BY <2>2, <4>2
        <5> QED BY <5>1 DEF Below
      <4> QED BY <4>2, <4>3
    <3> QED BY <3>1, <3>2
  <2> QED BY <2>5
<1>3. S \in G
  <2> HIDE DEF G
  <2> QED BY <1>1, <1>2, FiniteDescent
<1> QED BY <1>3

LEMMA InOrderIs ==
  ASSUME NEW S, IsFiniteSet(S), S \subseteq Nat
  PROVE  /\ InOrder(S) \in Seq(S) /\ Len(InOrder(S)) = Cardinality(S) /\ DOMAIN InOrder(S) = 1 .. Cardinality(S)
         /\ \A i, j \in 1 .. Cardinality(S) : i < j => InOrder(S)[i] < InOrder(S)[j]
         /\ \A e \in S : \E n \in 1 .. Cardinality(S) : InOrder(S)[n] = e
<1> DEFINE seq == InOrder(S)
           c == Cardinality(S)
<1>0. c \in Nat
  BY FS_CardinalityType
<1>1. ASSUME NEW n \in 1 .. c PROVE seq[n] \in S /\ Cardinality(Below(S, seq[n])) = n
  <2>1. seq[n] = CHOOSE e \in S : Cardinality(Below(S, e)) = n
    BY DEF InOrder, Below
  <2>2. \E e \in S : Cardinality(Below(S, e)) = n
    BY EveryRank
  <2> HIDE DEF seq
  <2> QED BY <2>1, <2>2
<1>2. seq = [n \in 1 .. c |-> seq[n]]
  BY DEF InOrder
<1> HIDE DEF seq, c
<1>3. seq \in [1 .. c -> S]
  BY <1>1, <1>2
<1>4. seq \in Seq(S) /\ Len(seq) = c /\ DOMAIN seq = 1 .. c
  BY <1>0, <1>3
<1>5. \A d, e \in S : d <= e => Below(S, d) \subseteq Below(S, e) /\ (d # e => e \notin Below(S, d) /\ e \in Below(S, e))
  <2>1. \A a, b, x \in Nat : a <= b /\ x <= a => x <= b
    OBVIOUS
  <2>2. \A a, b \in Nat : a <= b /\ b <= a => a = b
    OBVIOUS
  <2>3. \A a \in Nat : a <= a
    OBVIOUS
  <2> QED BY <2>1, <2>2, <2>3, Zenon DEF Below
<1>6. \A e \in S : IsFiniteSet(Below(S, e)) /\ Cardinality(Below(S, e)) \in Nat /\ Cardinality(Below(S, e)) <= c /\ Cardinality(Below(S, e)) # 0
  <2> SUFFICES ASSUME NEW e \in S
               PROVE  IsFiniteSet(Below(S, e)) /\ Cardinality(Below(S, e)) \in Nat /\ Cardinality(Below(S, e)) <= c /\ Cardinality(Below(S, e)) # 0
    OBVIOUS
  <2>1. Below(S, e) \subseteq S /\ e \in Below(S, e)
    BY DEF Below
  <2>2. IsFiniteSet(Below(S, e)) /\ Cardinality(Below(S, e)) <= c
    BY <2>1, FS_Subset DEF c
  <2> QED BY <2>1, <2>2, FS_CardinalityType, FS_EmptySet
<1>7. ASSUME NEW i \in 1 .. c, NEW j \in 1 .. c, i < j PROVE seq[i] < seq[j]
  <2>0. seq[i] \in S /\ seq[j] \in S /\ seq[i] \in Nat /\ seq[j] \in Nat
    BY <1>1
  <2> SUFFICES ASSUME seq[j] <= seq[i] PROVE FALSE
    BY <2>0
  <2>1. Below(S, seq[j]) \subseteq Below(S, seq[i])
    BY <2>0, <1>5
  <2>2. Cardinality(Below(S, seq[j])) <= Cardinality(Below(S, seq[i]))
    BY <2>0, <1>6, <2>1, FS_Subset
  <2>3. j <= i
    BY <1>1, <2>2
  <2> QED BY <1>0, <1>7, <2>3
<1>8. ASSUME NEW e \in S PROVE \E n \in 1 .. c : seq[n] = e
  <2> DEFINE n == Cardinality(Below(S, e))
  <2>1. n \in 1 .. c
    BY <1>0, <1>6
  <2>2. seq[n] \in S /\ Cardinality(Below(S, seq[n])) = n
    BY <1>1, <2>1
  <2>3. ASSUME NEW a \in S, NEW b \in S, Cardinality(Below(S, a)) = Cardinality(Below(S, b)), a <= b PROVE a = b
    <3>1. Below(S, a) \subseteq Below(S, b)
      BY <1>5, <2>3
    <3>2. Below(S, a) = Below(S, b)
      BY <1>6, <2>3, <3>1, FS_Subset
    <3> QED BY <1>5, <2>3, <3>2
  <2>4. seq[n] = e
    <3>1. seq[n] <= e \/ e <= seq[n]
      <4>1. seq[n] \in Nat /\ e \in Nat
        BY <2>2
      <4> HIDE DEF n
      <4> QED BY <4>1
    <3> HIDE DEF n
    <3>2. Cardinality(Below(S, e)) = n
      BY DEF n
    <3> QED BY <2>2, <2>3, <3>1, <3>2
  <2> QED BY <2>1, <2>4
<1> QED BY <1>4, <1>7, <1>8 DEF seq, c

(***************************************************************************)
(* What a replay of the events P of a log has done, in any prefix of their *)
(* order.                                                                  *)
(***************************************************************************)
CorrectedIn(l, P, d) == \E c \in P : Corrects(l, c, d)
RetractedIn(l, P, d) == \E r \in P : l[r].retracts = d
StateIn(l, P, d) == IF CorrectedIn(l, P, d) THEN "wrong" ELSE IF RetractedIn(l, P, d) THEN "withdrawn" ELSE "valid"
Redone(l, gen, P, e) ==
  IF l[e].retracts # 0
  THEN [l[e] EXCEPT !.withdrawn = IF l[e].retracts \in Derivable(l) /\ ~CorrectedIn(l, P, l[e].retracts)
                                  THEN {<<l[e].retracts, gen>>} ELSE {}]
  ELSE IF l[e].memory # NoFact /\ l[e].memory[1] \in Derivable(l)
  THEN [l[e] EXCEPT !.memory = <<l[e].memory[1], gen>>]
  ELSE l[e]
Acc(l, gen, P) ==
  [facts |-> [d \in Derivable(l) |-> StateIn(l, P, d)],
   log |-> [e \in DOMAIN l |-> IF e \in P THEN Redone(l, gen, P, e) ELSE l[e]],
   unresolved |-> {e \in P : l[e].memory # NoFact /\ l[e].memory[1] \notin Derivable(l)}]

LEMMA AccStep ==
  ASSUME NEW l, NEW last \in Nat, NEW old, LogOrder(l, last, old), NEW gen, NEW P \in SUBSET DOMAIN l,
         NEW x \in DOMAIN l, \A p \in P : p < x
  PROVE  Applied(l, gen, Acc(l, gen, P), x) = Acc(l, gen, P \cup {x})
<1> DEFINE Q == P \cup {x}
           D == DOMAIN l
           F(R) == [d \in Derivable(l) |-> StateIn(l, R, d)]
           L(R) == [e \in D |-> IF e \in R THEN Redone(l, gen, R, e) ELSE l[e]]
           U(R) == {e \in R : l[e].memory # NoFact /\ l[e].memory[1] \notin Derivable(l)}
<1>0. D \subseteq Nat /\ 0 \notin D /\ x \notin P /\ Derivable(l) \subseteq D /\ P \subseteq D /\ Q \subseteq D
      /\ D \subseteq 1 .. last
  BY DEF LogOrder, LogTyped, Derivable
<1>00. \A p \in P : ~(x < p) /\ p # x
  BY <1>0
<1>1. Acc(l, gen, P) = [facts |-> F(P), log |-> L(P), unresolved |-> U(P)] /\ Acc(l, gen, Q) = [facts |-> F(Q), log |-> L(Q), unresolved |-> U(Q)]
  BY DEF Acc
<1>2. \A e, d, r \in D : Corrects(l, e, d) /\ l[r].retracts = d => e < r
  BY DEF LogOrder, Corrections
<1>3. \A e, c, d \in D : Corrects(l, e, d) /\ Corrects(l, c, d) => e = c
  BY DEF LogOrder, Corrections
<1>4. \A e, r, d \in D : l[e].retracts = d /\ l[r].retracts = d => e = r
  BY DEF LogOrder, Retractions
<1>5. \A d : CorrectedIn(l, Q, d) <=> CorrectedIn(l, P, d) \/ Corrects(l, x, d)
  BY DEF CorrectedIn
<1>6. \A d : RetractedIn(l, Q, d) <=> RetractedIn(l, P, d) \/ l[x].retracts = d
  BY DEF RetractedIn
<1>7. \A e \in P : Redone(l, gen, Q, e) = Redone(l, gen, P, e)
  <2> SUFFICES ASSUME NEW e \in P, l[e].retracts \in Derivable(l)
               PROVE  CorrectedIn(l, Q, l[e].retracts) <=> CorrectedIn(l, P, l[e].retracts)
    BY DEF Redone
  <2>1. ~Corrects(l, x, l[e].retracts)
    BY <1>0, <1>00, <1>2
  <2> QED BY <1>5, <2>1
<1>8. l[x].retracts # 0 => l[x].kind = "retraction" /\ l[x].memory = NoFact
  BY DEF LogOrder, Retractions, Corrections
<1>9. l[x].memory # NoFact => l[x].retracts = 0 /\ Corrects(l, x, l[x].memory[1]) /\ \A d : Corrects(l, x, d) => d = l[x].memory[1]
  BY <1>8 DEF Corrects
<1>10. \A d : l[x].memory = NoFact => ~Corrects(l, x, d)
  BY DEF Corrects
<1>11. L(P)[x] = l[x] /\ x \in DOMAIN L(P) /\ DOMAIN L(P) = D
  BY <1>0
<1>12. \A d : Live(d, F(P)) <=> d \in Derivable(l) /\ ~CorrectedIn(l, P, d) /\ ~RetractedIn(l, P, d)
  BY DEF Live, StateIn
<1> HIDE DEF D
<1>13. CASE l[x].retracts # 0
  <2> DEFINE t == l[x].retracts
  <2>1. Applied(l, gen, Acc(l, gen, P), x) =
          [facts |-> IF Live(t, Acc(l, gen, P).facts) THEN Marked(Acc(l, gen, P).facts, t, "withdrawn") ELSE Acc(l, gen, P).facts,
           log |-> [Acc(l, gen, P).log EXCEPT ![x].withdrawn = IF Live(t, Acc(l, gen, P).facts) THEN {<<t, gen>>} ELSE {}],
           unresolved |-> Acc(l, gen, P).unresolved]
    BY <1>8, <1>13 DEF Applied
  <2>2. Applied(l, gen, Acc(l, gen, P), x) =
          [facts |-> IF Live(t, F(P)) THEN Marked(F(P), t, "withdrawn") ELSE F(P),
           log |-> [L(P) EXCEPT ![x].withdrawn = IF Live(t, F(P)) THEN {<<t, gen>>} ELSE {}],
           unresolved |-> U(P)]
    <3> HIDE DEF F, L, U, t
    <3> QED BY <1>1, <2>1
  <2>3. Live(t, F(P)) <=> t \in Derivable(l) /\ ~CorrectedIn(l, P, t)
    <3>1. ASSUME t \in Derivable(l) PROVE ~RetractedIn(l, P, t)
      BY <1>0, <1>00, <1>4, <3>1 DEF RetractedIn
    <3> HIDE DEF F, t
    <3> QED BY <1>12, <3>1
  <2>4. (IF Live(t, F(P)) THEN Marked(F(P), t, "withdrawn") ELSE F(P)) = F(Q)
    <3>1. ASSUME NEW d \in Derivable(l), d # t PROVE StateIn(l, Q, d) = StateIn(l, P, d)
      BY <1>5, <1>6, <1>8, <1>10, <1>13, <3>1 DEF StateIn
    <3>2. ASSUME t \in Derivable(l) PROVE StateIn(l, Q, t) = IF CorrectedIn(l, P, t) THEN "wrong" ELSE "withdrawn"
      BY <1>5, <1>6, <1>8, <1>10, <1>13, <3>2 DEF StateIn
    <3>3. ASSUME t \in Derivable(l), CorrectedIn(l, P, t) PROVE StateIn(l, P, t) = "wrong"
      BY <3>3 DEF StateIn
    <3>4. CASE Live(t, F(P))
      <4>1. Marked(F(P), t, "withdrawn") = [d \in Derivable(l) |-> IF d = t THEN "withdrawn" ELSE StateIn(l, P, d)]
        BY DEF Marked
      <4> HIDE DEF t
      <4> QED BY <2>3, <3>1, <3>2, <3>4, <4>1
    <3>5. CASE ~Live(t, F(P))
      <4>1. \A d \in Derivable(l) : StateIn(l, Q, d) = StateIn(l, P, d)
        <5> HIDE DEF t, F
        <5> QED BY <2>3, <3>1, <3>2, <3>3, <3>5
      <4> QED BY <3>5, <4>1
    <3> QED BY <3>4, <3>5
  <2>5. [L(P) EXCEPT ![x].withdrawn = IF Live(t, F(P)) THEN {<<t, gen>>} ELSE {}] = L(Q)
    <3> DEFINE w == IF Live(t, F(P)) THEN {<<t, gen>>} ELSE {}
    <3>1. [L(P) EXCEPT ![x].withdrawn = w] = [e \in D |-> IF e = x THEN [l[x] EXCEPT !.withdrawn = w] ELSE L(P)[e]]
      <4> HIDE DEF w, L
      <4> QED BY <1>11
    <3>2. Redone(l, gen, Q, x) = [l[x] EXCEPT !.withdrawn = w]
      <4>1. t \in Derivable(l) => (CorrectedIn(l, Q, t) <=> CorrectedIn(l, P, t))
        BY <1>5, <1>8, <1>10, <1>13
      <4>2. w = IF t \in Derivable(l) /\ ~CorrectedIn(l, Q, t) THEN {<<t, gen>>} ELSE {}
        <5> HIDE DEF F, t
        <5> QED BY <2>3, <4>1
      <4> HIDE DEF w
      <4> QED BY <1>13, <4>2 DEF Redone
    <3> HIDE DEF w
    <3>3. \A e \in D : L(Q)[e] = IF e = x THEN [l[x] EXCEPT !.withdrawn = w] ELSE L(P)[e]
      BY <1>0, <1>7, <3>2
    <3>4. L(Q) = [e \in D |-> L(Q)[e]]
      OBVIOUS
    <3>5. L(Q) = [e \in D |-> IF e = x THEN [l[x] EXCEPT !.withdrawn = w] ELSE L(P)[e]]
      <4> HIDE DEF L
      <4> QED BY <3>3, <3>4
    <3> QED BY <3>1, <3>5 DEF w
  <2>6. U(P) = U(Q)
    BY <1>8, <1>13
  <2> HIDE DEF F, L, U, t
  <2> QED BY <1>1, <2>2, <2>4, <2>5, <2>6
<1>14. CASE l[x].retracts = 0 /\ l[x].memory # NoFact
  <2> DEFINE d == l[x].memory[1]
  <2>1. Applied(l, gen, Acc(l, gen, P), x) =
          IF Live(d, F(P))
          THEN [facts |-> Marked(Acc(l, gen, P).facts, d, "wrong"),
                log |-> [Acc(l, gen, P).log EXCEPT ![x].memory = <<d, gen>>], unresolved |-> Acc(l, gen, P).unresolved]
          ELSE [Acc(l, gen, P) EXCEPT !.unresolved = @ \cup {x}]
    BY <1>1, <1>14 DEF Applied
  <2>2. Live(d, F(P)) <=> d \in Derivable(l)
    <3>1. ASSUME d \in Derivable(l) PROVE ~CorrectedIn(l, P, d) /\ ~RetractedIn(l, P, d)
      <4>1. Corrects(l, x, d) /\ d \in D
        BY <1>0, <1>9, <1>14, <3>1
      <4> HIDE DEF d
      <4> QED BY <1>0, <1>00, <1>2, <1>3, <4>1 DEF CorrectedIn, RetractedIn
    <3> HIDE DEF F, d
    <3> QED BY <1>12, <3>1
  <2>3. ASSUME NEW y \in Derivable(l), y # d PROVE StateIn(l, Q, y) = StateIn(l, P, y)
    <3>1. ~Corrects(l, x, y) /\ l[x].retracts # y
      BY <1>0, <1>9, <1>14, <2>3
    <3> QED BY <1>5, <1>6, <3>1 DEF StateIn
  <2>4. CASE d \in Derivable(l)
    <3>1. Applied(l, gen, Acc(l, gen, P), x) = [facts |-> Marked(F(P), d, "wrong"), log |-> [L(P) EXCEPT ![x].memory = <<d, gen>>], unresolved |-> U(P)]
      <4> HIDE DEF F, L, U, d
      <4> QED BY <1>1, <2>1, <2>2, <2>4
    <3>2. Marked(F(P), d, "wrong") = F(Q)
      <4>1. StateIn(l, Q, d) = "wrong"
        BY <1>5, <1>9, <1>14 DEF StateIn
      <4>2. Marked(F(P), d, "wrong") = [y \in Derivable(l) |-> IF y = d THEN "wrong" ELSE StateIn(l, P, y)]
        BY DEF Marked
      <4> HIDE DEF d
      <4> QED BY <2>3, <4>1, <4>2
    <3>3. [L(P) EXCEPT ![x].memory = <<d, gen>>] = L(Q)
      <4>1. [L(P) EXCEPT ![x].memory = <<d, gen>>] = [e \in D |-> IF e = x THEN [l[x] EXCEPT !.memory = <<d, gen>>] ELSE L(P)[e]]
        <5> HIDE DEF L, d
        <5> QED BY <1>11
      <4>2. Redone(l, gen, Q, x) = [l[x] EXCEPT !.memory = <<d, gen>>]
        BY <1>14, <2>4 DEF Redone
      <4>3. \A e \in D : L(Q)[e] = IF e = x THEN [l[x] EXCEPT !.memory = <<d, gen>>] ELSE L(P)[e]
        BY <1>0, <1>7, <4>2
      <4>4. L(Q) = [e \in D |-> L(Q)[e]]
        OBVIOUS
      <4> HIDE DEF L, d
      <4> QED BY <4>1, <4>3, <4>4
    <3>4. U(P) = U(Q)
      BY <2>4
    <3> HIDE DEF F, L, U, d
    <3> QED BY <1>1, <3>1, <3>2, <3>3, <3>4
  <2>5. CASE d \notin Derivable(l)
    <3>1. Applied(l, gen, Acc(l, gen, P), x) = [facts |-> F(P), log |-> L(P), unresolved |-> U(P) \cup {x}]
      <4> HIDE DEF F, L, U, d
      <4> QED BY <1>1, <2>1, <2>2, <2>5
    <3>2. F(P) = F(Q)
      BY <2>3, <2>5
    <3>3. L(P) = L(Q)
      <4>1. Redone(l, gen, Q, x) = l[x]
        BY <1>14, <2>5 DEF Redone
      <4> QED BY <1>0, <1>7, <4>1
    <3>4. U(P) \cup {x} = U(Q)
      BY <1>14, <2>5
    <3> HIDE DEF F, L, U, d
    <3> QED BY <1>1, <3>1, <3>2, <3>3, <3>4
  <2> QED BY <2>4, <2>5
<1>15. CASE l[x].retracts = 0 /\ l[x].memory = NoFact
  <2>1. Applied(l, gen, Acc(l, gen, P), x) = Acc(l, gen, P)
    BY <1>15 DEF Applied
  <2>2. F(P) = F(Q)
    BY <1>0, <1>5, <1>6, <1>10, <1>15 DEF StateIn
  <2>3. L(P) = L(Q)
    <3>1. Redone(l, gen, Q, x) = l[x]
      BY <1>15 DEF Redone
    <3> QED BY <1>0, <1>7, <3>1
  <2>4. U(P) = U(Q)
    BY <1>15
  <2> HIDE DEF F, L, U
  <2> QED BY <1>1, <2>1, <2>2, <2>3, <2>4
<1> QED BY <1>13, <1>14, <1>15

LEMMA PartOf ==
  ASSUME NEW S, NEW n \in Nat, NEW seq \in [1 .. n -> S]
  PROVE  /\ {seq[i] : i \in {}} = {}
         /\ \A T \in SUBSET (1 .. n) : \A x \in T : {seq[i] : i \in T} = {seq[i] : i \in T \ {x}} \cup {seq[x]}
  OBVIOUS

LEMMA ReplayedIs ==
  ASSUME NEW l, NEW last \in Nat, NEW old, LogOrder(l, last, old), NEW gen
  PROVE  Replayed(l, gen) = Acc(l, gen, DOMAIN l)
<1> DEFINE seq == InOrder(DOMAIN l)
           n == Cardinality(DOMAIN l)
           D == DOMAIN seq
           Part(T) == {seq[i] : i \in T}
           base == [facts |-> [d \in Derivable(l) |-> "valid"], log |-> l, unresolved |-> {}]
           Body(of, T) == IF T = {} THEN base ELSE LET x == Max(T) IN Applied(l, gen, of[T \ {x}], seq[x])
           Is(of) == of = [T \in SUBSET D |-> Body(of, T)]
           it == CHOOSE of : Is(of)
           done == [T \in SUBSET D |-> Acc(l, gen, Part(T))]
<1>1. IsFiniteSet(DOMAIN l) /\ DOMAIN l \subseteq Nat /\ l = [e \in DOMAIN l |-> l[e]]
  <2>1. DOMAIN l \subseteq 1 .. last /\ l = [e \in DOMAIN l |-> l[e]]
    BY DEF LogOrder, LogTyped
  <2>2. 1 \in Int /\ last \in Int
    OBVIOUS
  <2>3. IsFiniteSet(1 .. last)
    BY <2>2, FS_Interval
  <2>4. IsFiniteSet(DOMAIN l)
    BY <2>1, <2>3, FS_Subset
  <2> QED BY <2>1, <2>4
<1>2. /\ n \in Nat /\ D = 1 .. n /\ seq \in [1 .. n -> DOMAIN l]
      /\ \A i, j \in 1 .. n : i < j => seq[i] < seq[j]
      /\ \A e \in DOMAIN l : \E i \in 1 .. n : seq[i] = e
  <2>1. n \in Nat
    BY <1>1, FS_CardinalityType
  <2>2. /\ seq \in Seq(DOMAIN l) /\ Len(seq) = n /\ D = 1 .. n
        /\ \A i, j \in 1 .. n : i < j => seq[i] < seq[j]
        /\ \A e \in DOMAIN l : \E i \in 1 .. n : seq[i] = e
    BY <1>1, InOrderIs
  <2> HIDE DEF seq, n, D
  <2>3. seq \in [1 .. n -> DOMAIN l]
    BY <2>2
  <2> QED BY <2>1, <2>2, <2>3
<1>3. Replayed(l, gen) = it[D]
  BY DEF Replayed, FoldLeft, MapThenFoldSet
<1> HIDE DEF seq, n
<1>4. IsFiniteSet(D) /\ D \subseteq Int
  <2>1. 1 \in Int /\ n \in Int
    BY <1>2
  <2>2. IsFiniteSet(1 .. n)
    BY <2>1, FS_Interval
  <2>3. 1 .. n \subseteq Int
    OBVIOUS
  <2> QED BY <1>2, <2>2, <2>3
<1> HIDE DEF D
<1>5. ASSUME NEW T \in SUBSET D, T # {}
      PROVE  /\ Max(T) \in T /\ T \ {Max(T)} \in SUBSET D
             /\ Applied(l, gen, Acc(l, gen, Part(T \ {Max(T)})), seq[Max(T)]) = Acc(l, gen, Part(T))
  <2> DEFINE x == Max(T)
             P == Part(T \ {x})
  <2>0. IsFiniteSet(T) /\ T \subseteq Int
    <3>1. IsFiniteSet(T)
      BY <1>4, FS_Subset
    <3> QED BY <1>4, <3>1
  <2>1. x \in T /\ \A y \in T : y <= x
    BY <1>5, <2>0, FiniteExtremes
  <2> HIDE DEF x
  <2>2. Part(T) = P \cup {seq[x]}
    BY <1>2, <2>1, PartOf
  <2>3. P \in SUBSET DOMAIN l /\ seq[x] \in DOMAIN l
    BY <1>2, <2>1
  <2>4. \A p \in P : p < seq[x]
    <3> SUFFICES ASSUME NEW i \in T \ {x} PROVE seq[i] < seq[x]
      OBVIOUS
    <3>1. i \in 1 .. n /\ x \in 1 .. n /\ i <= x /\ i # x
      BY <1>2, <2>1
    <3>2. i < x
      BY <3>1
    <3> QED BY <1>2, <3>1, <3>2
  <2> HIDE DEF P
  <2>5. Applied(l, gen, Acc(l, gen, P), seq[x]) = Acc(l, gen, P \cup {seq[x]})
    BY <2>3, <2>4, AccStep
  <2> QED BY <2>1, <2>2, <2>5 DEF x, P
<1>6. Acc(l, gen, Part({})) = base
  <2>1. Part({}) = {}
    OBVIOUS
  <2>2. \A d \in Derivable(l) : StateIn(l, {}, d) = "valid"
    BY DEF StateIn, CorrectedIn, RetractedIn
  <2> QED BY <1>1, <2>1, <2>2 DEF Acc
<1> HIDE DEF base
<1>7. Is(done)
  <2>1. ASSUME NEW T \in SUBSET D PROVE done[T] = Body(done, T)
    <3>1. CASE T = {}
      BY <1>6, <3>1
    <3>2. CASE T # {}
      <4>1. T \ {Max(T)} \in SUBSET D
        BY <1>5, <3>2
      <4>2. done[T \ {Max(T)}] = Acc(l, gen, Part(T \ {Max(T)})) /\ done[T] = Acc(l, gen, Part(T))
        BY <4>1
      <4> HIDE DEF done, Part
      <4> QED BY <1>5, <3>2, <4>2
    <3> QED BY <3>1, <3>2
  <2>2. done = [T \in SUBSET D |-> done[T]]
    OBVIOUS
  <2> HIDE DEF done, Body
  <2> QED BY <2>1, <2>2
<1>8. Is(it)
  <2> HIDE DEF Is, done
  <2> QED BY <1>7
<1> HIDE DEF it
<1>9. \A T \in SUBSET D : it[T] = Body(it, T)
  <2> HIDE DEF Body
  <2> QED BY <1>8
<1> DEFINE G == {T \in SUBSET D : it[T] = Acc(l, gen, Part(T))}
<1>10. {} \in G
  BY <1>6, <1>9
<1>11. ASSUME NEW T \in SUBSET D, T # {}, \A x \in T : T \ {x} \in G PROVE T \in G
  <2>1. it[T] = Applied(l, gen, it[T \ {Max(T)}], seq[Max(T)])
    BY <1>9, <1>11
  <2>2. it[T \ {Max(T)}] = Acc(l, gen, Part(T \ {Max(T)}))
    <3>1. Max(T) \in T
      BY <1>5, <1>11
    <3> HIDE DEF Part
    <3> QED BY <1>11, <3>1
  <2> HIDE DEF Part
  <2> QED BY <1>5, <1>11, <2>1, <2>2
<1>12. D \in G
  <2> HIDE DEF G
  <2> QED BY <1>4, <1>10, <1>11, FiniteDescent
<1>13. Part(D) = DOMAIN l
  BY <1>2
<1> QED BY <1>3, <1>12, <1>13

(* The log a replay leaves: the same events, with the ids of the new facts. *)
LEMMA ReplayKeeps ==
  ASSUME NEW l, NEW last \in Nat, NEW old, LogOrder(l, last, old), NEW gen \in 0 .. MaxRebuilds,
         last \in 0 .. MaxEvents
  PROVE  /\ Replayed(l, gen).facts = FactsOf(l)
         /\ LogOrder(Replayed(l, gen).log, last, gen)
         /\ FactsOf(Replayed(l, gen).log) = FactsOf(l)
<1> DEFINE D == DOMAIN l
           k == Replayed(l, gen).log
<1>0. D \subseteq Nat /\ 0 \notin D /\ Derivable(l) \subseteq D /\ D \subseteq 1 .. last /\ l \in [D -> Event]
  BY DEF LogOrder, LogTyped, Derivable
<1>1. Replayed(l, gen) = Acc(l, gen, D)
  BY ReplayedIs
<1>2. Replayed(l, gen).facts = [d \in Derivable(l) |-> StateIn(l, D, d)] /\ k = [e \in D |-> Redone(l, gen, D, e)]
  <2>1. [e \in D |-> IF e \in D THEN Redone(l, gen, D, e) ELSE l[e]] = [e \in D |-> Redone(l, gen, D, e)]
    OBVIOUS
  <2> QED BY <1>1, <2>1 DEF Acc
<1>3. \A d : CorrectedIn(l, D, d) <=> Corrected(l, d)
  BY DEF CorrectedIn, Corrected
<1>4. \A d \in D : RetractedIn(l, D, d) <=> l[d].retractedBy # 0
  BY <1>0 DEF RetractedIn, LogOrder, Retractions
<1>5. Replayed(l, gen).facts = FactsOf(l)
  <2>1. \A d \in Derivable(l) : StateIn(l, D, d) = StateOf(l, d)
    BY <1>0, <1>3, <1>4 DEF StateIn, StateOf
  <2> HIDE DEF D
  <2> QED BY <1>2, <2>1 DEF FactsOf
<1> HIDE DEF k
<1>6. ASSUME NEW e \in D
      PROVE  /\ k[e] \in Event /\ k[e].kind = l[e].kind /\ k[e].retracts = l[e].retracts /\ k[e].retractedBy = l[e].retractedBy
             /\ Derives(k[e]) = Derives(l[e])
             /\ (k[e].memory # NoFact <=> l[e].memory # NoFact) /\ k[e].memory[1] = l[e].memory[1]
             /\ k[e].withdrawn = IF l[e].retracts = 0 THEN l[e].withdrawn
                                 ELSE IF l[e].retracts \in Derivable(l) /\ ~Corrected(l, l[e].retracts)
                                 THEN {<<l[e].retracts, gen>>} ELSE {}
  <2>0. l[e] \in Event /\ k[e] = Redone(l, gen, D, e)
    BY <1>0, <1>2
  <2>1. CASE l[e].retracts # 0
    <3> DEFINE w == IF l[e].retracts \in Derivable(l) /\ ~Corrected(l, l[e].retracts) THEN {<<l[e].retracts, gen>>} ELSE {}
    <3>1. k[e] = [l[e] EXCEPT !.withdrawn = w]
      BY <1>3, <2>0, <2>1 DEF Redone
    <3>2. w \in SUBSET ((0 .. MaxEvents) \X (0 .. MaxRebuilds))
      BY <2>0, EventFields
    <3>3. k[e].withdrawn = w /\ k[e] \in Event /\ k[e].kind = l[e].kind /\ k[e].retracts = l[e].retracts /\ k[e].retractedBy = l[e].retractedBy
          /\ k[e].memory = l[e].memory /\ k[e].skipped = l[e].skipped /\ k[e].status = l[e].status
      <4> HIDE DEF w
      <4> QED BY <2>0, <3>1, <3>2 DEF Event
    <3>4. Derives(k[e]) = Derives(l[e])
      BY <3>3 DEF Derives
    <3> QED BY <2>1, <3>3, <3>4
  <2>2. CASE l[e].retracts = 0 /\ l[e].memory # NoFact /\ l[e].memory[1] \in Derivable(l)
    <3> DEFINE w == <<l[e].memory[1], gen>>
    <3>1. k[e] = [l[e] EXCEPT !.memory = w]
      BY <2>0, <2>2 DEF Redone
    <3>2. w \in (0 .. MaxEvents) \X (0 .. MaxRebuilds)
      BY <2>0, EventFields
    <3>3. w # NoFact /\ w[1] = l[e].memory[1]
      BY <1>0, <2>2 DEF NoFact
    <3>4. k[e].withdrawn = l[e].withdrawn /\ k[e] \in Event /\ k[e].kind = l[e].kind /\ k[e].retracts = l[e].retracts /\ k[e].retractedBy = l[e].retractedBy
          /\ k[e].memory = w /\ k[e].skipped = l[e].skipped /\ k[e].status = l[e].status
      <4> HIDE DEF w
      <4> QED BY <2>0, <3>1, <3>2 DEF Event
    <3>5. Derives(k[e]) = Derives(l[e])
      BY <3>4 DEF Derives
    <3> HIDE DEF w
    <3> QED BY <2>2, <3>3, <3>4, <3>5
  <2>3. CASE l[e].retracts = 0 /\ ~(l[e].memory # NoFact /\ l[e].memory[1] \in Derivable(l))
    <3>1. k[e] = l[e]
      BY <2>0, <2>3 DEF Redone
    <3> QED BY <2>0, <2>3, <3>1
  <2> QED BY <2>1, <2>2, <2>3
<1>7. DOMAIN k = D /\ k \in [D -> Event]
  BY <1>2, <1>6
<1>8. \A e \in D : \A d : Corrects(k, e, d) <=> Corrects(l, e, d)
  BY <1>6 DEF Corrects
<1>9. \A d : Corrected(k, d) <=> Corrected(l, d)
  BY <1>7, <1>8 DEF Corrected
<1>10. Derivable(k) = Derivable(l)
  BY <1>6, <1>7, DerivableIs
<1>11. Retractions(k)
  <2> HIDE DEF D
  <2>1. \A e \in D : k[e].kind = l[e].kind /\ k[e].retracts = l[e].retracts /\ k[e].retractedBy = l[e].retractedBy
    BY <1>6
  <2> QED BY <1>7, <1>10, <2>1 DEF LogOrder, Retractions, D
<1>12. Corrections(k)
  <2> HIDE DEF D
  <2>1. \A e \in D : /\ k[e].kind = l[e].kind /\ k[e].retracts = l[e].retracts
                    /\ (k[e].memory # NoFact <=> l[e].memory # NoFact) /\ k[e].memory[1] = l[e].memory[1]
    BY <1>6
  <2>2. \A e \in D : k[e].memory # NoFact => k[e].kind = "governance" /\ 0 < k[e].memory[1] /\ k[e].memory[1] < e
    BY <2>1 DEF LogOrder, Corrections, D
  <2>3. \A e, c, d \in D : Corrects(k, e, d) /\ Corrects(k, c, d) => e = c
    BY <1>8 DEF LogOrder, Corrections, D
  <2>4. \A e, d \in D : Corrects(k, e, d) => d \in Derivable(k)
    BY <1>8, <1>10 DEF LogOrder, Corrections, D
  <2>5. \A e, d, r \in D : Corrects(k, e, d) /\ k[r].retracts = d => e < r
    BY <1>8, <2>1 DEF LogOrder, Corrections, D
  <2> QED BY <1>7, <2>2, <2>3, <2>4, <2>5 DEF Corrections
<1>13. Withdrawals(k, gen)
  <2>1. ASSUME NEW e \in D PROVE k[e].withdrawn \in {{}, {<<k[e].retracts, gen>>}} /\ (k[e].retracts = 0 => k[e].withdrawn = {})
    <3>1. l[e].retracts = 0 => l[e].withdrawn = {}
      BY DEF LogOrder, Withdrawals
    <3> QED BY <1>6, <3>1
  <2>2. ASSUME NEW e \in D, NEW t \in D, k[e].retracts = t PROVE k[e].withdrawn = {} <=> Corrected(k, t)
    <3>1. l[e].retracts = t /\ t # 0
      BY <1>0, <1>6, <2>2
    <3>2. t \in Derivable(l)
      BY <3>1 DEF LogOrder, Retractions
    <3>3. k[e].withdrawn = IF ~Corrected(l, t) THEN {<<t, gen>>} ELSE {}
      BY <1>6, <3>1, <3>2
    <3>4. {<<t, gen>>} # {}
      OBVIOUS
    <3> QED BY <1>9, <3>3, <3>4
  <2> QED BY <1>7, <2>1, <2>2 DEF Withdrawals
<1>14. LogOrder(k, last, gen)
  BY <1>0, <1>7, <1>11, <1>12, <1>13 DEF LogOrder, LogTyped
<1>15. FactsOf(k) = FactsOf(l)
  <2>1. \A d \in Derivable(l) : StateOf(k, d) = StateOf(l, d)
    BY <1>0, <1>6, <1>9 DEF StateOf
  <2> QED BY <1>10, <2>1 DEF FactsOf
<1> QED BY <1>5, <1>14, <1>15 DEF k

LEMMA RebuildKeeps ==
  ASSUME MemoryInv, Rebuild
  PROVE  MemoryInv'
<1> DEFINE n == lastId + 1
           gen == builds + 1
           r == Replayed(log, gen)
           v == Plain("governance", "system")
           k == Added(r.log, n, v)
<1>1. /\ lastId \in Nat /\ n \in 0 .. MaxEvents /\ lastId' = n /\ builds' = gen /\ log' = k /\ facts' = r.facts
      /\ LogOrder(log, lastId, builds) /\ facts = FactsOf(log) /\ gen \in 0 .. MaxRebuilds /\ lastId \in 0 .. MaxEvents
  BY StoreAssumption DEF MemoryInv, Rebuild, Done, NextId, InsertedId
<1> HIDE DEF gen, n
<1>2. r.facts = FactsOf(log) /\ LogOrder(r.log, lastId, gen) /\ FactsOf(r.log) = FactsOf(log)
  <2> HIDE DEF r
  <2> QED BY <1>1, ReplayKeeps DEF r
<1> HIDE DEF r
<1>3. v \in Event /\ v.retracts = 0 /\ v.retractedBy = 0 /\ v.withdrawn = {} /\ v.memory = NoFact /\ ~Derives(v)
  BY PlainEvent DEF Derives
<1> HIDE DEF v
<1>4. r.log \in [DOMAIN r.log -> Event]
  BY <1>2 DEF LogOrder, LogTyped
<1>5. LogOrder(k, n, gen) /\ FactsOf(k) = FactsOf(r.log)
  <2>1. /\ LogOrder(k, n, gen)
        /\ Derivable(k) = Derivable(r.log) \cup (IF Derives(v) THEN {n} ELSE {})
        /\ FactsOf(k) = [d \in Derivable(k) |-> IF d \in Derivable(r.log) THEN FactsOf(r.log)[d] ELSE "valid"]
    <3> USE DEF n
    <3> QED BY <1>1, <1>2, <1>3, <1>4, UnmovedSame, FactsGrow
  <2>2. Derivable(k) = Derivable(r.log)
    BY <1>3, <2>1
  <2> QED BY <2>1, <2>2 DEF FactsOf
<1> HIDE DEF k
<1>6. (LogOrder(log, lastId, builds))' /\ (facts = FactsOf(log))'
  BY <1>1, <1>2, <1>5
<1> QED BY <1>1, <1>6 DEF MemoryInv

LEMMA StoreInitHolds == StoreInit => MemoryInv
<1> SUFFICES ASSUME StoreInit PROVE MemoryInv
  OBVIOUS
<1>1. log = <<>> /\ facts = <<>> /\ lastId = 0 /\ builds = 0
  BY DEF StoreInit
<1>2. DOMAIN log = {} /\ log \in [DOMAIN log -> Event]
  BY <1>1
<1>3. Derivable(log) = {}
  BY <1>2 DEF Derivable
<1>4. facts = FactsOf(log)
  BY <1>1, <1>3 DEF FactsOf
<1>5. LogOrder(log, lastId, builds)
  BY <1>1, <1>2 DEF LogOrder, LogTyped, Retractions, Corrections, Withdrawals
<1> QED BY <1>1, <1>4, <1>5, StoreAssumption DEF MemoryInv

LEMMA StoreStep == MemoryInv /\ [StoreNext]_storeVars => MemoryInv'
<1> SUFFICES ASSUME MemoryInv, [StoreNext]_storeVars PROVE MemoryInv'
  OBVIOUS
<1>1. ASSUME NEW actor \in {"user", "assistant"}, NEW text \in {"lasting", "filler", "retraction"}, Remember(actor, text)
      PROVE  MemoryInv'
  BY <1>1, RememberKeeps
<1>2. CASE Retract
  BY <1>2, RetractKeeps
<1>3. ASSUME NEW status \in {"candidate", "approved"}, AssertFact(status) PROVE MemoryInv'
  BY <1>3, AssertKeeps
<1>4. ASSUME NEW e \in Targets, Approve(e) \/ Reject(e) \/ Wrong(e) \/ Forget(e) \/ ForgetRaises(e) PROVE MemoryInv'
  <2>0. e \in DOMAIN log
    BY DEF Targets
  <2>1. CASE Approve(e) \/ Reject(e)
    BY <2>0, <2>1, ReviewKeeps
  <2>2. CASE Wrong(e)
    BY <2>0, <2>2, WrongKeeps
  <2>3. CASE Forget(e)
    BY <2>3, ForgetKeeps
  <2>4. CASE ForgetRaises(e)
    BY <2>4, ForgetRaisesKeeps
  <2> QED BY <1>4, <2>1, <2>2, <2>3, <2>4
<1>5. CASE Rebuild
  BY <1>5, RebuildKeeps
<1>6. CASE UNCHANGED storeVars
  BY <1>6 DEF storeVars, MemoryInv
<1> QED BY <1>1, <1>2, <1>3, <1>4, <1>5, <1>6 DEF StoreNext

LEMMA StoreInvariant == StoreSpec => []MemoryInv
BY StoreInitHolds, StoreStep, PTL DEF StoreSpec

(***************************************************************************)
(* What an action tells.                                                   *)
(***************************************************************************)
LEMMA FreshIs ==
  ASSUME MemoryInv, NEW m, NEW v, DOMAIN m \subseteq DOMAIN log
  PROVE  Fresh(log, Added(m, lastId + 1, v)) = {lastId + 1}
<1> DEFINE n == lastId + 1
<1>1. /\ IsFiniteSet(DOMAIN log) /\ DOMAIN log \subseteq Nat /\ n \notin DOMAIN log /\ lastId \in Nat /\ DOMAIN log \subseteq 1 .. lastId
  BY DomainOfLog
<1>2. Latest(DOMAIN log) < n
  <2>1. CASE DOMAIN log = {}
    <3>1. Latest(DOMAIN log) = 0
      BY <1>1, <2>1, LatestIs
    <3> QED BY <1>1, <3>1
  <2>2. CASE DOMAIN log # {}
    <3>1. Latest(DOMAIN log) \in DOMAIN log
      BY <1>1, <2>2, LatestIs
    <3> QED BY <1>1, <3>1
  <2> QED BY <2>1, <2>2
<1>3. DOMAIN Added(m, n, v) = DOMAIN m \cup {n}
  BY DEF Added
<1> HIDE DEF n
<1>4. Fresh(log, Added(m, n, v)) = {n}
  BY <1>1, <1>2, <1>3 DEF Fresh
<1> QED BY <1>4 DEF n

LEMMA ReplayDomain ==
  ASSUME MemoryInv, NEW gen
  PROVE  DOMAIN Replayed(log, gen).log = DOMAIN log
<1>1. Replayed(log, gen) = Acc(log, gen, DOMAIN log)
  BY ReplayedIs, DomainOfLog DEF MemoryInv
<1> QED BY <1>1 DEF Acc

LEMMA ToldIsExact ==
  ASSUME MemoryInv, StoreNext, told'.action # "error"
  PROVE  told'.new # {} /\ told'.new = lastId + 1 .. lastId'
<1>0. lastId \in Nat
  BY DomainOfLog
<1> SUFFICES \E m, v : DOMAIN m \subseteq DOMAIN log /\ log' = Added(m, lastId + 1, v) /\ lastId' = lastId + 1
                      /\ told'.new = Fresh(log, log')
  <2>1. told'.new = {lastId + 1} /\ lastId' = lastId + 1
    BY FreshIs
  <2> QED BY <1>0, <2>1
<1>00. \A action, log1, lost, verdict : Done(action, log1, lost, verdict) =>
          log' = log1 /\ told'.new = Fresh(log, log1) /\ told'.action = action
  BY DEF Done
<1>1. ASSUME NEW actor \in {"user", "assistant"}, NEW text \in {"lasting", "filler", "retraction"}, Remember(actor, text)
      PROVE  \E m, v : DOMAIN m \subseteq DOMAIN log /\ log' = Added(m, lastId + 1, v) /\ lastId' = lastId + 1 /\ told'.new = Fresh(log, log')
  BY <1>00, <1>1 DEF Remember, NextId, InsertedId
<1>2. CASE Retract
  <2> DEFINE t == Latest({e \in DOMAIN log : /\ log[e].kind = "message" /\ log[e].actor = "user"
                                           /\ log[e].retractedBy = 0 /\ ~log[e].skipped})
             hit == IF Live(t, facts) THEN {<<t, builds>>} ELSE {}
             v == [Plain("retraction", "user") EXCEPT !.retracts = t, !.withdrawn = hit]
             m == IF t = 0 THEN log ELSE [log EXCEPT ![t].retractedBy = lastId + 1]
  <2>1. Done("remember", Added(m, lastId + 1, v), {}, "not_checked") /\ lastId' = lastId + 1
    BY <1>2 DEF Retract, NextId, InsertedId
  <2>2. DOMAIN m = DOMAIN log
    OBVIOUS
  <2> HIDE DEF m, v
  <2> QED BY <1>00, <2>1, <2>2
<1>3. ASSUME NEW status \in {"candidate", "approved"}, AssertFact(status)
      PROVE  \E m, v : DOMAIN m \subseteq DOMAIN log /\ log' = Added(m, lastId + 1, v) /\ lastId' = lastId + 1 /\ told'.new = Fresh(log, log')
  BY <1>00, <1>3 DEF AssertFact, NextId, InsertedId
<1>4. ASSUME NEW e \in Targets, Approve(e) \/ Reject(e) \/ Wrong(e) \/ Forget(e) \/ ForgetRaises(e)
      PROVE  \E m, v : DOMAIN m \subseteq DOMAIN log /\ log' = Added(m, lastId + 1, v) /\ lastId' = lastId + 1 /\ told'.new = Fresh(log, log')
  <2>1. CASE Approve(e)
    <3>1. DOMAIN [log EXCEPT ![e].status = "approved"] = DOMAIN log
      OBVIOUS
    <3> QED BY <1>00, <2>1, <3>1 DEF Approve, NextId, InsertedId
  <2>2. CASE Reject(e)
    <3>1. DOMAIN [log EXCEPT ![e].status = "rejected"] = DOMAIN log
      OBVIOUS
    <3> QED BY <1>00, <2>2, <3>1 DEF Reject, NextId, InsertedId
  <2>3. CASE Wrong(e)
    BY <1>00, <2>3 DEF Wrong, NextId, InsertedId
  <2>4. CASE Forget(e)
    <3> DEFINE t == log[e].retracts
               freed == IF t = 0 THEN log ELSE [log EXCEPT ![t].retractedBy = 0]
               kept == Restrict(freed, DOMAIN log \ {e})
    <3>1. Done("forget", Added(kept, lastId + 1, Plain("governance", "user")), {}, "none") /\ lastId' = lastId + 1
      BY <2>4 DEF Forget, InsertedId
    <3>2. DOMAIN kept \subseteq DOMAIN log
      BY DEF Restrict
    <3> HIDE DEF kept
    <3> QED BY <1>00, <3>1, <3>2
  <2>5. CASE ForgetRaises(e)
    <3>1. told'.action = "error"
      BY <1>00, <2>5 DEF ForgetRaises
    <3> QED BY <3>1
  <2> QED BY <1>4, <2>1, <2>2, <2>3, <2>4, <2>5
<1>5. CASE Rebuild
  <2>1. DOMAIN Replayed(log, builds + 1).log = DOMAIN log
    BY ReplayDomain
  <2> QED BY <1>00, <1>5, <2>1 DEF Rebuild, NextId, InsertedId
<1> QED BY <1>1, <1>2, <1>3, <1>4, <1>5 DEF StoreNext

(* An action that succeeds reports the event it appended and no other, whatever was *)
(* forgotten before it.                                                             *)
THEOREM ReportsAreExact == StoreSpec => ProvenanceIsExact
<1>1. MemoryInv /\ [StoreNext]_storeVars =>
        [told'.action \notin {"none", "error"} => told'.new # {} /\ told'.new = lastId + 1 .. lastId']_storeVars
  BY ToldIsExact
<1> QED BY <1>1, StoreInvariant, PTL DEF StoreSpec, ProvenanceIsExact

(***************************************************************************)
(* Reading page by page.                                                   *)
(***************************************************************************)
RestOf(s, o) == SubSeq(s, o + 1, Len(s))
PageOf(s, o) == SubSeq(s, o + 1, IF o + PageSize < Len(s) THEN o + PageSize ELSE Len(s))

LEMMA SeqEqual ==
  ASSUME NEW E, NEW a \in Seq(E), NEW b \in Seq(E), Len(a) = Len(b), \A i \in 1 .. Len(a) : a[i] = b[i]
  PROVE  a = b
  OBVIOUS

LEMMA ConcatIs ==
  ASSUME NEW E, NEW p \in Seq(E), NEW r \in Seq(E)
  PROVE  /\ p \o r \in Seq(E) /\ Len(p \o r) = Len(p) + Len(r)
         /\ \A i \in 1 .. Len(p) : (p \o r)[i] = p[i]
         /\ \A i \in 1 .. Len(r) : (p \o r)[Len(p) + i] = r[i]
  OBVIOUS

LEMMA SlicesOf ==
  ASSUME NEW E, NEW s \in Seq(E), NEW o \in Nat, NEW b \in Nat, b <= Len(s)
  PROVE  /\ SubSeq(s, o + 1, b) \in Seq(E) /\ Len(SubSeq(s, o + 1, b)) = IF o < b THEN b - o ELSE 0
         /\ DOMAIN SubSeq(s, o + 1, b) = 1 .. (IF o < b THEN b - o ELSE 0)
         /\ \A i \in 1 .. b - o : SubSeq(s, o + 1, b)[i] = s[i + o]
<1>1. SubSeq(s, o + 1, b) = [i \in 1 .. (IF o < b THEN b - o ELSE 0) |-> s[i + o]]
  <2>1. Len(s) \in Nat
    OBVIOUS
  <2>2. CASE o < b
    BY <2>1, <2>2
  <2>3. CASE ~(o < b)
    BY <2>1, <2>3
  <2> QED BY <2>2, <2>3
<1>2. \A i \in 1 .. (IF o < b THEN b - o ELSE 0) : i + o \in 1 .. Len(s) /\ s[i + o] \in E
  OBVIOUS
<1> HIDE DEF RestOf
<1>3. (IF o < b THEN b - o ELSE 0) \in Nat
  OBVIOUS
<1> DEFINE t == SubSeq(s, o + 1, b)
           n == IF o < b THEN b - o ELSE 0
<1>4. t = [i \in 1 .. n |-> s[i + o]]
  BY <1>1
<1> HIDE DEF t
<1>5. t \in [1 .. n -> E]
  BY <1>2, <1>4
<1>6. \A i \in 1 .. b - o : i \in 1 .. n
  OBVIOUS
<1>7. \A i \in 1 .. n : t[i] = s[i + o]
  BY <1>4
<1> HIDE DEF n
<1>8. t \in Seq(E) /\ Len(t) = n /\ DOMAIN t = 1 .. n
  BY <1>3, <1>5 DEF n
<1> QED BY <1>6, <1>7, <1>8 DEF t, n

LEMMA PagesJoin ==
  ASSUME NEW E, NEW s \in Seq(E), NEW o \in Nat
  PROVE  IF o + PageSize <= Len(s)
         THEN Len(PageOf(s, o)) = PageSize /\ PageOf(s, o) \o RestOf(s, o + PageSize) = RestOf(s, o)
         ELSE Len(PageOf(s, o)) < PageSize /\ PageOf(s, o) = RestOf(s, o)
<1>0. PageSize \in Nat /\ PageSize > 0 /\ Len(s) \in Nat
  BY StoreAssumption
<1>1. CASE o + PageSize <= Len(s)
  <2> DEFINE p == PageOf(s, o)
             r == RestOf(s, o + PageSize)
             w == RestOf(s, o)
  <2>0. p = SubSeq(s, o + 1, o + PageSize)
    <3>1. (IF o + PageSize < Len(s) THEN o + PageSize ELSE Len(s)) = o + PageSize
      BY <1>0, <1>1
    <3> QED BY <3>1 DEF PageOf
  <2>1. p \in Seq(E) /\ Len(p) = PageSize /\ \A i \in 1 .. PageSize : p[i] = s[i + o]
    <3> DEFINE q == o + PageSize
    <3>1. q \in Nat /\ q <= Len(s) /\ (IF o < q THEN q - o ELSE 0) = PageSize /\ q - o = PageSize
      BY <1>0, <1>1
    <3>2. p = SubSeq(s, o + 1, q)
      BY <2>0
    <3> HIDE DEF p, q
    <3>3. p \in Seq(E) /\ Len(p) = (IF o < q THEN q - o ELSE 0) /\ \A i \in 1 .. q - o : p[i] = s[i + o]
      BY <3>1, <3>2, SlicesOf
    <3> QED BY <3>1, <3>3
  <2>2. r \in Seq(E) /\ Len(r) = Len(s) - (o + PageSize) /\ \A i \in 1 .. Len(r) : r[i] = s[i + (o + PageSize)]
    <3> DEFINE q == o + PageSize
    <3>1. q \in Nat /\ Len(s) <= Len(s) /\ (IF q < Len(s) THEN Len(s) - q ELSE 0) = Len(s) - q
      BY <1>0, <1>1
    <3>2. r = SubSeq(s, q + 1, Len(s))
      BY DEF RestOf
    <3> HIDE DEF q, r
    <3>3. r \in Seq(E) /\ Len(r) = Len(s) - q /\ \A i \in 1 .. Len(s) - q : r[i] = s[i + q]
      BY <1>0, <3>1, <3>2, SlicesOf
    <3> QED BY <3>3 DEF q
  <2>3. w \in Seq(E) /\ Len(w) = Len(s) - o /\ \A i \in 1 .. Len(w) : w[i] = s[i + o]
    <3>1. Len(s) <= Len(s) /\ (IF o < Len(s) THEN Len(s) - o ELSE 0) = Len(s) - o
      BY <1>0, <1>1
    <3>2. w = SubSeq(s, o + 1, Len(s))
      BY DEF RestOf
    <3> HIDE DEF w
    <3> QED BY <1>0, <3>1, <3>2, SlicesOf
  <2> HIDE DEF p, r, w
  <2>4. /\ p \o r \in Seq(E) /\ Len(p \o r) = PageSize + Len(r)
        /\ \A i \in 1 .. PageSize : (p \o r)[i] = p[i]
        /\ \A i \in 1 .. Len(r) : (p \o r)[PageSize + i] = r[i]
    <3>1. p \in Seq(E) /\ r \in Seq(E)
      BY <2>1, <2>2
    <3>2. /\ p \o r \in Seq(E) /\ Len(p \o r) = Len(p) + Len(r)
          /\ \A i \in 1 .. Len(p) : (p \o r)[i] = p[i]
          /\ \A i \in 1 .. Len(r) : (p \o r)[Len(p) + i] = r[i]
      BY <3>1, ConcatIs
    <3>3. Len(p) = PageSize
      BY <2>1
    <3> QED BY <3>2, <3>3, Zenon
  <2>5. ASSUME NEW i \in 1 .. Len(w) PROVE (p \o r)[i] = w[i]
    <3>0. Len(w) = Len(s) - o /\ Len(r) = Len(s) - (o + PageSize) /\ i \in Nat
      BY <2>2, <2>3
    <3>1. CASE i <= PageSize
      <4>1. i \in 1 .. PageSize
        BY <3>1
      <4> QED BY <2>1, <2>3, <2>4, <4>1
    <3>2. CASE ~(i <= PageSize)
      <4> DEFINE j == i - PageSize
      <4>1. j \in 1 .. Len(r) /\ j + (o + PageSize) = i + o /\ PageSize + j = i
        BY <1>0, <1>1, <3>0, <3>2
      <4> HIDE DEF j
      <4>2. r[j] = s[i + o]
        BY <2>2, <4>1
      <4>3. (p \o r)[i] = r[j]
        BY <2>4, <4>1
      <4> QED BY <2>3, <4>2, <4>3
    <3> QED BY <3>1, <3>2
  <2>6. p \o r = w
    <3> DEFINE x == p \o r
    <3>0. Len(w) = PageSize + Len(r)
      BY <1>0, <1>1, <2>2, <2>3
    <3>1. x \in Seq(E) /\ Len(x) = Len(w) /\ \A i \in 1 .. Len(x) : x[i] = w[i]
      BY <2>4, <2>5, <3>0
    <3> HIDE DEF x
    <3>2. x = w
      BY <2>3, <3>1, SeqEqual
    <3> QED BY <3>2 DEF x
  <2> QED BY <1>1, <2>1, <2>6 DEF p, r, w
<1>2. CASE ~(o + PageSize <= Len(s))
  <2>1. PageOf(s, o) = RestOf(s, o)
    <3>1. ~(o + PageSize < Len(s))
      BY <1>0, <1>2
    <3> QED BY <3>1 DEF PageOf, RestOf
  <2>2. Len(RestOf(s, o)) = IF o < Len(s) THEN Len(s) - o ELSE 0
    <3>1. Len(s) <= Len(s)
      BY <1>0
    <3> QED BY <1>0, <3>1, SlicesOf DEF RestOf
  <2>3. (IF o < Len(s) THEN Len(s) - o ELSE 0) < PageSize
    BY <1>0, <1>2
  <2> QED BY <1>2, <2>1, <2>2, <2>3
<1> QED BY <1>1, <1>2

LEMMA AllUnitsIs ==
  ASSUME NEW state, NEW E, Units(state) \in Seq(E), Len(Units(state)) <= MaxEvents
  PROVE  AllUnits(state) = Units(state)
<1> DEFINE u == Units(state)
           O == 0 .. MaxEvents + PageSize
           Body(f, o) == LET chunk == ListUnits(state, o) IN IF Len(chunk) < PageSize THEN chunk ELSE chunk \o f[o + Len(chunk)]
           from == CHOOSE f : f = [o \in O |-> Body(f, o)]
           rest == [o \in O |-> RestOf(u, o)]
<1>0. PageSize \in Nat /\ PageSize > 0 /\ Len(u) \in Nat /\ MaxEvents \in Nat /\ u \in Seq(E) /\ Len(u) <= MaxEvents
  BY StoreAssumption
<1>1. AllUnits(state) = from[0]
  BY DEF AllUnits
<1>2. \A o : ListUnits(state, o) = PageOf(u, o)
  BY DEF ListUnits, PageOf
<1> HIDE DEF u
<1>3. ASSUME NEW o \in O
      PROVE  IF o + PageSize <= Len(u)
             THEN /\ Len(PageOf(u, o)) = PageSize /\ PageOf(u, o) \o RestOf(u, o + PageSize) = RestOf(u, o)
                  /\ o + PageSize \in O
             ELSE Len(PageOf(u, o)) < PageSize /\ PageOf(u, o) = RestOf(u, o)
  <2>1. o \in Nat /\ (o + PageSize <= Len(u) => o + PageSize \in O)
    BY <1>0
  <2> QED BY <1>0, <2>1, PagesJoin
<1>4. ASSUME NEW f, NEW o \in O
      PROVE  Body(f, o) = IF o + PageSize <= Len(u) THEN PageOf(u, o) \o f[o + PageSize] ELSE RestOf(u, o)
  <2>1. CASE o + PageSize <= Len(u)
    <3>1. Len(PageOf(u, o)) = PageSize /\ ~(PageSize < PageSize)
      BY <1>0, <1>3, <2>1
    <3> HIDE DEF O
    <3> QED BY <1>2, <2>1, <3>1
  <2>2. CASE ~(o + PageSize <= Len(u))
    <3>1. Len(PageOf(u, o)) < PageSize /\ PageOf(u, o) = RestOf(u, o)
      BY <1>3, <2>2
    <3> HIDE DEF O
    <3> QED BY <1>2, <2>2, <3>1
  <2> QED BY <2>1, <2>2
<1> HIDE DEF Body
<1>5. rest = [o \in O |-> Body(rest, o)]
  <2>1. ASSUME NEW o \in O PROVE RestOf(u, o) = Body(rest, o)
    <3>1. CASE o + PageSize <= Len(u)
      <4>1. o + PageSize \in O /\ PageOf(u, o) \o RestOf(u, o + PageSize) = RestOf(u, o)
        BY <1>3, <3>1
      <4>2. rest[o + PageSize] = RestOf(u, o + PageSize)
        BY <4>1
      <4> HIDE DEF rest, O
      <4> QED BY <1>4, <3>1, <4>1, <4>2
    <3>2. CASE ~(o + PageSize <= Len(u))
      BY <1>4, <3>2
    <3> QED BY <3>1, <3>2
  <2> HIDE DEF O
  <2> QED BY <2>1
<1>6. from = [o \in O |-> Body(from, o)]
  <2> HIDE DEF rest, O
  <2> QED BY <1>5
<1> HIDE DEF from
<1> DEFINE N == {n \in Nat : \A o \in O : Len(u) <= o + n => from[o] = RestOf(u, o)}
<1>7. \A o \in O : from[o] = Body(from, o)
  <2> HIDE DEF O
  <2> QED BY <1>6
<1>8. 0 \in N
  <2> SUFFICES ASSUME NEW o \in O, Len(u) <= o + 0 PROVE from[o] = RestOf(u, o)
    OBVIOUS
  <2>1. ~(o + PageSize <= Len(u))
    BY <1>0
  <2> QED BY <1>4, <1>7, <2>1
<1>9. ASSUME NEW n \in Nat, n \in N PROVE n + 1 \in N
  <2> SUFFICES ASSUME NEW o \in O, Len(u) <= o + (n + 1) PROVE from[o] = RestOf(u, o)
    OBVIOUS
  <2>1. CASE o + PageSize <= Len(u)
    <3>1. o + PageSize \in O /\ PageOf(u, o) \o RestOf(u, o + PageSize) = RestOf(u, o)
      BY <1>3, <2>1
    <3>2. Len(u) <= (o + PageSize) + n
      BY <1>0
    <3>3. from[o + PageSize] = RestOf(u, o + PageSize)
      BY <1>9, <3>1, <3>2
    <3> HIDE DEF O
    <3> QED BY <1>4, <1>7, <2>1, <3>1, <3>3
  <2>2. CASE ~(o + PageSize <= Len(u))
    BY <1>4, <1>7, <2>2
  <2> QED BY <2>1, <2>2
<1>10. Nat \subseteq N
  <2> HIDE DEF N
  <2> QED BY <1>8, <1>9, NatSet
<1>11. from[0] = RestOf(u, 0)
  <2>1. 0 \in O /\ Len(u) <= 0 + Len(u)
    BY <1>0
  <2>2. Len(u) \in N
    <3> HIDE DEF N
    <3> QED BY <1>0, <1>10
  <2> QED BY <2>1, <2>2
<1>12. RestOf(u, 0) = u
  <2>1. Len(u) <= Len(u) /\ 0 \in Nat /\ (IF 0 < Len(u) THEN Len(u) - 0 ELSE 0) = Len(u) /\ Len(u) - 0 = Len(u)
    BY <1>0
  <2>2. RestOf(u, 0) = SubSeq(u, 0 + 1, Len(u))
    BY DEF RestOf
  <2>3. RestOf(u, 0) \in Seq(E) /\ Len(RestOf(u, 0)) = Len(u) /\ \A i \in 1 .. Len(u) : RestOf(u, 0)[i] = u[i + 0]
    BY <1>0, <2>1, <2>2, SlicesOf
  <2>4. \A i \in 1 .. Len(u) : i + 0 = i
    BY <1>0
  <2>5. \A i \in 1 .. Len(u) : RestOf(u, 0)[i] = u[i]
    BY <2>3, <2>4
  <2> DEFINE r == RestOf(u, 0)
  <2>6. r \in Seq(E) /\ Len(r) = Len(u) /\ \A i \in 1 .. Len(u) : r[i] = u[i]
    BY <2>3, <2>5
  <2> HIDE DEF r
  <2>7. r = u
    BY <1>0, <2>6
  <2> QED BY <2>7 DEF r
<1> QED BY <1>1, <1>11, <1>12 DEF u

LEMMA RangeOfConcat ==
  ASSUME NEW E, NEW p \in Seq(E), NEW r \in Seq(E)
  PROVE  Range(p \o r) = Range(p) \cup Range(r)
<1>1. /\ p \o r \in Seq(E) /\ Len(p \o r) = Len(p) + Len(r)
      /\ \A i \in 1 .. Len(p) : (p \o r)[i] = p[i]
      /\ \A i \in 1 .. Len(r) : (p \o r)[Len(p) + i] = r[i]
  BY ConcatIs
<1> DEFINE x == p \o r
<1>2. /\ DOMAIN x = 1 .. Len(p) + Len(r) /\ DOMAIN p = 1 .. Len(p) /\ DOMAIN r = 1 .. Len(r)
      /\ Len(p) \in Nat /\ Len(r) \in Nat
  BY <1>1
<1>3. /\ \A i \in 1 .. Len(p) : x[i] = p[i]
      /\ \A i \in 1 .. Len(r) : x[Len(p) + i] = r[i]
  BY <1>1
<1> HIDE DEF x
<1>4. ASSUME NEW i \in DOMAIN x PROVE x[i] \in Range(p) \cup Range(r)
  <2>1. CASE i <= Len(p)
    <3>1. i \in DOMAIN p /\ x[i] = p[i]
      BY <1>2, <1>3, <2>1
    <3> QED BY <3>1 DEF Range
  <2>2. CASE ~(i <= Len(p))
    <3> DEFINE j == i - Len(p)
    <3>1. j \in 1 .. Len(r) /\ Len(p) + j = i
      BY <1>2, <2>2
    <3> HIDE DEF j
    <3>2. j \in DOMAIN r /\ x[i] = r[j]
      BY <1>2, <1>3, <3>1
    <3> QED BY <3>2 DEF Range
  <2> QED BY <2>1, <2>2
<1>5. ASSUME NEW i \in DOMAIN p PROVE p[i] \in Range(x)
  <2>1. i \in DOMAIN x /\ x[i] = p[i]
    BY <1>2, <1>3
  <2> QED BY <2>1 DEF Range
<1>6. ASSUME NEW i \in DOMAIN r PROVE r[i] \in Range(x)
  <2>1. Len(p) + i \in DOMAIN x /\ x[Len(p) + i] = r[i]
    BY <1>2, <1>3
  <2> QED BY <2>1 DEF Range
<1> QED BY <1>4, <1>5, <1>6 DEF Range, x

LEMMA RangeOfOrder ==
  ASSUME NEW S, IsFiniteSet(S), S \subseteq Nat
  PROVE  Range(InOrder(S)) = S
<1> DEFINE q == InOrder(S)
           c == Cardinality(S)
<1>1. q \in Seq(S) /\ DOMAIN q = 1 .. c /\ \A e \in S : \E n \in 1 .. c : q[n] = e
  BY InOrderIs
<1> HIDE DEF q
<1>2. \A n \in DOMAIN q : q[n] \in S
  <2>1. DOMAIN q = 1 .. Len(q) /\ q \in [1 .. Len(q) -> S]
    BY <1>1
  <2> QED BY <2>1
<1> HIDE DEF c
<1> QED BY <1>1, <1>2 DEF Range, q

LEMMA UnitsAre ==
  ASSUME MemoryInv
  PROVE  LET valid == {d \in DOMAIN facts : facts[d] = "valid"}
             others == {d \in DOMAIN facts : facts[d] # "valid"}
         IN  /\ Range(Units("valid")) = valid
             /\ AllUnits("valid") \in Seq(Nat) /\ Range(AllUnits("valid")) = valid /\ Len(AllUnits("valid")) = Cardinality(valid)
             /\ AllUnits("invalidated") \in Seq(Nat) /\ Range(AllUnits("invalidated")) = others
             /\ Len(AllUnits("invalidated")) = Cardinality(others)
             /\ Cardinality(valid) + Cardinality(others) = Cardinality(DOMAIN facts)
<1> DEFINE valid == {d \in DOMAIN facts : facts[d] = "valid"}
           others == {d \in DOMAIN facts : facts[d] # "valid"}
<1>1. DOMAIN facts \subseteq 1 .. lastId /\ lastId \in 0 .. MaxEvents /\ MaxEvents \in Nat
  BY DomainOfLog, StoreAssumption DEF MemoryInv
<1>2. IsFiniteSet(1 .. lastId) /\ Cardinality(1 .. lastId) <= MaxEvents
  <2>1. 1 \in Int /\ lastId \in Int
    BY <1>1
  <2>2. IsFiniteSet(1 .. lastId) /\ Cardinality(1 .. lastId) = IF 1 > lastId THEN 0 ELSE lastId - 1 + 1
    BY <2>1, FS_Interval
  <2> QED BY <1>1, <2>2
<1>3. ASSUME NEW S \in SUBSET DOMAIN facts
      PROVE  IsFiniteSet(S) /\ S \subseteq Nat /\ InOrder(S) \in Seq(Nat) /\ Range(InOrder(S)) = S
             /\ Len(InOrder(S)) = Cardinality(S) /\ Cardinality(S) <= MaxEvents
  <2>1. S \subseteq 1 .. lastId /\ S \subseteq Nat
    BY <1>1
  <2>2. IsFiniteSet(S) /\ Cardinality(S) <= Cardinality(1 .. lastId)
    BY <1>2, <2>1, FS_Subset
  <2>3. Cardinality(S) \in Nat /\ Cardinality(1 .. lastId) \in Nat
    BY <1>2, <2>2, FS_CardinalityType
  <2>4. InOrder(S) \in Seq(S) /\ Len(InOrder(S)) = Cardinality(S) /\ Range(InOrder(S)) = S
    BY <2>1, <2>2, InOrderIs, RangeOfOrder
  <2>5. InOrder(S) \in Seq(Nat)
    BY <2>1, <2>4, SeqMonotone
  <2> QED BY <1>1, <1>2, <2>1, <2>2, <2>3, <2>4, <2>5
<1>4. Units("valid") = InOrder(valid) /\ Units("invalidated") = InOrder(others)
  <2>1. {d \in DOMAIN facts : (facts[d] = "valid") = ("valid" = "valid")} = valid
    OBVIOUS
  <2>2. {d \in DOMAIN facts : (facts[d] = "valid") = ("invalidated" = "valid")} = others
    OBVIOUS
  <2> QED BY <2>1, <2>2 DEF Units
<1>5. valid \in SUBSET DOMAIN facts /\ others \in SUBSET DOMAIN facts /\ valid \cap others = {} /\ valid \cup others = DOMAIN facts
  OBVIOUS
<1> HIDE DEF valid, others
<1>6. AllUnits("valid") = InOrder(valid) /\ AllUnits("invalidated") = InOrder(others)
  BY <1>3, <1>4, <1>5, AllUnitsIs
<1>7. Cardinality(valid) + Cardinality(others) = Cardinality(DOMAIN facts)
  <2>1. IsFiniteSet(valid) /\ IsFiniteSet(others)
    BY <1>3, <1>5
  <2>2. Cardinality(valid \cup others) = Cardinality(valid) + Cardinality(others) - Cardinality(valid \cap others)
    BY <2>1, FS_Union
  <2>3. Cardinality(valid \cap others) = 0
    BY <1>5, FS_EmptySet
  <2>4. Cardinality(valid) \in Nat /\ Cardinality(others) \in Nat
    BY <2>1, FS_CardinalityType
  <2> QED BY <1>5, <2>2, <2>3, <2>4
<1>8. /\ Range(Units("valid")) = valid
      /\ AllUnits("valid") \in Seq(Nat) /\ Range(AllUnits("valid")) = valid /\ Len(AllUnits("valid")) = Cardinality(valid)
      /\ AllUnits("invalidated") \in Seq(Nat) /\ Range(AllUnits("invalidated")) = others
      /\ Len(AllUnits("invalidated")) = Cardinality(others)
  BY <1>3, <1>4, <1>5, <1>6
<1> QED BY <1>7, <1>8 DEF valid, others

LEMMA MatchesHere == MemoryInv => StoreMatchesLog
<1> SUFFICES ASSUME MemoryInv PROVE StoreMatchesLog
  OBVIOUS
<1> DEFINE valid == {d \in DOMAIN facts : facts[d] = "valid"}
           others == {d \in DOMAIN facts : facts[d] # "valid"}
           av == AllUnits("valid")
           ai == AllUnits("invalidated")
<1>0. /\ Derivable(log) \subseteq DOMAIN log /\ DOMAIN facts = Derivable(log) /\ \A d \in Derivable(log) : facts[d] = StateOf(log, d)
  BY DomainOfLog
<1>1. Replayed(log, builds).facts = facts /\ DOMAIN facts \subseteq DOMAIN log
  <2>1. Replayed(log, builds).facts = FactsOf(log)
    BY ReplayKeeps, DomainOfLog DEF MemoryInv
  <2> QED BY <1>0, <2>1 DEF MemoryInv
<1>2. \A e \in DOMAIN log : log[e].retractedBy # 0 => ~Live(e, facts)
  BY <1>0 DEF Live, StateOf
<1>3. /\ Range(Units("valid")) = valid
      /\ av \in Seq(Nat) /\ Range(av) = valid /\ Len(av) = Cardinality(valid)
      /\ ai \in Seq(Nat) /\ Range(ai) = others /\ Len(ai) = Cardinality(others)
      /\ Cardinality(valid) + Cardinality(others) = Cardinality(DOMAIN facts)
  BY UnitsAre
<1>4. Range(av \o ai) = DOMAIN facts /\ Len(av \o ai) = Cardinality(DOMAIN facts)
  <2>1. valid \cup others = DOMAIN facts
    OBVIOUS
  <2> HIDE DEF av, ai, valid, others
  <2>2. Range(av \o ai) = Range(av) \cup Range(ai)
    BY <1>3, RangeOfConcat
  <2>3. Len(av \o ai) = Len(av) + Len(ai)
    BY <1>3, ConcatIs
  <2> QED BY <1>3, <2>1, <2>2, <2>3
<1>5. Snapshot.exhaustive
  BY <1>4 DEF Snapshot
<1>6. Snapshot.facts = {[source |-> d, state |-> FactState(d)] : d \in DOMAIN facts}
  BY <1>4 DEF Snapshot
<1>7. \A d \in DOMAIN facts : FactState(d) = "active" <=> facts[d] = "valid"
  BY DEF FactState
<1>8. {f.source : f \in {g \in Snapshot.facts : g.state = "active"}} = valid
  <2> DEFINE shown(d) == [source |-> d, state |-> FactState(d)]
             active == {g \in Snapshot.facts : g.state = "active"}
  <2>1. \A d \in DOMAIN facts : shown(d).source = d /\ (shown(d).state = "active" <=> d \in valid)
    BY <1>7
  <2>2. Snapshot.facts = {shown(d) : d \in DOMAIN facts}
    BY <1>6
  <2>3. valid \subseteq DOMAIN facts
    OBVIOUS
  <2> HIDE DEF shown, valid
  <2>4. active = {shown(d) : d \in valid}
    BY <2>1, <2>2, <2>3
  <2> HIDE DEF active
  <2>5. {f.source : f \in active} = valid
    BY <2>1, <2>3, <2>4
  <2> QED BY <2>5 DEF active
<1>9. Recall(MaxEvents).facts = valid
  BY <1>3 DEF Recall
<1> QED BY <1>1, <1>2, <1>5, <1>8, <1>9 DEF StoreMatchesLog

(* However messages were retracted, corrected, reviewed, forgotten and rebuilt, the facts are *)
(* those a replay of the log yields, and a snapshot taken page by page shows each of them.   *)
THEOREM StoreReplays == StoreSpec => []StoreMatchesLog
BY StoreInvariant, MatchesHere, PTL
=============================================================================
