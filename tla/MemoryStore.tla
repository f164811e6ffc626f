----------------------------- MODULE MemoryStore -----------------------------
(****************************************************************************)
(* One MemoryAI store as the bridge sees it: the append-only event log, the *)
(* facts derived from it, and the actions an episode may take on it.  The   *)
(* store is src/bridges/memoryai/evalai_bridge/backends/fake.py, the        *)
(* actions around it are those of backends/base.py.                         *)
(*                                                                          *)
(* Texts are abstracted to what the store does with them ("retraction",     *)
(* "filler" or "lasting").  A fact comes from one event (its document), and *)
(* a document has at most one fact at a time, so facts map documents to     *)
(* states; a fact's id is the pair of its document and the rebuild that     *)
(* made it, because a rebuild gives every fact a new id.                    *)
(****************************************************************************)
EXTENDS Naturals, FiniteSets, FiniteSetsExt, Sequences, SequencesExt, Functions

CONSTANTS MaxEvents,    \* bound: events ever appended
          MaxRebuilds,  \* bound: rebuilds
          PageSize      \* PAGE, the page of list_units

ASSUME StoreAssumption == MaxEvents \in Nat /\ MaxRebuilds \in Nat /\ PageSize \in Nat \ {0}

VARIABLES log,     \* event id -> event; DOMAIN log are the rows that exist
          lastId,  \* the AUTOINCREMENT counter of the table
          facts,   \* document -> "valid", "withdrawn" or "wrong"
          builds,  \* rebuilds so far: the generation of the fact ids
          filter,  \* settings.small_talk_filter of the store
          told     \* what the last action returned

storeVars == <<log, lastId, facts, builds, filter, told>>

NoFact == <<0, 0>>
Nothing == [action |-> "none", new |-> {}, unresolved |-> {}, smalltalk |-> "none"]

Event == [kind : {"message", "retraction", "assertion", "governance"},
          actor : {"user", "assistant", "system"},
          status : {"none", "candidate", "approved", "rejected"},
          skipped : BOOLEAN, retracts : 0 .. MaxEvents, retractedBy : 0 .. MaxEvents,
          withdrawn : SUBSET ((0 .. MaxEvents) \X (0 .. MaxRebuilds)),
          memory : (0 .. MaxEvents) \X (0 .. MaxRebuilds)]

Plain(kind, actor) ==
    [kind |-> kind, actor |-> actor, status |-> "none", skipped |-> FALSE, retracts |-> 0,
     retractedBy |-> 0, withdrawn |-> {}, memory |-> NoFact]

(* f with one more element in its domain, if it is not there already *)
Added(f, x, v) == [d \in DOMAIN f \cup {x} |-> IF d \in DOMAIN f THEN f[d] ELSE v]

Live(d, fs) == d \in DOMAIN fs /\ fs[d] = "valid"
Marked(fs, d, state) == [e \in DOMAIN fs |-> IF e = d THEN state ELSE fs[e]]
Named(id) == id[2] = builds /\ id[1] \in DOMAIN facts
Latest(S) == IF S = {} THEN 0 ELSE Max(S)
InOrder(S) == [n \in 1 .. Cardinality(S) |-> CHOOSE e \in S : Cardinality({d \in S : d <= e}) = n]

ReusedId(l) == Latest(DOMAIN l) + 1  \* slip: an id freed by a deletion is given again
(* The id of an event appended to l: the table is AUTOINCREMENT. *)
InsertedId(l) == lastId + 1
NextId == InsertedId(log)

(* The new events of an action, found by comparing the log before and after it. *)
Fresh(before, after) == {e \in DOMAIN after : e > Latest(DOMAIN before) /\ e \notin DOMAIN before}

Done(action, log1, lost, verdict) ==
    /\ log' = log1
    /\ told' = [action |-> action, new |-> Fresh(log, log1), unresolved |-> lost, smalltalk |-> verdict]
    /\ UNCHANGED filter

-----------------------------------------------------------------------------
(* Actions. *)

(* Whether a text is kept, by rule or by the model's check. *)
Verdict(text) == IF ~filter THEN "not_checked" ELSE IF text = "filler" THEN "skipped" ELSE "kept"

Remember(actor, text) ==
    /\ lastId < MaxEvents
    /\ ~(actor = "user" /\ text = "retraction")
    /\ lastId' = NextId
    /\ facts' = IF Verdict(text) = "skipped" THEN facts ELSE Added(facts, NextId, "valid")
    /\ Done("remember", Added(log, NextId, [Plain("message", actor) EXCEPT !.skipped = Verdict(text) = "skipped"]),
            {}, Verdict(text))
    /\ UNCHANGED builds

(* "Ignore that": withdraws the facts of the user's last message that still stands. *)
Retract ==
    LET target == Latest({e \in DOMAIN log : /\ log[e].kind = "message" /\ log[e].actor = "user"
                                             /\ log[e].retractedBy = 0 /\ ~log[e].skipped})
        hit == IF Live(target, facts) THEN {<<target, builds>>} ELSE {}
        event == [Plain("retraction", "user") EXCEPT !.retracts = target, !.withdrawn = hit]
        marked == IF target = 0 THEN log ELSE [log EXCEPT ![target].retractedBy = NextId]
    IN  /\ lastId < MaxEvents
        /\ lastId' = NextId
        /\ facts' = IF hit = {} THEN facts ELSE Marked(facts, target, "withdrawn")
        /\ Done("remember", Added(marked, NextId, event), {}, "not_checked")
        /\ UNCHANGED builds

AssertFact(status) ==
    /\ lastId < MaxEvents
    /\ lastId' = NextId
    /\ facts' = IF status = "approved" THEN Added(facts, NextId, "valid") ELSE facts
    /\ Done("assert", Added(log, NextId, [Plain("assertion", "user") EXCEPT !.status = status]), {}, "none")
    /\ UNCHANGED builds

Candidate(e) == e \in DOMAIN log /\ log[e].kind = "assertion" /\ log[e].status = "candidate"

Approve(e) ==
    /\ Candidate(e) /\ lastId < MaxEvents
    /\ lastId' = NextId
    /\ facts' = Added(facts, e, "valid")
    /\ Done("approve", Added([log EXCEPT ![e].status = "approved"], NextId, Plain("governance", "user")), {}, "none")
    /\ UNCHANGED builds

Reject(e) ==
    /\ Candidate(e) /\ lastId < MaxEvents
    /\ lastId' = NextId
    /\ Done("reject", Added([log EXCEPT ![e].status = "rejected"], NextId, Plain("governance", "user")), {}, "none")
    /\ UNCHANGED <<facts, builds>>

(* The bridge looks for a valid fact of the event's document and marks it wrong. *)
Wrong(e) ==
    /\ Live(e, facts) /\ lastId < MaxEvents
    /\ lastId' = NextId
    /\ facts' = Marked(facts, e, "wrong")
    /\ Done("wrong", Added(log, NextId, [Plain("governance", "user") EXCEPT !.memory = <<e, builds>>]), {}, "none")
    /\ UNCHANGED builds

(* Slip: what the event withdrew stays withdrawn. *)
ForgottenOnly(e) == [d \in DOMAIN facts \ {e} |-> facts[d]]
(* Forgetting an event removes its facts and undoes what the event did to others. *)
Forgotten(e) ==
    LET undone == {id[1] : id \in {w \in log[e].withdrawn \cup {log[e].memory} : Named(w)}} \ {e}
    IN  [d \in DOMAIN facts \ {e} |-> IF d \in undone THEN "valid" ELSE facts[d]]

Forget(e) ==
    LET t == log[e].retracts
        freed == IF t = 0 THEN log ELSE [log EXCEPT ![t].retractedBy = 0]
        kept == Restrict(freed, DOMAIN log \ {e})
        id == InsertedId(kept)
    IN  /\ e \in DOMAIN log /\ lastId < MaxEvents
        /\ t = 0 \/ t \in DOMAIN log
        /\ lastId' = id
        /\ facts' = Forgotten(e)
        /\ Done("forget", Added(kept, id, Plain("governance", "user")), {}, "none")
        /\ UNCHANGED builds

(* update_data of an event that is gone raises: the facts have changed, the event stays. *)
ForgetRaises(e) ==
    /\ e \in DOMAIN log
    /\ log[e].retracts # 0 /\ log[e].retracts \notin DOMAIN log
    /\ facts' = [d \in DOMAIN facts \ {e} |-> IF <<d, builds>> \in log[e].withdrawn THEN "valid" ELSE facts[d]]
    /\ Done("error", log, {}, "none")
    /\ UNCHANGED <<lastId, builds>>

(* Replays the log: facts of kept turns and approved assertions, then retractions and *)
(* corrections in the order of their events; a correction without a fact is reported. *)
Derivable(l) == {e \in DOMAIN l : \/ l[e].kind = "message" /\ ~l[e].skipped
                                  \/ l[e].kind = "assertion" /\ l[e].status = "approved"}

Applied(l, gen, acc, e) ==
    IF l[e].kind = "retraction" /\ l[e].retracts # 0 THEN
        LET t == l[e].retracts
            hit == Live(t, acc.facts)
        IN  [facts |-> IF hit THEN Marked(acc.facts, t, "withdrawn") ELSE acc.facts,
             log |-> [acc.log EXCEPT ![e].withdrawn = IF hit THEN {<<t, gen>>} ELSE {}],
             unresolved |-> acc.unresolved]
    ELSE IF l[e].memory # NoFact THEN
        LET d == l[e].memory[1] IN
        IF Live(d, acc.facts)
        THEN [facts |-> Marked(acc.facts, d, "wrong"), log |-> [acc.log EXCEPT ![e].memory = <<d, gen>>],
              unresolved |-> acc.unresolved]
        ELSE [acc EXCEPT !.unresolved = @ \cup {e}]
    ELSE acc

Replayed(l, gen) ==
    FoldLeft(LAMBDA acc, e : Applied(l, gen, acc, e),
             [facts |-> [d \in Derivable(l) |-> "valid"], log |-> l, unresolved |-> {}], InOrder(DOMAIN l))

Rebuild ==
    LET r == Replayed(log, builds + 1)
    IN  /\ lastId < MaxEvents /\ builds < MaxRebuilds
        /\ builds' = builds + 1
        /\ lastId' = NextId
        /\ facts' = r.facts
        /\ Done("rebuild", Added(r.log, NextId, Plain("governance", "system")), r.unresolved, "none")

-----------------------------------------------------------------------------
(* Reading. *)

(* list_units sorts by document; the snapshot pages until a short page. *)
Units(state) == InOrder({d \in DOMAIN facts : (facts[d] = "valid") = (state = "valid")})
ListUnits(state, offset) ==
    LET u == Units(state) IN SubSeq(u, offset + 1, IF offset + PageSize < Len(u) THEN offset + PageSize ELSE Len(u))
AllUnits(state) ==
    LET from[o \in 0 .. MaxEvents + PageSize] ==
            LET chunk == ListUnits(state, o)
            IN  IF Len(chunk) < PageSize THEN chunk ELSE chunk \o from[o + Len(chunk)]
    IN  from[0]

FactState(d) == CASE facts[d] = "valid" -> "active" [] facts[d] = "withdrawn" -> "withdrawn" [] OTHER -> "invalidated"

Snapshot ==
    [facts |-> {[source |-> d, state |-> FactState(d)] : d \in Range(AllUnits("valid") \o AllUnits("invalidated"))},
     queue |-> {e \in DOMAIN log : Candidate(e)},
     exhaustive |-> Len(AllUnits("valid") \o AllUnits("invalidated")) = Cardinality(DOMAIN facts)]

(* The context of a recall: all active facts, then as many of the last turns as fit; one token per line. *)
WindowTurns == 6
Window(budget) ==
    LET turns == InOrder({e \in DOMAIN log : log[e].kind = "message"})
        room == IF budget > Len(Units("valid")) THEN budget - Len(Units("valid")) ELSE 0
        shown == Min({Len(turns), WindowTurns, room})
    IN  SubSeq(turns, Len(turns) - shown + 1, Len(turns))

Recall(budget) ==
    [facts |-> Range(Units("valid")), window |-> Range(Window(budget)),
     used |-> Len(Units("valid")) + Len(Window(budget)), budget |-> budget,
     retracted |-> {e \in Range(Window(budget)) : log[e].retractedBy # 0}]

-----------------------------------------------------------------------------
StoreInit ==
    /\ log = <<>> /\ lastId = 0 /\ facts = <<>> /\ builds = 0 /\ told = Nothing
    /\ filter \in BOOLEAN

(* An accepted episode targets only events made by its remember and assert steps. *)
Targets == {e \in DOMAIN log : log[e].kind # "governance"}

StoreNext ==
    \/ \E actor \in {"user", "assistant"}, text \in {"lasting", "filler", "retraction"} : Remember(actor, text)
    \/ Retract
    \/ \E status \in {"candidate", "approved"} : AssertFact(status)
    \/ \E e \in Targets : Approve(e) \/ Reject(e) \/ Wrong(e) \/ Forget(e) \/ ForgetRaises(e)
    \/ Rebuild

StoreSpec == StoreInit /\ [][StoreNext]_storeVars

-----------------------------------------------------------------------------
(* Properties. *)

(* "Rebuild replays the whole log": whatever was retracted, corrected, reviewed, forgotten *)
(* or already rebuilt, the facts the actions keep up to date one by one are those a replay *)
(* of the log yields, each of an event that still exists; no active one is of a turn the   *)
(* user took back; and a snapshot, read page by page, shows each once and in its state.    *)
StoreMatchesLog ==
    /\ Replayed(log, builds).facts = facts /\ DOMAIN facts \subseteq DOMAIN log
    /\ \A e \in DOMAIN log : log[e].retractedBy # 0 => ~Live(e, facts)
    /\ Snapshot.exhaustive /\ Recall(MaxEvents).facts = {f.source : f \in {g \in Snapshot.facts : g.state = "active"}}

(* An action that succeeds reports what it appended, all of it and nothing else: the adapter *)
(* tells new events by comparing ids, also when the newest one was forgotten meanwhile.      *)
ProvenanceIsExact ==
    [][told'.action \notin {"none", "error"} =>
          told'.new # {} /\ told'.new = lastId + 1 .. lastId']_storeVars
=============================================================================
