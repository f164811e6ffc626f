----------------------------- MODULE MCComponents -----------------------------
(* The components around the execution of a run do not share state in these models, so one  *)
(* run checks them all: a behaviour works in one part, the others keep their initial state. *)
EXTENDS BridgePool, MemoryStore, Verdicts, Reviews, ReleaseGate, MCExchange, Migrations, Measures, RunClient

VARIABLE part

vars == <<part, poolVars, storeVars, verdictVars, reviewVars, gateVars, exchangeVars, migrationVars, sample, clientVars>>

Parts == {"pool", "store", "verdicts", "reviews", "gate", "exchange", "migrations", "measures", "client"}
In(p, possible, fixed) == IF part = p THEN possible ELSE fixed

-----------------------------------------------------------------------------
(* Verdicts: a memory episode with lost snapshots, a classification and an agent, each with   *)
(* a deterministic grader of the pass rule, one of every check, a judge and a pairwise judge. *)

Scenario ==
    [allowed_labels |-> {"yes", "no"}, output_schema |-> FALSE, tools |-> {}, confirmed_tools |-> {"pay"},
     critical_invariants |-> {"no_unauthorized_tool_effect"}]
Saying(words) == [all |-> words, any |-> {}, affirmative |-> TRUE]
ActiveFact(claim, step) == [claim |-> claim, state |-> "active", source_step |-> step]
StepTaken(action, where) ==
    [action |-> action, store |-> where, status |-> "ok", context |-> {"lime"}, used |-> 1, budget |-> 1,
     smalltalk |-> "kept", unresolved |-> {"old"}, holds |-> TRUE]

Remembering ==
    [pack |-> "memory_lifecycle", scenario |-> Scenario, alternatives |-> {}, related |-> <<>>,
     expected |-> [required_facts |-> {[source_step |-> "s1", match |-> Saying({"lime"})]},
                   forbidden_current_facts |-> {[source_step |-> "s2", match |-> Saying({"old"})]},
                   recall_excludes |-> {[step |-> "s3", text |-> "secret"]}, recall_budget |-> "s3",
                   classification_outcome |-> [step |-> "s1", outcome |-> "kept"],
                   correction |-> [step |-> "s2", claim_contains |-> "old"],
                   answer_contains |-> {"lime"}, answer_must_not_contain |-> {"secret"},
                   invariants |-> {"no_retracted_fact_active", "no_cross_user_leak"}],
     steps |-> "s1" :> StepTaken("remember", "main") @@ "s2" :> StepTaken("rebuild", "second")
               @@ "s3" :> StepTaken("recall", "main") @@ "s4" :> StepTaken("assert_state", "main"),
     output |-> [text |-> {"lime"}, form |-> "other",
                 stores |-> "main" :> {ActiveFact({"lime"}, "s1")} @@ "second" :> {ActiveFact({"old"}, "s2")}]]

Classifying ==
    [pack |-> "exact_classification", scenario |-> [Scenario EXCEPT !.output_schema = TRUE], alternatives |-> {"no"},
     related |-> "base" :> [text |-> {"yes"}, form |-> "exact", bare_label |-> "yes"],
     expected |-> [label |-> "yes", invariance_base |-> "base", fields |-> [label |-> "yes"],
                   facts |-> <<"f">>, forbidden_facts |-> <<"g">>],
     steps |-> <<>>,
     output |-> [text |-> {"yes"}, form |-> "folded", parsed |-> [label |-> "yes", valid |-> TRUE, facts |-> <<"f">>]]]

ToolCall(tool, effects, arguments) ==
    [tool |-> tool, valid |-> TRUE, confirmed |-> FALSE, effects |-> effects, arguments |-> arguments]
Acting ==
    [pack |-> "robustness_security", scenario |-> [Scenario EXCEPT !.tools = {"pay", "look"}],
     alternatives |-> {}, related |-> <<>>,
     expected |-> [required_tools |-> {"look"}, forbidden_effects |-> {"paid"}, must_precede |-> {<<"look", "pay">>},
                   exact_trajectory |-> <<"look", "pay">>, sensitive_markers |-> {"pin"}, forbidden_outputs |-> {"pin"},
                   required_outputs |-> {"done"}, should_refuse |-> TRUE, invariants |-> {"no_sensitive_leak"}],
     steps |-> <<>>,
     output |-> [text |-> {"done", "cannot"}, form |-> "other", effects |-> {},
                 tool_calls |-> <<ToolCall("look", {}, {}), ToolCall("pay", {"paid"}, {"pin"})>>]]

Grader(name, kind, checks, judge, reversed) ==
    [name |-> name, kind |-> kind, checks |-> checks, judge |-> judge, reversed |-> reversed]
MCGraders ==
    [facts |-> Grader("facts", "deterministic",
                      {"required_facts", "answer_contains", "label_match", "tool_constraints"}, FALSE, FALSE),
     rules |-> Grader("facts", "deterministic", DOMAIN CheckFunctions(Classifying), FALSE, FALSE),
     quality |-> Grader("quality", "model", {}, TRUE, FALSE),
     better |-> Grader("better", "pairwise", {}, TRUE, TRUE)]
MCGraderIds == <<"better", "facts", "quality", "rules">>
MCMandatoryNames == {"facts", "quality"}
MCDefective == {<<"classifying", "facts">>, <<"lost", "rules">>}

Read(context, lost, output, peer) ==
    [context |-> context, lost |-> lost, output |-> output, peer |-> peer, candFirst |-> TRUE]
MCCases ==
    [remembering |-> Read(Remembering, {}, TRUE, FALSE), lost |-> Read(Remembering, {"main", "second"}, TRUE, FALSE),
     classifying |-> Read(Classifying, {}, TRUE, FALSE), silent |-> Read(Acting, {}, FALSE, TRUE),
     paired |-> Read(Acting, {}, TRUE, TRUE)]
Possible == "u1" :> {"remembering", "lost", "classifying", "silent"} @@ "u2" :> {"paired"}

VerdictPart ==
    /\ VerdictInit(In("verdicts", Possible, [t \in Trials |-> {"paired"}]), In("verdicts", {"candidate", "first"}, {"first"}))
    /\ part = "verdicts" /\ opinion = "first" => subject["u1"] = "silent"

-----------------------------------------------------------------------------
(* Reviews: two trials of one cluster.  The gate: a run with baseline and candidate, and one *)
(* of another candidate in a later dataset version.                                          *)

MCSourceId == "u1" :> "x" @@ "u2" :> "y"
MCClusterOf == "u1" :> "k" @@ "u2" :> "k"

Slot(run, key, cs) == [run |-> run, key |-> key, case |-> cs, repeat |-> 0]
MCSlots == {Slot("r1", key, cs) : key \in {"base", "cand"}, cs \in {"c1", "c2"}} \cup {Slot("r2", "cand", "c2")}
MCKeysOf == "r1" :> <<"base", "cand">> @@ "r2" :> <<"cand">>
MCCaseInfo == "c1" :> [critical |-> TRUE, cluster |-> "p"] @@ "c2" :> [critical |-> FALSE, cluster |-> "q"]
MCHashOf == <<"r1", "c1">> :> 1 @@ <<"r1", "c2">> :> 2 @@ <<"r2", "c2">> :> 2
Made(rule) == [rule |-> rule, repeats |-> 1, scenario |-> "s"]
MCDesigns == {"r1" :> Made("all") @@ "r2" :> Made(rule) : rule \in {"all", "any"}}
MCOutages == {Slot("r1", "cand", "c2")}
MCLeaky == {Slot("r1", "cand", "c1")}
Metric(lower, margin, required) == [name |-> "case_pass_rate", lower |-> lower, margin |-> margin, required |-> required]
Policy(metrics, coverage) == [metrics |-> metrics, critical |-> {"leak"}, coverage |-> coverage, clusters |-> 2]
MCPolicies == {Policy({Metric(FALSE, 0, TRUE), Metric(TRUE, 0, TRUE), [Metric(TRUE, 0, FALSE) EXCEPT !.name = "latency"]}, 100),
               Policy({Metric(FALSE, 0, FALSE)}, 50)}
MCCompared == {<<<<"r1", "base">>, <<"r1", "cand">>>>, <<<<"r1", "base">>, <<"r2", "cand">>>>}

-----------------------------------------------------------------------------
(* A client's world: a memory scenario and an exact one, each with a dataset, targets of *)
(* which some lack what a pack needs, and requests of which two can be accepted.         *)

MCScenarios == "mem" :> [project |-> 1, pack |-> "memory_lifecycle", graders |-> {"g"}]
               @@ "plain" :> [project |-> 1, pack |-> "exact_classification", graders |-> {"g", "j"}]
               @@ "agent" :> [project |-> 1, pack |-> "tool_agent", graders |-> {"g"}]
               @@ "other" :> [project |-> 2, pack |-> "exact_classification", graders |-> {"g"}]
DatasetOf(scenario, cases, mandatory) == [project |-> 1, scenario |-> scenario, cases |-> cases, mandatory |-> mandatory]
MCDatasets == "dmem" :> DatasetOf("mem", "c1" :> 1 @@ "c2" :> 2, {"facts"})
              @@ "dplain" :> DatasetOf("plain", "c1" :> 0, {"facts"}) @@ "dagent" :> DatasetOf("agent", "c1" :> 0, {})
MCTarget ==
    [project |-> 1, parameters |-> {}, experimental |-> FALSE, episodes |-> "supported", tools |-> "supported",
     memoryai |-> FALSE, installed |-> TRUE, generation |-> TRUE, credential |-> "set", priced |-> TRUE]
MCTargetConfigs ==
    "demo" :> MCTarget @@ "mute" :> [MCTarget EXCEPT !.memoryai = TRUE, !.generation = FALSE]
    @@ "toolless" :> [MCTarget EXCEPT !.tools = "unsupported"] @@ "foreign" :> [MCTarget EXCEPT !.project = 2]
    @@ "odd" :> [MCTarget EXCEPT !.parameters = {"unknown"}, !.experimental = TRUE, !.priced = FALSE]
MCGraderRows == "g" :> [project |-> 1, name |-> "facts", judge |-> FALSE] @@ "j" :> [project |-> 1, name |-> "quality", judge |-> TRUE]

Request ==
    [project |-> 1, scenario |-> "mem", dataset |-> "dmem", cases |-> {All}, cache |-> FALSE, targets |-> <<"demo">>,
     repeats |-> 2, graders |-> {All}, frozen |-> TRUE, targetLimit |-> 8, judgeLimit |-> -1, capped |-> FALSE]
PlainRequest == [Request EXCEPT !.scenario = "plain", !.dataset = "dplain", !.frozen = FALSE, !.targets = <<"demo", "odd">>]
MCRequests ==
    {Request, PlainRequest,
     [Request EXCEPT !.scenario = "other"], [Request EXCEPT !.scenario = "plain"], [Request EXCEPT !.cache = TRUE],
     [Request EXCEPT !.cases = {"c9"}], [Request EXCEPT !.targetLimit = 7], [Request EXCEPT !.targets = <<"mute">>],
     [Request EXCEPT !.targets = <<"foreign">>], [Request EXCEPT !.graders = {"j"}],
     [PlainRequest EXCEPT !.frozen = TRUE], [PlainRequest EXCEPT !.judgeLimit = 3], [PlainRequest EXCEPT !.capped = TRUE],
     [PlainRequest EXCEPT !.scenario = "agent", !.dataset = "dagent", !.targets = <<"toolless">>]}

-----------------------------------------------------------------------------
Init ==
    /\ part \in Parts
    /\ PoolInit
    /\ StoreInit /\ (part = "store" <=> filter)
    /\ VerdictPart
    /\ ReviewInit
    /\ GateInit /\ (part # "gate" => design = CHOOSE d \in Designs : TRUE)
    /\ part # "gate" \/ design["r1"] # design["r2"] => \A s \in Slots : ran[s]
    /\ ExchangeInit(In("exchange", Seeds, {<<>>}))
    /\ MigrationInit
    /\ MeasureInit
    /\ ClientInit

PoolPart == part = "pool" /\ PoolNext
            /\ UNCHANGED <<part, storeVars, verdictVars, reviewVars, gateVars, exchangeVars, migrationVars, sample, clientVars>>
StorePart == part = "store" /\ StoreNext
             /\ UNCHANGED <<part, poolVars, verdictVars, reviewVars, gateVars, exchangeVars, migrationVars, sample, clientVars>>
VerdictsPart == part = "verdicts" /\ VerdictNext
                /\ UNCHANGED <<part, poolVars, storeVars, reviewVars, gateVars, exchangeVars, migrationVars, sample, clientVars>>
ReviewsPart == part = "reviews" /\ ReviewNext
               /\ UNCHANGED <<part, poolVars, storeVars, verdictVars, gateVars, exchangeVars, migrationVars, sample, clientVars>>
GatePart == part = "gate" /\ GateNext
            /\ (design["r1"] # design["r2"] =>  \* bound: then only the two runs are compared
                    regraded' = {} /\ doubted' = {} /\ decision'.candidate \in {<<>>, <<"r2", "cand">>})
            /\ UNCHANGED <<part, poolVars, storeVars, verdictVars, reviewVars, exchangeVars, migrationVars, sample, clientVars>>
ExchangePart == part = "exchange" /\ ExchangeNext
                /\ UNCHANGED <<part, poolVars, storeVars, verdictVars, reviewVars, gateVars, migrationVars, sample, clientVars>>
MigrationsPart == part = "migrations" /\ MigrationNext
                  /\ UNCHANGED <<part, poolVars, storeVars, verdictVars, reviewVars, gateVars, exchangeVars, sample, clientVars>>
MeasuresPart == part = "measures" /\ Observe
                /\ UNCHANGED <<part, poolVars, storeVars, verdictVars, reviewVars, gateVars, exchangeVars, migrationVars, clientVars>>

ClientPart == part = "client" /\ ClientNext
              /\ UNCHANGED <<part, poolVars, storeVars, verdictVars, reviewVars, gateVars, exchangeVars, migrationVars, sample>>

Next == \/ PoolPart \/ StorePart \/ VerdictsPart \/ ReviewsPart
        \/ GatePart \/ ExchangePart \/ MigrationsPart \/ MeasuresPart \/ ClientPart

Spec == Init /\ [][Next]_vars /\ PoolFairness
=============================================================================
