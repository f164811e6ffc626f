----------------------------- MODULE Migrations ------------------------------
(*****************************************************************************)
(* How a database file becomes the schema the models declare: two revisions, *)
(* each applied whole in one BEGIN IMMEDIATE transaction, and their undoing. *)
(* (db/migrate.py, db/migrations).  A table is what it refers to; SQLite     *)
(* deletes the rows of a table it drops, and refuses when rows of a table    *)
(* that stays refer to them.                                                 *)
(*****************************************************************************)
EXTENDS Schema, Integers, SequencesExt, Functions, Selection

VARIABLES revision,  \* the revision in alembic_version, 0 for none
          installed, \* the tables, in the order of their creation
          guards,    \* the triggers, as <<table, what they forbid>>
          filled,    \* do the tables hold rows?
          refused    \* has a downgrade been refused?

migrationVars == <<revision, installed, guards, filled, refused>>

NewTable(name, refs) == [name |-> name, refs |-> refs]

(* 0001, upgrade: the tables of the initial schema in the order it creates them. *)
InitialExchange ==
    <<NewTable("artifacts", {}), NewTable("idempotency_keys", {}), NewTable("projects", {}), NewTable("worker_heartbeats", {}),
      NewTable("artifact_refs", {"artifacts"}), NewTable("calibration_versions", {"artifacts", "projects"}),
      NewTable("exports", {"artifacts", "projects"}), NewTable("imports", {"artifacts", "projects"}),
      NewTable("release_policies", {"projects"})>>
InitialDefinitions ==
    <<NewTable("scenario_versions", {"scenario_versions", "projects"}),
      NewTable("target_config_versions", {"target_config_versions", "projects"}),
      NewTable("connection_tests", {"target_config_versions"}),
      NewTable("dataset_versions", {"dataset_versions", "projects", "scenario_versions"}),
      NewTable("grader_versions", {"target_config_versions", "grader_versions", "projects"}),
      NewTable("cases", {"dataset_versions"})>>
InitialRuns ==
    <<NewTable("runs", {"dataset_versions", "runs", "projects", "scenario_versions"}),
      NewTable("comparisons", {"runs", "release_policies", "projects"}), NewTable("events", {"runs"}),
      NewTable("grading_runs", {"runs"}), NewTable("jobs", {"runs"}),
      NewTable("run_candidates", {"runs", "target_config_versions"}), NewTable("trials", {"cases", "runs"})>>
InitialEvidence ==
    <<NewTable("attempts", {"artifacts", "trials"}), NewTable("grades", {"grader_versions", "grading_runs", "trials"}),
      NewTable("memory_store_ownership", {"runs", "trials"}),
      NewTable("probability_records", {"cases", "dataset_versions", "projects", "trials"}),
      NewTable("reviews", {"reviews", "trials"}), NewTable("trial_outcomes", {"grading_runs", "trials"})>>
InitialTables == InitialExchange \o InitialDefinitions \o InitialRuns \o InitialEvidence

(* 0001, downgrade: what it drops, in its order. *)
DroppedInitially ==
    <<"trial_outcomes", "reviews", "probability_records", "memory_store_ownership", "grades", "attempts", "trials",
      "run_candidates", "jobs", "grading_runs", "events", "comparisons", "runs", "cases", "grader_versions",
      "dataset_versions", "connection_tests", "target_config_versions", "scenario_versions", "release_policies",
      "imports", "exports", "calibration_versions", "artifact_refs", "worker_heartbeats", "projects",
      "idempotency_keys", "artifacts">>

(* 0002: results imported from other tools. *)
ExternalTables == <<NewTable("external_imports", {"artifacts", "projects"}), NewTable("external_results", {"external_imports"})>>
ExternalDropped == <<"external_results", "external_imports">>

InitialImmutable ==
    {"scenario_versions", "dataset_versions", "cases", "target_config_versions", "grader_versions",
     "release_policies", "calibration_versions", "probability_records", "grades", "trial_outcomes", "reviews",
     "comparisons", "artifacts", "artifact_refs", "events"}

Frozen(tables) == tables \X {"UPDATE", "DELETE"}
InitialGuards ==
    Frozen(InitialImmutable)
    \cup {<<"trials", "UPDATE terminal">>, <<"trials", "DELETE">>, <<"attempts", "UPDATE terminal">>,
          <<"attempts", "DELETE">>, <<"runs", "DELETE">>}
UnguardedResults == Frozen({"external_imports"})  \* slip: 0002 guards the first of its tables
ExternalGuards == Frozen({t.name : t \in Range(ExternalTables)})

Revisions ==
    <<[create |-> InitialTables, guard |-> InitialGuards, drop |-> DroppedInitially],
      [create |-> ExternalTables, guard |-> ExternalGuards, drop |-> ExternalDropped]>>

TableNames(tables) == [i \in DOMAIN tables |-> tables[i].name]
AfterDropping(tables, names) == Select(tables, {t \in Range(tables) : t.name \notin names})

MigrationInit ==
    /\ revision = 0 /\ installed = <<>> /\ guards = {}
    /\ filled = FALSE /\ refused = FALSE

Upgrade ==
    /\ revision < Len(Revisions)
    /\ revision' = revision + 1
    /\ installed' = installed \o Revisions[revision'].create
    /\ guards' = guards \cup Revisions[revision'].guard
    /\ UNCHANGED <<filled, refused>>

(* The program is used: every table gets rows that refer to rows of every table they may. *)
FillTables ==
    /\ revision > 0 /\ ~filled
    /\ filled' = TRUE
    /\ UNCHANGED <<revision, installed, guards, refused>>

(* The i-th drop of the list is made while the tables not yet dropped are there. *)
DropsCleanly(drop) ==
    filled => \A i \in DOMAIN drop :
        LET rest == AfterDropping(installed, {drop[j] : j \in 1 .. i})
        IN  \A t \in Range(rest) : drop[i] \notin t.refs

Downgrade ==
    /\ revision > 0
    /\ LET undone == Revisions[revision] IN
       IF DropsCleanly(undone.drop)
       THEN /\ revision' = revision - 1
            /\ installed' = AfterDropping(installed, Range(undone.drop))
            /\ guards' = guards \ undone.guard
            /\ filled' = (filled /\ revision' > 0)
            /\ UNCHANGED refused
       ELSE refused' = TRUE /\ UNCHANGED <<revision, installed, guards, filled>>

MigrationNext == Upgrade \/ FillTables \/ Downgrade

-----------------------------------------------------------------------------
(* Wherever upgrades and downgrades have led, no table refers to one that is missing or   *)
(* created after it, no trigger watches a table that is gone, no downgrade is refused for *)
(* the rows of the database, and the database at head is the one the models declare with  *)
(* every immutable table guarded against UPDATE and DELETE.  (migrate.py, 0001, 0002)     *)
SchemaIsWhole ==
    LET names == TableNames(installed) IN
    /\ \A i \in DOMAIN installed : installed[i].refs \subseteq {names[j] : j \in 1 .. i}
    /\ {g[1] : g \in guards} \subseteq Range(names)
    /\ ~refused /\ (revision = 0 => installed = <<>> /\ guards = {})
    /\ revision = Len(Revisions) =>
          /\ Range(names) = Tables /\ Len(names) = Cardinality(Tables)
          /\ \A i \in DOMAIN installed : installed[i].refs = Range(Refs(installed[i].name))
          /\ Frozen(ImmutableTables) \subseteq guards
=============================================================================
