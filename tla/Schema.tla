------------------------------- MODULE Schema --------------------------------
(*****************************************************************************)
(* The tables of db/models.py, as far as anything can go wrong with them:    *)
(* the columns whose values are unique together, the columns that refer to   *)
(* other tables by a foreign key, which of those may be null, and the tables *)
(* whose rows may never change.  Columns that carry content are left out.    *)
(*****************************************************************************)
EXTENDS Sequences, FiniteSets

Table(unique, refs, optional) == [unique |-> unique, refs |-> refs, optional |-> optional]
Unversioned(refs) == Table({}, refs, {})

(* A versioned definition: one row per version of a logical id of a project. *)
VersionKey == {{"project_id", "logical_id", "version"}}
Versioned(refs, optional) == Table(VersionKey, refs, optional)

ProjectTable == Unversioned(<<>>)
ScenarioTable == Versioned([project_id |-> "projects", parent_id |-> "scenario_versions"], {"parent_id"})
DatasetTable == Versioned([project_id |-> "projects", parent_id |-> "dataset_versions", scenario_id |-> "scenario_versions"],
                          {"parent_id"})
CaseTable == Table({{"dataset_id", "external_id"}}, [dataset_id |-> "dataset_versions"], {})
TargetTable == Versioned([project_id |-> "projects", parent_id |-> "target_config_versions"], {"parent_id"})
GraderTable == Versioned([project_id |-> "projects", parent_id |-> "grader_versions",
                          judge_config_id |-> "target_config_versions"], {"parent_id", "judge_config_id"})
PolicyTable == Versioned([project_id |-> "projects"], {})
CalibrationTable == Versioned([project_id |-> "projects", model_artifact |-> "artifacts"], {"model_artifact"})
ProbabilityTable == Table({}, [project_id |-> "projects", dataset_id |-> "dataset_versions", case_id |-> "cases",
                               trial_id |-> "trials"], {"dataset_id", "case_id", "trial_id"})
RunTable == Table({}, [project_id |-> "projects", scenario_id |-> "scenario_versions",
                       dataset_id |-> "dataset_versions", parent_run_id |-> "runs"], {"parent_run_id"})
CandidateTable == Table({{"run_id", "candidate_key"}}, [run_id |-> "runs", target_config_id |-> "target_config_versions"], {})
GradingRunTable == Unversioned([run_id |-> "runs"])
TrialTable == Table({{"run_id", "case_id", "candidate_key", "repeat_index"}}, [run_id |-> "runs", case_id |-> "cases"], {})
AttemptTable == Table({{"trial_id", "stage", "attempt_index"}},
                      [trial_id |-> "trials", request_artifact |-> "artifacts", response_artifact |-> "artifacts"],
                      {"request_artifact", "response_artifact"})
GradeTable == Table({{"grading_run_id", "trial_id", "grader_id"}},
                    [grading_run_id |-> "grading_runs", trial_id |-> "trials", grader_id |-> "grader_versions"], {})
OutcomeTable == Table({{"grading_run_id", "trial_id"}}, [grading_run_id |-> "grading_runs", trial_id |-> "trials"], {})
ArtifactTable == Unversioned(<<>>)
ArtifactRefTable == Unversioned([content_hash |-> "artifacts"])
EventTable == Table({{"id"}}, [run_id |-> "runs"], {"run_id"})
ReviewTable == Table({}, [trial_id |-> "trials", supersedes_id |-> "reviews"], {"supersedes_id"})
ComparisonTable == Table({}, [project_id |-> "projects", baseline_run_id |-> "runs", candidate_run_id |-> "runs",
                              policy_id |-> "release_policies"], {"policy_id"})
JobTable == Table({}, [run_id |-> "runs"], {"run_id"})
HeartbeatTable == Unversioned(<<>>)
IdempotencyTable == Unversioned(<<>>)
ConnectionTestTable == Unversioned([target_config_id |-> "target_config_versions"])
ExportTable == Table({}, [project_id |-> "projects", archive_hash |-> "artifacts"], {"archive_hash"})
ImportTable == Table({}, [project_id |-> "projects", archive_hash |-> "artifacts"], {"project_id"})
OwnershipTable == Table({{"data_dir"}, {"instance"}}, [run_id |-> "runs", trial_id |-> "trials"], {"run_id", "trial_id"})
ExternalImportTable == Unversioned([project_id |-> "projects", artifact_hash |-> "artifacts"])
ExternalResultTable == Table({{"import_id", "ordinal"}}, [import_id |-> "external_imports"], {})

Models ==
    [projects |-> ProjectTable, scenario_versions |-> ScenarioTable, dataset_versions |-> DatasetTable,
     cases |-> CaseTable, target_config_versions |-> TargetTable, grader_versions |-> GraderTable,
     release_policies |-> PolicyTable, calibration_versions |-> CalibrationTable,
     probability_records |-> ProbabilityTable, runs |-> RunTable, run_candidates |-> CandidateTable,
     grading_runs |-> GradingRunTable, trials |-> TrialTable, attempts |-> AttemptTable, grades |-> GradeTable,
     trial_outcomes |-> OutcomeTable, artifacts |-> ArtifactTable, artifact_refs |-> ArtifactRefTable,
     events |-> EventTable, reviews |-> ReviewTable, comparisons |-> ComparisonTable, jobs |-> JobTable,
     worker_heartbeats |-> HeartbeatTable, idempotency_keys |-> IdempotencyTable,
     connection_tests |-> ConnectionTestTable, exports |-> ExportTable, imports |-> ImportTable,
     memory_store_ownership |-> OwnershipTable, external_imports |-> ExternalImportTable,
     external_results |-> ExternalResultTable]

Tables == DOMAIN Models
Refs(table) == Models[table].refs

ImmutableTables ==
    {"scenario_versions", "dataset_versions", "cases", "target_config_versions", "grader_versions",
     "release_policies", "calibration_versions", "probability_records", "grades", "trial_outcomes", "reviews",
     "comparisons", "artifacts", "artifact_refs", "events", "external_imports", "external_results"}
=============================================================================
