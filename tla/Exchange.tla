------------------------------ MODULE Exchange -------------------------------
(*****************************************************************************)
(* Export of a project and import as a new one: which rows are archived, in  *)
(* which order the database hands them over, how ids are replaced, and what  *)
(* the foreign keys of the schema, checked row by row, make of it.           *)
(* (artifacts/exchange.py, execution/background.py, api/routes/exchange.py)  *)
(* The evidence of runs is one row of each table, referring to the project's *)
(* newest rows.                                                              *)
(*****************************************************************************)
EXTENDS Definitions, Schema, SequencesExt, Functions

VARIABLE transfer  \* [at, project, redacted, here, archive, copy]

exchangeVars == <<rows, transfer>>

NoTransfer == [at |-> "idle", project |-> 0, redacted |-> FALSE, here |-> TRUE, archive |-> <<>>, copy |-> <<>>]

(* TABLES: what is archived, in the order it is inserted. *)
ArchivedTables ==
    <<"target_config_versions", "grader_versions", "scenario_versions", "dataset_versions", "cases",
      "release_policies", "runs", "run_candidates", "grading_runs", "trials", "attempts", "grades", "trial_outcomes",
      "reviews", "comparisons", "calibration_versions", "probability_records", "external_imports",
      "external_results", "artifact_refs">>

(* ID_COLUMNS, LIST_COLUMNS, ENTITY_TABLES and the generation target: the columns whose ids are replaced. *)
ForeignKeysOnly(table) ==  \* slip: what refers to a row without a foreign key keeps the old id
    {column \in DOMAIN Refs(table) : Refs(table)[column] # "artifacts"}
IdColumns(table) ==
    CASE table = "target_config_versions" -> {"parent_id", "generation"}
      [] table = "grader_versions" -> {"judge_config_id", "parent_id"}
      [] table = "scenario_versions" -> {"parent_id", "grader_refs"}
      [] table = "dataset_versions" -> {"scenario_id", "parent_id"}
      [] table = "cases" -> {"dataset_id"}
      [] table = "runs" -> {"scenario_id", "dataset_id", "parent_run_id"}
      [] table = "run_candidates" -> {"run_id", "target_config_id"}
      [] table = "grading_runs" -> {"run_id", "grader_ids"}
      [] table = "trials" -> {"run_id", "case_id", "selected_attempt_id"}
      [] table = "attempts" -> {"trial_id"}
      [] table = "grades" -> {"grading_run_id", "trial_id", "grader_id"}
      [] table = "trial_outcomes" -> {"grading_run_id", "trial_id"}
      [] table = "reviews" -> {"trial_id", "supersedes_id", "grade_ids"}
      [] table = "comparisons" -> {"baseline_run_id", "candidate_run_id", "policy_id", "grading_run_ids"}
      [] table = "probability_records" -> {"dataset_id", "case_id", "trial_id"}
      [] table = "external_results" -> {"import_id"}
      [] table = "artifact_refs" -> {"entity_id"}
      [] OTHER -> {}

-----------------------------------------------------------------------------
(* Evidence: what a run, its review, a comparison and an import of results leave. *)

EvidenceTables ==
    <<"runs", "run_candidates", "grading_runs", "trials", "attempts", "grades", "trial_outcomes", "reviews",
      "comparisons", "calibration_versions", "probability_records", "external_imports", "external_results",
      "artifact_refs">>

(* References the program keeps without a foreign key. *)
Loose(table) ==
    CASE table = "grading_runs" -> [grader_ids |-> "grader_versions"]
      [] table = "trials" -> [selected_attempt_id |-> "attempts"]
      [] table = "reviews" -> [grade_ids |-> "grades"]
      [] table = "comparisons" -> [grading_run_ids |-> "grading_runs"]
      [] table = "artifact_refs" -> [entity_id |-> "attempts"]
      [] OTHER -> <<>>

Columns(table) == (DOMAIN Refs(table) \cup DOMAIN Loose(table)) \ {"project_id"}
TargetOf(table, column) == IF column \in DOMAIN Refs(table) THEN Refs(table)[column] ELSE Loose(table)[column]

IsFile(table, column) == column \in DOMAIN Refs(table) /\ Refs(table)[column] = "artifacts"
File == -1  \* what a column that names an artifact holds: no row's id

Newest(rs, table, project) ==
    LET ids == {i \in IdsIn(rs, table) : rs[i].project = project}
    IN  IF ids = {} THEN NoId ELSE CHOOSE i \in ids : \A j \in ids : j <= i

Evidence(rs, table, project) ==
    LET Value(column) == IF IsFile(table, column) THEN IF table = "calibration_versions" THEN NoId ELSE File
                         ELSE IF table = "trials" /\ column = "selected_attempt_id" THEN Len(rs) + 2  \* the next row
                         ELSE Newest(rs, TargetOf(table, column), project)
    IN  Append(rs, Row(table, project, IF table = "calibration_versions" THEN Len(rs) + 1 ELSE NoId, 0, "none", "none",
                       [column \in Columns(table) |-> Value(column)]))

Evaluate(project) ==
    /\ transfer = NoTransfer
    /\ IdsOf("runs", project) = {}  \* bound: one run
    /\ \A table \in {"dataset_versions", "target_config_versions", "grader_versions"} : IdsOf(table, project) # {}
    /\ rows' = FoldLeft(LAMBDA rs, table : Evidence(rs, table, project), rows, EvidenceTables)
    /\ UNCHANGED transfer

-----------------------------------------------------------------------------
(* Export. *)

(* The orders in which the rows of a table are selected: by the index the database takes for *)
(* the project's rows, which is on the hash, or on the logical id and the version, or else   *)
(* as they were inserted.                                                                    *)
ByHash == {"scenario_versions", "dataset_versions"}
ByLogicalId == {"target_config_versions", "grader_versions", "release_policies", "calibration_versions"}

Orders(table, ids) ==
    CASE table \in ByHash -> SetToSeqs(ids)
      [] table \in ByLogicalId ->
            {s \in SetToSeqs(ids) : \A i, j, k \in DOMAIN s :
                /\ i < j /\ rows[s[i]].logical = rows[s[j]].logical => rows[s[i]].version < rows[s[j]].version
                /\ i < j /\ j < k /\ rows[s[i]].logical = rows[s[k]].logical => rows[s[j]].logical = rows[s[i]].logical}
      [] OTHER -> {s \in SetToSeqs(ids) : \A i, j \in DOMAIN s : i < j => s[i] < s[j]}

Archived(project, redacted) ==
    [table \in Range(ArchivedTables) |->
        IF redacted /\ table \in {"external_imports", "external_results"} THEN {} ELSE IdsOf(table, project)]

(* The archive: the ids of all its rows, by table and in the order of the selects. *)
Followed(lists, others) == {s \o t : s \in lists, t \in others}
Archives(project, redacted) ==
    LET OrderedBy[n \in 0 .. Len(ArchivedTables)] ==
            IF n = 0 THEN {<<>>}
            ELSE Followed(OrderedBy[n - 1], Orders(ArchivedTables[n], Archived(project, redacted)[ArchivedTables[n]]))
    IN  OrderedBy[Len(ArchivedTables)]

CreateExport(project, redacted) ==
    /\ transfer = NoTransfer
    /\ transfer' = [NoTransfer EXCEPT !.at = "export queued", !.project = project, !.redacted = redacted]
    /\ UNCHANGED rows

BuildExport ==
    /\ transfer.at = "export queued"
    /\ \E archive \in Archives(transfer.project, transfer.redacted) :
         transfer' = [transfer EXCEPT !.at = "exported", !.archive = archive]
    /\ UNCHANGED rows

-----------------------------------------------------------------------------
(* Import, into the installation the archive is from or into another one. *)

PositionOf(archive, id) == CHOOSE n \in DOMAIN archive : archive[n] = id

(* May the n-th row be inserted, when the rows before it are there? *)
Insertable(archive, n, here, redacted) ==
    LET row == rows[archive[n]]
        mapped == {c \in DOMAIN row.refs : row.refs[c] # NoId /\ c \in IdColumns(row.table)}
        kept == {c \in DOMAIN row.refs : row.refs[c] # NoId /\ c \notin IdColumns(row.table)}
    IN  /\ \A c \in mapped :
              /\ row.refs[c] \in Range(archive)  \* remap
              /\ c \in DOMAIN Refs(row.table) => PositionOf(archive, row.refs[c]) <= n  \* the foreign key
        /\ \A c \in kept : c \in DOMAIN Refs(row.table) => here \/ (IsFile(row.table, c) /\ ~redacted)

(* Logical ids are made anew for each table, when the first row of one is copied. *)
OneLogical(row, other) == row.table = other.table /\ row.logical = other.logical
LogicalCopy(archive, n) ==
    LET same == {m \in DOMAIN archive : OneLogical(rows[archive[m]], rows[archive[n]])}
    IN  IF rows[archive[n]].logical = NoId THEN NoId ELSE CHOOSE m \in same : \A o \in same : m <= o

Copied(archive, n) ==
    LET row == rows[archive[n]] IN
    [row EXCEPT !.project = 0,
                !.logical = LogicalCopy(archive, n),
                !.refs = [c \in DOMAIN row.refs |->
                    IF row.refs[c] = NoId \/ c \notin IdColumns(row.table) THEN row.refs[c]
                    ELSE PositionOf(archive, row.refs[c])]]

CreateImport(here) ==
    /\ transfer.at = "exported"
    /\ transfer' = [transfer EXCEPT !.at = "import queued", !.here = here]
    /\ UNCHANGED rows

(* import_archive, one transaction with the import record: all rows or none. *)
ImportArchive ==
    /\ transfer.at = "import queued"
    /\ transfer' = IF \A n \in DOMAIN transfer.archive :
                          Insertable(transfer.archive, n, transfer.here, transfer.redacted)
                   THEN [transfer EXCEPT !.at = "imported",
                                         !.copy = [n \in DOMAIN transfer.archive |-> Copied(transfer.archive, n)]]
                   ELSE [transfer EXCEPT !.at = "import failed"]
    /\ UNCHANGED rows

(* A crash takes the job's only attempt: the record stays queued. *)
CrashExchange ==
    /\ transfer.at \in {"export queued", "import queued"}
    /\ transfer' = [transfer EXCEPT !.at = "queued for good"]
    /\ UNCHANGED rows

ExchangeInit(seeds) == rows \in seeds /\ transfer = NoTransfer

Define == transfer = NoTransfer /\ DefinitionNext /\ UNCHANGED transfer

ExchangeNext ==
    \/ Define
    \/ \E project \in Projects : Evaluate(project) \/ \E redacted \in BOOLEAN : CreateExport(project, redacted)
    \/ BuildExport \/ (\E here \in BOOLEAN : CreateImport(here)) \/ ImportArchive \/ CrashExchange

ExchangeSpec == ExchangeInit({<<>>}) /\ [][ExchangeNext]_exchangeVars

-----------------------------------------------------------------------------
Listed(id) == id \in Range(transfer.archive)
LeavesProject == \E i \in Range(transfer.archive) : \E c \in DOMAIN rows[i].refs :
                     ~IsFile(rows[i].table, c) /\ rows[i].refs[c] # NoId /\ ~Listed(rows[i].refs[c])
ChildFirst == \E n \in DOMAIN transfer.archive :
                  LET row == rows[transfer.archive[n]] IN
                  /\ "parent_id" \in DOMAIN row.refs /\ row.refs.parent_id # NoId /\ Listed(row.refs.parent_id)
                  /\ PositionOf(transfer.archive, row.refs.parent_id) > n

(* An import is the exported project over again: every row is there once, with its table, *)
(* version and content, refers to the copies of the rows it referred to and to nothing of *)
(* the old project, and shares a logical id exactly with the copies of its versions.  An  *)
(* import fails only for a reference out of the project, for a version listed before its  *)
(* parent, or for the artifacts a redacted archive leaves behind.  (exchange.py)          *)
ImportedIsWhole ==
    LET archive == transfer.archive
        copy == transfer.copy
    IN  /\ transfer.at = "imported" =>
              /\ Len(copy) = Len(archive) /\ \A n, o \in DOMAIN archive : archive[n] = archive[o] => n = o
              /\ ~transfer.redacted => Range(archive) = {i \in DOMAIN rows : rows[i].project = transfer.project}
              /\ \A n \in DOMAIN copy :
                    LET row == rows[archive[n]] IN
                    \A c \in DOMAIN row.refs :
                        \/ row.refs[c] = copy[n].refs[c] /\ (IsFile(row.table, c) \/ row.refs[c] = NoId)
                        \/ ~IsFile(row.table, c) /\ row.refs[c] # NoId /\ archive[copy[n].refs[c]] = row.refs[c]
              /\ \A n, o \in DOMAIN copy :
                    copy[n].table = copy[o].table /\ copy[n].logical # NoId =>
                        (copy[n].logical = copy[o].logical <=> rows[archive[n]].logical = rows[archive[o]].logical)
        /\ transfer.at = "import failed" => LeavesProject \/ ChildFirst \/ (transfer.redacted /\ ~transfer.here)

(* "safe imports round-trip" (docs/BACKEND_CONTRACTS.md): an archive with all its text, of a *)
(* project that refers to nothing outside it, can be imported.                               *)
ImportsRoundTrip == transfer.at = "import failed" => transfer.redacted \/ LeavesProject
=============================================================================
