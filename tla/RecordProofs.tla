---------------------------- MODULE RecordProofs ----------------------------
(***************************************************************************)
(* Theorems about the records the control plane keeps and shows:           *)
(*   Exchange, and the Definitions it copies, for any projects, contents and *)
(*     names and any number of rows: what the rows say of each other, what an *)
(*     archive lists and in which order, and what an import makes of it;   *)
(*   Migrations, for databases moved between revisions any number of times; *)
(*   RunClient, for any keys, clients, requests and definitions, and streams *)
(*     that break any number of times.                                     *)
(***************************************************************************)
EXTENDS Exchange, Migrations, RunClient, Induction, SequenceTheorems, TLAPS

(***************************************************************************)
(* The rows, as a sequence of anything.                                    *)
(***************************************************************************)
IsSeq(rs) == \E E : rs \in Seq(E)

LEMMA NoRows == IsSeq(<<>>) /\ Len(<<>>) = 0 /\ DOMAIN <<>> = {}
<1>1. <<>> \in Seq({}) /\ Len(<<>>) = 0 /\ DOMAIN <<>> = {}
  BY NoElements
<1> QED BY <1>1 DEF IsSeq

LEMMA SeqDomain == ASSUME NEW rs, IsSeq(rs) PROVE Len(rs) \in Nat /\ DOMAIN rs = 1 .. Len(rs) /\ IsFiniteSet(DOMAIN rs)
<1>1. PICK E : rs \in Seq(E)
  BY DEF IsSeq
<1>2. Len(rs) \in Nat /\ DOMAIN rs = 1 .. Len(rs)
  BY <1>1
<1>3. IsFiniteSet(1 .. Len(rs))
  BY <1>2, FS_Interval
<1> QED BY <1>2, <1>3

LEMMA RowAppended ==
  ASSUME NEW rs, IsSeq(rs), NEW row
  PROVE  /\ IsSeq(Append(rs, row)) /\ Len(Append(rs, row)) = Len(rs) + 1
         /\ DOMAIN Append(rs, row) = 1 .. Len(rs) + 1
         /\ \A i \in DOMAIN rs : Append(rs, row)[i] = rs[i]
         /\ Append(rs, row)[Len(rs) + 1] = row
<1>1. PICK E : rs \in Seq(E)
  BY DEF IsSeq
<1> DEFINE E1 == E \cup {row}
<1>2. rs \in Seq(E1) /\ row \in E1
  <2>1. E \subseteq E1
    OBVIOUS
  <2> HIDE DEF E1
  <2>2. rs \in Seq(E1)
    BY <1>1, <2>1, SeqMonotone
  <2> QED BY <2>2 DEF E1
<1> HIDE DEF E1
<1>3. /\ Append(rs, row) \in Seq(E1) /\ Len(Append(rs, row)) = Len(rs) + 1
      /\ \A i \in 1 .. Len(rs) : Append(rs, row)[i] = rs[i]
      /\ Append(rs, row)[Len(rs) + 1] = row /\ DOMAIN rs = 1 .. Len(rs)
  BY <1>2
<1>4. DOMAIN Append(rs, row) = 1 .. Len(rs) + 1
  BY <1>3
<1> QED BY <1>3, <1>4 DEF IsSeq

(* a finite set of numbers has a greatest *)
LEMMA GreatestId ==
  ASSUME NEW S, S \subseteq Nat, IsFiniteSet(S), S # {}
  PROVE  \E i \in S : \A j \in S : j <= i
<1>1. S \subseteq Int
  OBVIOUS
<1>2. Max(S) \in S /\ \A j \in S : j <= Max(S)
  BY <1>1, FiniteExtremes
<1> QED BY <1>2

(* The image of finitely many rows, as a set of numbers, has a greatest. *)
LEMMA GreatestVersion ==
  ASSUME NEW rs, IsSeq(rs), NEW S \in SUBSET DOMAIN rs, S # {}, \A i \in S : rs[i].version \in Nat
  PROVE  \E i \in S : \A j \in S : rs[j].version <= rs[i].version
<1> DEFINE Top(T) == \E i \in T : \A j \in T : rs[j].version <= rs[i].version
           G == {T \in SUBSET S : T = {} \/ Top(T)}
<1>1. IsFiniteSet(S)
  BY SeqDomain, FS_Subset
<1>2. {} \in G
  OBVIOUS
<1>3. ASSUME NEW T \in SUBSET S, NEW x \in S \ T, T \in G PROVE T \cup {x} \in G
  <2>1. CASE T = {}
    <3>1. x \in T \cup {x} /\ \A j \in T \cup {x} : rs[j].version <= rs[x].version
      BY <2>1
    <3> QED BY <3>1
  <2>2. CASE T # {}
    <3>1. PICK i \in T : \A j \in T : rs[j].version <= rs[i].version
      BY <1>3, <2>2
    <3>2. CASE rs[x].version <= rs[i].version
      <4>1. i \in T \cup {x} /\ \A j \in T \cup {x} : rs[j].version <= rs[i].version
        BY <3>1, <3>2
      <4> QED BY <4>1
    <3>3. CASE ~(rs[x].version <= rs[i].version)
      <4>1. x \in T \cup {x} /\ \A j \in T \cup {x} : rs[j].version <= rs[x].version
        BY <3>1, <3>3
      <4> QED BY <4>1
    <3> QED BY <3>2, <3>3
  <2> QED BY <2>1, <2>2
<1>4. \A T \in SUBSET S : T \in G
  <2> HIDE DEF G
  <2> QED BY <1>1, <1>2, <1>3, FiniteSubsets
<1> QED BY <1>4

(***************************************************************************)
(* The tables: a column of an archived row names an artifact or is one     *)
(* whose ids are replaced, and a foreign key leads to a table that was     *)
(* copied before, or to the table itself: to a parent, or in a table whose *)
(* rows are listed as they were inserted.                                  *)
(***************************************************************************)
ArchivedNames == Range(ArchivedTables)
Place(table) == CHOOSE n \in DOMAIN ArchivedTables : ArchivedTables[n] = table
InsertionOrder(table) == table \notin ByHash /\ table \notin ByLogicalId

TableFits(table) ==
  /\ \A c \in Columns(table) : IsFile(table, c) \/ c \in IdColumns(table)
  /\ \A c \in IdColumns(table) : ~IsFile(table, c)
  /\ \A c \in IdColumns(table) : c \in DOMAIN Refs(table) =>
       \/ Place(Refs(table)[c]) < Place(table)
       \/ Refs(table)[c] = table /\ (c = "parent_id" \/ InsertionOrder(table))

LEMMA TableAt ==
  /\ DOMAIN ArchivedTables = 1 .. 20 /\ Len(ArchivedTables) = 20
  /\ ArchivedTables[1] = "target_config_versions" /\ ArchivedTables[2] = "grader_versions"
  /\ ArchivedTables[3] = "scenario_versions" /\ ArchivedTables[4] = "dataset_versions"
  /\ ArchivedTables[5] = "cases" /\ ArchivedTables[6] = "release_policies"
  /\ ArchivedTables[7] = "runs" /\ ArchivedTables[8] = "run_candidates"
  /\ ArchivedTables[9] = "grading_runs" /\ ArchivedTables[10] = "trials"
  /\ ArchivedTables[11] = "attempts" /\ ArchivedTables[12] = "grades"
  /\ ArchivedTables[13] = "trial_outcomes" /\ ArchivedTables[14] = "reviews"
  /\ ArchivedTables[15] = "comparisons" /\ ArchivedTables[16] = "calibration_versions"
  /\ ArchivedTables[17] = "probability_records" /\ ArchivedTables[18] = "external_imports"
  /\ ArchivedTables[19] = "external_results" /\ ArchivedTables[20] = "artifact_refs"
BY DEF ArchivedTables

LEMMA TableOnce == \A m, n \in 1 .. 20 : ArchivedTables[m] = ArchivedTables[n] => m = n
BY TableAt

LEMMA PlaceOf == \A n \in 1 .. 20 : Place(ArchivedTables[n]) = n
<1> SUFFICES ASSUME NEW n \in 1 .. 20 PROVE Place(ArchivedTables[n]) = n
  OBVIOUS
<1>1. \A m \in DOMAIN ArchivedTables : ArchivedTables[m] = ArchivedTables[n] <=> m = n
  BY TableAt, TableOnce
<1> QED BY <1>1, TableAt DEF Place

LEMMA Places ==
  /\ Place("target_config_versions") = 1 /\ Place("grader_versions") = 2 /\ Place("scenario_versions") = 3
  /\ Place("dataset_versions") = 4 /\ Place("cases") = 5 /\ Place("release_policies") = 6
  /\ Place("runs") = 7 /\ Place("run_candidates") = 8 /\ Place("grading_runs") = 9
  /\ Place("trials") = 10 /\ Place("attempts") = 11 /\ Place("grades") = 12
  /\ Place("trial_outcomes") = 13 /\ Place("reviews") = 14 /\ Place("comparisons") = 15
  /\ Place("calibration_versions") = 16 /\ Place("probability_records") = 17 /\ Place("external_imports") = 18
  /\ Place("external_results") = 19 /\ Place("artifact_refs") = 20
BY TableAt, PlaceOf

LEMMA RefsAre ==
  /\ Refs("target_config_versions") = TargetTable.refs /\ Refs("grader_versions") = GraderTable.refs
  /\ Refs("scenario_versions") = ScenarioTable.refs /\ Refs("dataset_versions") = DatasetTable.refs
  /\ Refs("cases") = CaseTable.refs /\ Refs("release_policies") = PolicyTable.refs
  /\ Refs("runs") = RunTable.refs /\ Refs("run_candidates") = CandidateTable.refs
  /\ Refs("grading_runs") = GradingRunTable.refs /\ Refs("trials") = TrialTable.refs
  /\ Refs("attempts") = AttemptTable.refs /\ Refs("grades") = GradeTable.refs
  /\ Refs("trial_outcomes") = OutcomeTable.refs /\ Refs("reviews") = ReviewTable.refs
  /\ Refs("comparisons") = ComparisonTable.refs /\ Refs("calibration_versions") = CalibrationTable.refs
  /\ Refs("probability_records") = ProbabilityTable.refs /\ Refs("external_imports") = ExternalImportTable.refs
  /\ Refs("external_results") = ExternalResultTable.refs /\ Refs("artifact_refs") = ArtifactRefTable.refs
BY DEF Refs, Models

LEMMA IdColumnsAre ==
  /\ IdColumns("target_config_versions") = {"parent_id", "generation"}
  /\ IdColumns("grader_versions") = {"judge_config_id", "parent_id"}
  /\ IdColumns("scenario_versions") = {"parent_id", "grader_refs"}
  /\ IdColumns("dataset_versions") = {"scenario_id", "parent_id"}
  /\ IdColumns("cases") = {"dataset_id"}
  /\ IdColumns("release_policies") = {}
  /\ IdColumns("runs") = {"scenario_id", "dataset_id", "parent_run_id"}
  /\ IdColumns("run_candidates") = {"run_id", "target_config_id"}
  /\ IdColumns("grading_runs") = {"run_id", "grader_ids"}
  /\ IdColumns("trials") = {"run_id", "case_id", "selected_attempt_id"}
  /\ IdColumns("attempts") = {"trial_id"}
  /\ IdColumns("grades") = {"grading_run_id", "trial_id", "grader_id"}
  /\ IdColumns("trial_outcomes") = {"grading_run_id", "trial_id"}
  /\ IdColumns("reviews") = {"trial_id", "supersedes_id", "grade_ids"}
  /\ IdColumns("comparisons") = {"baseline_run_id", "candidate_run_id", "policy_id", "grading_run_ids"}
  /\ IdColumns("calibration_versions") = {}
  /\ IdColumns("probability_records") = {"dataset_id", "case_id", "trial_id"}
  /\ IdColumns("external_imports") = {}
  /\ IdColumns("external_results") = {"import_id"}
  /\ IdColumns("artifact_refs") = {"entity_id"}
BY DEF IdColumns

LEMMA LooseAre ==
  /\ Loose("target_config_versions") = <<>>
  /\ Loose("grader_versions") = <<>>
  /\ Loose("scenario_versions") = <<>>
  /\ Loose("dataset_versions") = <<>>
  /\ Loose("cases") = <<>>
  /\ Loose("release_policies") = <<>>
  /\ Loose("runs") = <<>>
  /\ Loose("run_candidates") = <<>>
  /\ Loose("grading_runs") = [grader_ids |-> "grader_versions"]
  /\ Loose("trials") = [selected_attempt_id |-> "attempts"]
  /\ Loose("attempts") = <<>>
  /\ Loose("grades") = <<>>
  /\ Loose("trial_outcomes") = <<>>
  /\ Loose("reviews") = [grade_ids |-> "grades"]
  /\ Loose("comparisons") = [grading_run_ids |-> "grading_runs"]
  /\ Loose("calibration_versions") = <<>>
  /\ Loose("probability_records") = <<>>
  /\ Loose("external_imports") = <<>>
  /\ Loose("external_results") = <<>>
  /\ Loose("artifact_refs") = [entity_id |-> "attempts"]
BY DEF Loose

LEMMA TablesFit == \A table \in ArchivedNames : TableFits(table)
<1> USE DEF TableFits, IsFile, Columns, InsertionOrder, ByHash, ByLogicalId, Table, Versioned, Unversioned
<1>1. TableFits("target_config_versions")
  <2>1. /\ Refs("target_config_versions") = TargetTable.refs /\ Loose("target_config_versions") = <<>>
        /\ IdColumns("target_config_versions") = {"parent_id", "generation"}
        /\ Place("target_config_versions") = 1
    BY Places, RefsAre, IdColumnsAre, LooseAre
  <2> QED BY <2>1, NoRows DEF TargetTable
<1>2. TableFits("grader_versions")
  <2>1. /\ Refs("grader_versions") = GraderTable.refs /\ Loose("grader_versions") = <<>>
        /\ IdColumns("grader_versions") = {"judge_config_id", "parent_id"}
        /\ Place("target_config_versions") = 1 /\ Place("grader_versions") = 2
    BY Places, RefsAre, IdColumnsAre, LooseAre
  <2> QED BY <2>1, NoRows DEF GraderTable
<1>3. TableFits("scenario_versions")
  <2>1. /\ Refs("scenario_versions") = ScenarioTable.refs /\ Loose("scenario_versions") = <<>>
        /\ IdColumns("scenario_versions") = {"parent_id", "grader_refs"} /\ Place("scenario_versions") = 3
    BY Places, RefsAre, IdColumnsAre, LooseAre
  <2> QED BY <2>1, NoRows DEF ScenarioTable
<1>4. TableFits("dataset_versions")
  <2>1. /\ Refs("dataset_versions") = DatasetTable.refs /\ Loose("dataset_versions") = <<>>
        /\ IdColumns("dataset_versions") = {"scenario_id", "parent_id"} /\ Place("scenario_versions") = 3
        /\ Place("dataset_versions") = 4
    BY Places, RefsAre, IdColumnsAre, LooseAre
  <2> QED BY <2>1, NoRows DEF DatasetTable
<1>5. TableFits("cases")
  <2>1. /\ Refs("cases") = CaseTable.refs /\ Loose("cases") = <<>> /\ IdColumns("cases") = {"dataset_id"}
        /\ Place("dataset_versions") = 4 /\ Place("cases") = 5
    BY Places, RefsAre, IdColumnsAre, LooseAre
  <2> QED BY <2>1, NoRows DEF CaseTable
<1>6. TableFits("release_policies")
  <2>1. /\ Refs("release_policies") = PolicyTable.refs /\ Loose("release_policies") = <<>>
        /\ IdColumns("release_policies") = {} /\ Place("release_policies") = 6
    BY Places, RefsAre, IdColumnsAre, LooseAre
  <2> QED BY <2>1, NoRows DEF PolicyTable
<1>7. TableFits("runs")
  <2>1. /\ Refs("runs") = RunTable.refs /\ Loose("runs") = <<>>
        /\ IdColumns("runs") = {"scenario_id", "dataset_id", "parent_run_id"} /\ Place("scenario_versions") = 3
        /\ Place("dataset_versions") = 4 /\ Place("runs") = 7
    BY Places, RefsAre, IdColumnsAre, LooseAre
  <2> QED BY <2>1, NoRows DEF RunTable
<1>8. TableFits("run_candidates")
  <2>1. /\ Refs("run_candidates") = CandidateTable.refs /\ Loose("run_candidates") = <<>>
        /\ IdColumns("run_candidates") = {"run_id", "target_config_id"} /\ Place("target_config_versions") = 1
        /\ Place("runs") = 7 /\ Place("run_candidates") = 8
    BY Places, RefsAre, IdColumnsAre, LooseAre
  <2> QED BY <2>1, NoRows DEF CandidateTable
<1>9. TableFits("grading_runs")
  <2>1. /\ Refs("grading_runs") = GradingRunTable.refs
        /\ Loose("grading_runs") = [grader_ids |-> "grader_versions"]
        /\ IdColumns("grading_runs") = {"run_id", "grader_ids"} /\ Place("runs") = 7
        /\ Place("grading_runs") = 9
    BY Places, RefsAre, IdColumnsAre, LooseAre
  <2> QED BY <2>1, NoRows DEF GradingRunTable
<1>10. TableFits("trials")
  <2>1. /\ Refs("trials") = TrialTable.refs /\ Loose("trials") = [selected_attempt_id |-> "attempts"]
        /\ IdColumns("trials") = {"run_id", "case_id", "selected_attempt_id"} /\ Place("cases") = 5
        /\ Place("runs") = 7 /\ Place("trials") = 10
    BY Places, RefsAre, IdColumnsAre, LooseAre
  <2> QED BY <2>1, NoRows DEF TrialTable
<1>11. TableFits("attempts")
  <2>1. /\ Refs("attempts") = AttemptTable.refs /\ Loose("attempts") = <<>>
        /\ IdColumns("attempts") = {"trial_id"} /\ Place("trials") = 10 /\ Place("attempts") = 11
    BY Places, RefsAre, IdColumnsAre, LooseAre
  <2> QED BY <2>1, NoRows DEF AttemptTable
<1>12. TableFits("grades")
  <2>1. /\ Refs("grades") = GradeTable.refs /\ Loose("grades") = <<>>
        /\ IdColumns("grades") = {"grading_run_id", "trial_id", "grader_id"} /\ Place("grader_versions") = 2
        /\ Place("grading_runs") = 9 /\ Place("trials") = 10 /\ Place("grades") = 12
    BY Places, RefsAre, IdColumnsAre, LooseAre
  <2> QED BY <2>1, NoRows DEF GradeTable
<1>13. TableFits("trial_outcomes")
  <2>1. /\ Refs("trial_outcomes") = OutcomeTable.refs /\ Loose("trial_outcomes") = <<>>
        /\ IdColumns("trial_outcomes") = {"grading_run_id", "trial_id"} /\ Place("grading_runs") = 9
        /\ Place("trials") = 10 /\ Place("trial_outcomes") = 13
    BY Places, RefsAre, IdColumnsAre, LooseAre
  <2> QED BY <2>1, NoRows DEF OutcomeTable
<1>14. TableFits("reviews")
  <2>1. /\ Refs("reviews") = ReviewTable.refs /\ Loose("reviews") = [grade_ids |-> "grades"]
        /\ IdColumns("reviews") = {"trial_id", "supersedes_id", "grade_ids"} /\ Place("trials") = 10
        /\ Place("reviews") = 14
    BY Places, RefsAre, IdColumnsAre, LooseAre
  <2> QED BY <2>1, NoRows DEF ReviewTable
<1>15. TableFits("comparisons")
  <2>1. /\ Refs("comparisons") = ComparisonTable.refs
        /\ Loose("comparisons") = [grading_run_ids |-> "grading_runs"]
        /\ IdColumns("comparisons") = {"baseline_run_id", "candidate_run_id", "policy_id", "grading_run_ids"}
        /\ Place("release_policies") = 6 /\ Place("runs") = 7 /\ Place("comparisons") = 15
    BY Places, RefsAre, IdColumnsAre, LooseAre
  <2> QED BY <2>1, NoRows DEF ComparisonTable
<1>16. TableFits("calibration_versions")
  <2>1. /\ Refs("calibration_versions") = CalibrationTable.refs /\ Loose("calibration_versions") = <<>>
        /\ IdColumns("calibration_versions") = {} /\ Place("calibration_versions") = 16
    BY Places, RefsAre, IdColumnsAre, LooseAre
  <2> QED BY <2>1, NoRows DEF CalibrationTable
<1>17. TableFits("probability_records")
  <2>1. /\ Refs("probability_records") = ProbabilityTable.refs /\ Loose("probability_records") = <<>>
        /\ IdColumns("probability_records") = {"dataset_id", "case_id", "trial_id"}
        /\ Place("dataset_versions") = 4 /\ Place("cases") = 5 /\ Place("trials") = 10
        /\ Place("probability_records") = 17
    BY Places, RefsAre, IdColumnsAre, LooseAre
  <2> QED BY <2>1, NoRows DEF ProbabilityTable
<1>18. TableFits("external_imports")
  <2>1. /\ Refs("external_imports") = ExternalImportTable.refs /\ Loose("external_imports") = <<>>
        /\ IdColumns("external_imports") = {} /\ Place("external_imports") = 18
    BY Places, RefsAre, IdColumnsAre, LooseAre
  <2> QED BY <2>1, NoRows DEF ExternalImportTable
<1>19. TableFits("external_results")
  <2>1. /\ Refs("external_results") = ExternalResultTable.refs /\ Loose("external_results") = <<>>
        /\ IdColumns("external_results") = {"import_id"} /\ Place("external_imports") = 18
        /\ Place("external_results") = 19
    BY Places, RefsAre, IdColumnsAre, LooseAre
  <2> QED BY <2>1, NoRows DEF ExternalResultTable
<1>20. TableFits("artifact_refs")
  <2>1. /\ Refs("artifact_refs") = ArtifactRefTable.refs /\ Loose("artifact_refs") = [entity_id |-> "attempts"]
        /\ IdColumns("artifact_refs") = {"entity_id"} /\ Place("artifact_refs") = 20
    BY Places, RefsAre, IdColumnsAre, LooseAre
  <2> QED BY <2>1, NoRows DEF ArtifactRefTable
<1>21. \A table \in ArchivedNames : \E n \in 1 .. 20 : table = ArchivedTables[n]
  BY TableAt DEF ArchivedNames, Range
<1> HIDE DEF TableFits
<1>22. \A n \in 1 .. 20 : TableFits(ArchivedTables[n])
  BY <1>1, <1>2, <1>3, <1>4, <1>5, <1>6, <1>7, <1>8, <1>9, <1>10, <1>11, <1>12, <1>13, <1>14, <1>15, <1>16, <1>17,
     <1>18, <1>19, <1>20, TableAt
<1> QED BY <1>21, <1>22

(***************************************************************************)
(* What is true of the rows: a row's logical id is at most its position,   *)
(* because a new one is the position of the row that starts it; the two    *)
(* parts of VersionsAreHonest, of the rows of one definition and of a      *)
(* row's references; and that a column which refers to a table by a        *)
(* foreign key holds the id of a row of that table.                        *)
(***************************************************************************)
RowTyped(rs, i) ==
  /\ rs[i].logical \in 0 .. i /\ rs[i].version \in Nat
  /\ \A c \in DOMAIN rs[i].refs : rs[i].refs[c] \in Int
  /\ rs[i].table = "dataset_versions" => "scenario_id" \in DOMAIN rs[i].refs

OneDefinition(rs, i, j) ==
  rs[i].table = rs[j].table /\ rs[i].logical = rs[j].logical /\ rs[i].logical # NoId

Rising(rs, i, j) ==
  OneDefinition(rs, i, j) => rs[i].version < rs[j].version

NotTwice(rs, i, j) ==
  OneDefinition(rs, i, j) /\ rs[i].project = rs[j].project /\ rs[i].hash = rs[j].hash /\ rs[i].beside = rs[j].beside =>
     \E k \in i + 1 .. j - 1 : /\ rs[k].table = rs[j].table /\ rs[k].logical = rs[j].logical
                               /\ rs[k].hash = rs[j].hash /\ rs[k].beside # rs[j].beside

FromOther(table, c) == c = "parent_id" /\ table \in {"dataset_versions", "target_config_versions"}

Refers(rs, i, c) ==
  LET id == rs[i].refs[c] IN
  id > NoId => /\ id < i \/ c = "selected_attempt_id"
               /\ rs[id].project = rs[i].project \/ FromOther(rs[i].table, c)

InPlace(rs) ==
  /\ IsSeq(rs) /\ \A i \in DOMAIN rs : RowTyped(rs, i)
  /\ \A i, j \in DOMAIN rs : i < j => Rising(rs, i, j) /\ NotTwice(rs, i, j)

(* selected_attempt_id is the id of a row that may come later *)
RefersWithin(rs) ==
  \A i \in DOMAIN rs : \A c \in DOMAIN rs[i].refs :
     rs[i].refs[c] \in 1 .. Len(rs) \/ rs[i].refs[c] <= NoId
RefsHold(rs) == \A i \in DOMAIN rs : \A c \in DOMAIN rs[i].refs : Refers(rs, i, c)


RowFields == {"table", "project", "logical", "version", "hash", "beside", "refs"}

Link(rs, table, c, id) ==
  \/ IsFile(table, c)
  \/ /\ c \in IdColumns(table)
     /\ c \in DOMAIN Refs(table) /\ id # NoId => id \in DOMAIN rs /\ rs[id].table = Refs(table)[c]

Linked(rs) ==
  \A i \in DOMAIN rs : /\ DOMAIN rs[i] = RowFields /\ rs[i].table \in ArchivedNames
                       /\ \A c \in DOMAIN rs[i].refs : Link(rs, rs[i].table, c, rs[i].refs[c])

LEMMA LinkKept ==
  ASSUME NEW rs, NEW new, \A i \in DOMAIN rs : i \in DOMAIN new /\ new[i] = rs[i],
         NEW table, NEW c, NEW id, Link(rs, table, c, id)
  PROVE  Link(new, table, c, id)
  BY DEF Link

RowsHold(rs) == InPlace(rs) /\ RefersWithin(rs) /\ RefsHold(rs) /\ Linked(rs)

LEMMA HonestIf == ASSUME RowsHold(rows) PROVE VersionsAreHonest
<1>1. /\ \A i, j \in DOMAIN rows : i < j => Rising(rows, i, j) /\ NotTwice(rows, i, j)
      /\ \A i \in DOMAIN rows : \A c \in DOMAIN rows[i].refs : Refers(rows, i, c)
  BY DEF RowsHold, InPlace, RefsHold
<1> USE DEF FromOther, OneDefinition
<1>2. ASSUME NEW i \in DOMAIN rows, NEW j \in DOMAIN rows, i < j, OneDefinition(rows, i, j)
      PROVE  /\ rows[i].version < rows[j].version
             /\ rows[i].project = rows[j].project /\ rows[i].hash = rows[j].hash /\ rows[i].beside = rows[j].beside =>
                  \E k \in i + 1 .. j - 1 : /\ rows[k].table = rows[j].table /\ rows[k].logical = rows[j].logical
                                            /\ rows[k].hash = rows[j].hash /\ rows[k].beside # rows[j].beside
  <2>1. Rising(rows, i, j) /\ NotTwice(rows, i, j)
    BY <1>1, <1>2
  <2> QED BY <2>1, <1>2 DEF Rising, NotTwice
<1>3. ASSUME NEW i \in DOMAIN rows, NEW c \in DOMAIN rows[i].refs
      PROVE  LET id == rows[i].refs[c] IN
             id > NoId => /\ id < i \/ c = "selected_attempt_id"
                          /\ \/ rows[id].project = rows[i].project
                             \/ c = "parent_id" /\ rows[i].table \in {"dataset_versions", "target_config_versions"}
  BY <1>1 DEF Refers
<1> QED BY <1>2, <1>3 DEF VersionsAreHonest

LEMMA NoRowsHold == RowsHold(<<>>)
BY NoRows DEF RowsHold, InPlace, RefersWithin, RefsHold, Linked

(* One more row: what has to be shown of it. *)
LEMMA OneMore ==
  ASSUME NEW rs, InPlace(rs), NEW row, row.logical \in 0 .. Len(rs) + 1, row.version \in Nat,
         \A c \in DOMAIN row.refs : row.refs[c] \in Int,
         row.table = "dataset_versions" => "scenario_id" \in DOMAIN row.refs,
         \A i \in DOMAIN rs : rs[i].table = row.table /\ rs[i].logical = row.logical /\ row.logical # NoId =>
            /\ rs[i].version < row.version
            /\ rs[i].project = row.project /\ rs[i].hash = row.hash /\ rs[i].beside = row.beside =>
                 \E k \in i + 1 .. Len(rs) : /\ rs[k].table = row.table /\ rs[k].logical = row.logical
                                             /\ rs[k].hash = row.hash /\ rs[k].beside # row.beside
  PROVE  InPlace(Append(rs, row))
<1> DEFINE new == Append(rs, row)
           n == Len(rs) + 1
<1>1. IsSeq(rs) /\ Len(rs) \in Nat /\ DOMAIN rs = 1 .. Len(rs)
  BY SeqDomain DEF InPlace
<1>2. IsSeq(new) /\ Len(new) = n /\ DOMAIN new = 1 .. n /\ (\A i \in DOMAIN rs : new[i] = rs[i]) /\ new[n] = row
  BY <1>1, RowAppended
<1>3. \A i \in DOMAIN new : i # n => i \in DOMAIN rs /\ new[i] = rs[i] /\ i < n
  BY <1>1, <1>2
<1>4. n \in Nat /\ n - 1 = Len(rs)
  BY <1>1
<1> HIDE DEF new, n
<1>5. ASSUME NEW i \in DOMAIN new PROVE RowTyped(new, i)
  <2>1. CASE i = n
    BY <1>2, <1>4, <2>1 DEF RowTyped, n
  <2>2. CASE i # n
    <3>1. i \in DOMAIN rs /\ new[i] = rs[i] /\ RowTyped(rs, i)
      BY <1>3, <2>2 DEF InPlace
    <3> QED BY <3>1 DEF RowTyped
  <2> QED BY <2>1, <2>2
<1>6. ASSUME NEW i \in DOMAIN new, NEW j \in DOMAIN new, i < j PROVE Rising(new, i, j) /\ NotTwice(new, i, j)
  <2>1. i \in DOMAIN rs /\ new[i] = rs[i]
    BY <1>1, <1>2, <1>3, <1>4, <1>6
  <2>2. CASE j = n
    <3>1. Rising(new, i, j)
      BY <1>2, <2>1, <2>2 DEF Rising, OneDefinition
    <3>2. ASSUME OneDefinition(new, i, j), new[i].project = new[j].project, new[i].hash = new[j].hash,
                 new[i].beside = new[j].beside
          PROVE  \E k \in i + 1 .. j - 1 : /\ new[k].table = new[j].table /\ new[k].logical = new[j].logical
                                           /\ new[k].hash = new[j].hash /\ new[k].beside # new[j].beside
      <4>1. PICK k \in i + 1 .. Len(rs) : /\ rs[k].table = row.table /\ rs[k].logical = row.logical
                                          /\ rs[k].hash = row.hash /\ rs[k].beside # row.beside
        BY <1>2, <2>1, <2>2, <3>2 DEF OneDefinition
      <4>2. k \in DOMAIN rs /\ k \in i + 1 .. j - 1
        BY <1>1, <1>4, <2>1, <2>2
      <4>3. new[k] = rs[k] /\ new[j] = row
        BY <1>2, <2>2, <4>2
      <4> QED BY <4>1, <4>2, <4>3
    <3> QED BY <3>1, <3>2 DEF NotTwice
  <2>3. CASE j # n
    <3>1. j \in DOMAIN rs /\ new[j] = rs[j] /\ Rising(rs, i, j) /\ NotTwice(rs, i, j)
      BY <1>3, <1>6, <2>1, <2>3 DEF InPlace
    <3>2. \A k \in i + 1 .. j - 1 : new[k] = rs[k]
      BY <1>1, <1>2, <2>1, <3>1
    <3>3. Rising(new, i, j)
      BY <2>1, <3>1 DEF Rising, OneDefinition
    <3>4. NotTwice(new, i, j)
      BY <2>1, <3>1, <3>2 DEF NotTwice, OneDefinition
    <3> QED BY <3>3, <3>4
  <2> QED BY <2>2, <2>3
<1> QED BY <1>2, <1>5, <1>6 DEF InPlace, new

(* ... of its columns, ... *)
LEMMA LinkedOneMore ==
  ASSUME NEW rs, Linked(rs), NEW row, DOMAIN row = RowFields, row.table \in ArchivedNames,
         \A c \in DOMAIN row.refs : Link(rs, row.table, c, row.refs[c]),
         NEW new, \A i \in DOMAIN rs : i \in DOMAIN new /\ new[i] = rs[i],
         \A i \in DOMAIN new : i \in DOMAIN rs \/ new[i] = row
  PROVE  Linked(new)
<1> SUFFICES ASSUME NEW i \in DOMAIN new
             PROVE  /\ DOMAIN new[i] = RowFields /\ new[i].table \in ArchivedNames
                    /\ \A c \in DOMAIN new[i].refs : Link(new, new[i].table, c, new[i].refs[c])
  BY DEF Linked
<1>1. /\ DOMAIN new[i] = RowFields /\ new[i].table \in ArchivedNames
      /\ \A c \in DOMAIN new[i].refs : Link(rs, new[i].table, c, new[i].refs[c])
  BY DEF Linked
<1> QED BY <1>1, LinkKept

(* ... and of its references, if it has no later one. *)
LEMMA RefsOfOneMore ==
  ASSUME NEW rs, RowsHold(rs), NEW row, InPlace(Append(rs, row)),
         \A c \in DOMAIN row.refs : row.refs[c] \in Int /\ row.refs[c] <= Len(rs),
         \A c \in DOMAIN row.refs : row.refs[c] > NoId => rs[row.refs[c]].project = row.project \/ FromOther(row.table, c),
         DOMAIN row = RowFields, row.table \in ArchivedNames,
         \A c \in DOMAIN row.refs : Link(rs, row.table, c, row.refs[c])
  PROVE  RowsHold(Append(rs, row))
<1> DEFINE new == Append(rs, row)
           n == Len(rs) + 1
<1>1. IsSeq(rs) /\ Len(rs) \in Nat /\ DOMAIN rs = 1 .. Len(rs)
  BY SeqDomain DEF InPlace, RowsHold
<1>2. IsSeq(new) /\ Len(new) = n /\ DOMAIN new = 1 .. n /\ (\A i \in DOMAIN rs : new[i] = rs[i]) /\ new[n] = row
  BY <1>1, RowAppended
<1>3. \A i \in DOMAIN new : i # n => i \in DOMAIN rs /\ new[i] = rs[i] /\ i < n
  BY <1>1, <1>2
<1>4. n \in Nat /\ n - 1 = Len(rs)
  BY <1>1
<1> HIDE DEF new, n
<1>5. ASSUME NEW i \in DOMAIN new, NEW c \in DOMAIN new[i].refs
      PROVE  Refers(new, i, c) /\ (new[i].refs[c] \in 1 .. Len(new) \/ new[i].refs[c] <= NoId)
  <2>1. CASE i = n
    <3> DEFINE id == row.refs[c]
    <3>1. new[i] = row /\ id \in Int /\ id <= Len(rs)
      BY <1>2, <2>1
    <3>2. id > NoId => id \in DOMAIN rs /\ id < n /\ new[id] = rs[id]
      BY <1>1, <1>2, <1>4, <3>1 DEF NoId, n
    <3>3. id > NoId => rs[id].project = row.project \/ FromOther(row.table, c)
      BY <1>2, <2>1
    <3> HIDE DEF id
    <3>4. id \in 1 .. Len(new) \/ id <= NoId
      BY <1>1, <1>2, <3>1, <3>2 DEF NoId, n
    <3>5. new[i].refs[c] = id
      BY <3>1 DEF id
    <3> QED BY <2>1, <3>1, <3>2, <3>3, <3>4, <3>5 DEF Refers
  <2>2. CASE i # n
    <3> DEFINE id == rs[i].refs[c]
    <3>1. i \in DOMAIN rs /\ new[i] = rs[i]
      BY <1>3, <2>2
    <3>2. Refers(rs, i, c) /\ (id \in 1 .. Len(rs) \/ id <= NoId)
      BY <3>1 DEF RowsHold, RefsHold, RefersWithin
    <3>3. id > NoId => id \in DOMAIN rs /\ new[id] = rs[id]
      <4>1. id \in Int
        BY <3>1 DEF RowsHold, InPlace, RowTyped
      <4> HIDE DEF id
      <4> QED BY <1>1, <1>2, <3>2, <4>1 DEF NoId
    <3> HIDE DEF id
    <3>4. id \in 1 .. Len(new) \/ id <= NoId
      BY <1>1, <1>2, <3>2 DEF n
    <3>5. new[i].refs[c] = id /\ rs[i].refs[c] = id
      BY <3>1 DEF id
    <3> QED BY <3>1, <3>2, <3>3, <3>4, <3>5 DEF Refers
  <2> QED BY <2>1, <2>2
<1>6. Linked(new)
  <2>1. \A i \in DOMAIN rs : i \in DOMAIN new /\ new[i] = rs[i]
    BY <1>1, <1>2, <1>4 DEF n
  <2>2. \A i \in DOMAIN new : i \in DOMAIN rs \/ new[i] = row
    BY <1>2, <1>3
  <2> QED BY <2>1, <2>2, LinkedOneMore DEF RowsHold
<1> QED BY <1>5, <1>6 DEF RowsHold, RefsHold, RefersWithin, new

(***************************************************************************)
(* Saving a definition.  The next version of a logical id is above those   *)
(* there are.                                                              *)
(***************************************************************************)
LEMMA NextIsAbove ==
  ASSUME NEW rs, InPlace(rs), NEW table, NEW project, NEW logical
  PROVE  /\ NextVersion(rs, table, project, logical) \in Nat
         /\ \A i \in DOMAIN rs : rs[i].table = table /\ rs[i].logical = logical =>
              rs[i].version < NextVersion(rs, table, project, logical)
<1> DEFINE S == {j \in IdsIn(rs, table) : rs[j].logical = logical}
           versions == {rs[i].version : i \in S}
           top == CHOOSE v \in versions : \A w \in versions : w <= v
<1>1. IsSeq(rs) /\ S \in SUBSET DOMAIN rs /\ \A i \in S : rs[i].version \in Nat
  BY DEF InPlace, RowTyped, IdsIn
<1>2. \A i \in DOMAIN rs : i \in S <=> rs[i].table = table /\ rs[i].logical = logical
  BY DEF IdsIn
<1>3. NextVersion(rs, table, project, logical) = 1 + (IF versions = {} THEN 0 ELSE top)
  BY DEF NextVersion
<1> HIDE DEF S
<1>4. CASE S = {}
  <2>1. versions = {}
    BY <1>4
  <2> HIDE DEF versions, top
  <2> QED BY <1>2, <1>3, <1>4, <2>1
<1>5. CASE S # {}
  <2>1. \E i \in S : \A j \in S : rs[j].version <= rs[i].version
    <3> HIDE DEF versions, top
    <3> QED BY <1>1, <1>5, GreatestVersion
  <2>2. \E v \in versions : \A w \in versions : w <= v
    BY <2>1
  <2>3. top \in versions /\ \A w \in versions : w <= top
    BY <2>2
  <2>4. top \in Nat /\ \A i \in S : rs[i].version <= top
    BY <1>1, <2>3
  <2>5. versions # {}
    BY <2>2
  <2> HIDE DEF versions, top
  <2>6. NextVersion(rs, table, project, logical) = 1 + top
    BY <1>3, <2>5
  <2> QED BY <1>1, <1>2, <2>4, <2>6
<1> QED BY <1>4, <1>5

(* How a row may refer to others. *)
RefsKnown(rs, table, project, refs) ==
  /\ table \in ArchivedNames
  /\ \A c \in DOMAIN refs :
       /\ refs[c] \in Int /\ refs[c] <= Len(rs)
       /\ refs[c] > NoId => rs[refs[c]].project = project \/ FromOther(table, c)
       /\ Link(rs, table, c, refs[c])

(* What every save does: the rows there were stay, and its result is a row of the project. *)
Saved(saved, rs, table, project) ==
  /\ RowsHold(saved.rows) /\ Len(rs) <= Len(saved.rows)
  /\ \A i \in DOMAIN rs : saved.rows[i] = rs[i]
  /\ saved.id \in 1 .. Len(saved.rows)
  /\ saved.rows[saved.id].project = project /\ saved.rows[saved.id].table = table
  /\ DOMAIN saved = {"rows", "id"}

LEMMA SaveKeeps ==
  ASSUME NEW rs, RowsHold(rs), NEW table, NEW project, NEW logical \in 0 .. Len(rs), NEW hash, NEW beside, NEW refs,
         RefsKnown(rs, table, project, refs), table = "dataset_versions" => "scenario_id" \in DOMAIN refs,
         NEW saved \in Save(rs, table, project, logical, hash, beside, refs)
  PROVE  Saved(saved, rs, table, project)
<1> DEFINE same == {i \in IdsIn(rs, table) : /\ rs[i].project = project /\ rs[i].hash = hash
                                             /\ logical # NoId => rs[i].logical = logical}
           newest == {i \in same : \A j \in same : rs[j].version <= rs[i].version}
           own == IF logical = NoId THEN Len(rs) + 1 ELSE logical
           row == Row(table, project, own, NextVersion(rs, table, project, own), hash, beside, refs)
           added == [rows |-> Append(rs, row), id |-> Len(rs) + 1]
<1>1. saved \in IF newest = {} THEN {added}
                ELSE {IF rs[i].beside = beside THEN [rows |-> rs, id |-> i] ELSE added : i \in newest}
  BY DEF Save
<1>2. InPlace(rs) /\ IsSeq(rs) /\ Len(rs) \in Nat /\ DOMAIN rs = 1 .. Len(rs)
  BY SeqDomain DEF RowsHold, InPlace
<1>3. \A i \in DOMAIN rs : rs[i].logical \in 0 .. i /\ rs[i].version \in Nat
  BY <1>2 DEF InPlace, RowTyped
<1>4. /\ row.table = table /\ row.project = project /\ row.logical = own /\ row.hash = hash /\ row.beside = beside
      /\ row.refs = refs /\ row.version = NextVersion(rs, table, project, own)
  BY DEF Row
<1>14. DOMAIN row = RowFields
  BY DEF Row, RowFields
<1>5. own \in 1 .. Len(rs) + 1 /\ (logical = NoId => own = Len(rs) + 1) /\ (logical # NoId => own = logical)
  BY <1>2 DEF NoId
<1>6. /\ row.version \in Nat
      /\ \A i \in DOMAIN rs : rs[i].table = row.table /\ rs[i].logical = row.logical => rs[i].version < row.version
  <2> HIDE DEF row, own
  <2> QED BY <1>2, <1>4, NextIsAbove
<1>7. \A i \in DOMAIN rs : i \in same <=> /\ rs[i].table = table /\ rs[i].project = project /\ rs[i].hash = hash
                                          /\ logical # NoId => rs[i].logical = logical
  BY DEF IdsIn
<1>8. same \subseteq DOMAIN rs
  BY DEF IdsIn
<1>9. \A i \in newest : i \in same /\ \A j \in same : rs[j].version <= rs[i].version
  OBVIOUS
<1>10. same # {} => newest # {}
  <2> SUFFICES ASSUME same # {} PROVE newest # {}
    OBVIOUS
  <2>1. \E i \in same : \A j \in same : rs[j].version <= rs[i].version
    <3> HIDE DEF same, newest
    <3>1. \A i \in same : rs[i].version \in Nat
      BY <1>3, <1>8
    <3> QED BY <1>2, <1>8, <3>1, GreatestVersion
  <2> QED BY <2>1
<1>11. CASE saved = added /\ \A i \in same : \E k \in newest : rs[k].beside # beside
  <2>1. ASSUME NEW i \in DOMAIN rs, rs[i].table = row.table, rs[i].logical = row.logical, row.logical # NoId,
               rs[i].project = row.project, rs[i].hash = row.hash, rs[i].beside = row.beside
        PROVE  \E k \in i + 1 .. Len(rs) : /\ rs[k].table = row.table /\ rs[k].logical = row.logical
                                           /\ rs[k].hash = row.hash /\ rs[k].beside # row.beside
    <3> HIDE DEF same, newest, row, own
    <3>1. logical # NoId /\ rs[i].logical = logical
      <4>1. rs[i].logical \in 0 .. i /\ i \in 1 .. Len(rs)
        BY <1>2, <1>3
      <4> QED BY <1>2, <1>4, <1>5, <2>1, <4>1
    <3>2. i \in same
      BY <1>4, <1>7, <2>1, <3>1
    <3>3. PICK k \in newest : rs[k].beside # beside
      BY <1>11, <3>2
    <3>4. k \in same /\ rs[i].version <= rs[k].version
      BY <1>9, <3>2, <3>3
    <3>5. k \in DOMAIN rs /\ rs[k].table = table /\ rs[k].logical = logical /\ rs[k].hash = hash
      BY <1>7, <1>8, <3>1, <3>4
    <3>6. i < k
      <4>1. k < i => Rising(rs, k, i)
        BY <1>2, <3>5 DEF InPlace
      <4>2. OneDefinition(rs, k, i)
        BY <1>4, <2>1, <3>1, <3>5 DEF OneDefinition
      <4>3. k < i => rs[k].version < rs[i].version
        BY <4>1, <4>2 DEF Rising
      <4>4. i # k
        BY <1>4, <2>1, <3>3
      <4>5. i \in Nat /\ k \in Nat /\ rs[i].version \in Nat /\ rs[k].version \in Nat
        BY <1>2, <1>3, <3>5
      <4> QED BY <3>4, <4>3, <4>4, <4>5
    <3>7. k \in i + 1 .. Len(rs)
      BY <1>2, <3>5, <3>6
    <3> QED BY <1>4, <1>5, <3>1, <3>3, <3>5, <3>7
  <2>2. InPlace(Append(rs, row))
    <3> HIDE DEF same, newest, row, own
    <3>1. row.logical \in 0 .. Len(rs) + 1
      BY <1>2, <1>4, <1>5
    <3>2. \A c \in DOMAIN row.refs : row.refs[c] \in Int
      BY <1>4 DEF RefsKnown
    <3>3. row.table = "dataset_versions" => "scenario_id" \in DOMAIN row.refs
      BY <1>4
    <3> QED BY <1>2, <1>6, <2>1, <3>1, <3>2, <3>3, OneMore
  <2>3. RowsHold(Append(rs, row))
    <3> HIDE DEF same, newest, row, own
    <3>1. /\ \A c \in DOMAIN row.refs : row.refs[c] \in Int /\ row.refs[c] <= Len(rs)
          /\ \A c \in DOMAIN row.refs : row.refs[c] > NoId => rs[row.refs[c]].project = row.project \/ FromOther(row.table, c)
          /\ row.table \in ArchivedNames /\ \A c \in DOMAIN row.refs : Link(rs, row.table, c, row.refs[c])
      BY <1>4 DEF RefsKnown
    <3>2. DOMAIN row = RowFields
      BY <1>14
    <3> QED BY <2>2, <3>1, <3>2, RefsOfOneMore
  <2> HIDE DEF row
  <2>4. saved.rows = Append(rs, row) /\ saved.id = Len(rs) + 1 /\ DOMAIN saved = {"rows", "id"}
    BY <1>11
  <2>5. /\ Len(Append(rs, row)) = Len(rs) + 1 /\ \A i \in DOMAIN rs : Append(rs, row)[i] = rs[i]
        /\ Append(rs, row)[Len(rs) + 1] = row
    BY <1>2, RowAppended
  <2> QED BY <1>2, <1>4, <2>3, <2>4, <2>5 DEF Saved
<1>12. CASE \E i \in newest : saved = [rows |-> rs, id |-> i]
  <2>1. PICK i \in newest : saved = [rows |-> rs, id |-> i]
    BY <1>12
  <2> HIDE DEF newest, same
  <2>2. i \in DOMAIN rs /\ rs[i].project = project /\ rs[i].table = table
    BY <1>7, <1>8, <1>9, <2>1
  <2>3. saved.rows = rs /\ saved.id = i /\ DOMAIN saved = {"rows", "id"}
    BY <2>1
  <2> QED BY <1>2, <2>2, <2>3 DEF Saved
<1>13. \/ saved = added /\ \A i \in same : \E k \in newest : rs[k].beside # beside
       \/ \E i \in newest : saved = [rows |-> rs, id |-> i]
  <2> HIDE DEF same, added
  <2>1. CASE newest = {}
    <3>1. same = {}
      BY <1>10, <2>1
    <3> QED BY <1>1, <2>1, <3>1
  <2>2. CASE newest # {}
    <3> HIDE DEF newest
    <3>1. PICK k \in newest : saved = IF rs[k].beside = beside THEN [rows |-> rs, id |-> k] ELSE added
      BY <1>1, <2>2
    <3> QED BY <3>1
  <2> QED BY <2>1, <2>2
<1> QED BY <1>11, <1>12, <1>13

(* The columns of the definitions, as the program fills them. *)
LEMMA DatasetLinks ==
  /\ {"dataset_versions", "cases"} \subseteq ArchivedNames
  /\ {"scenario_id", "parent_id"} \subseteq IdColumns("dataset_versions") /\ "dataset_id" \in IdColumns("cases")
  /\ Refs("dataset_versions")["scenario_id"] = "scenario_versions"
  /\ Refs("dataset_versions")["parent_id"] = "dataset_versions" /\ Refs("cases")["dataset_id"] = "dataset_versions"
<1>1. Refs("dataset_versions") = DatasetTable.refs /\ Refs("cases") = CaseTable.refs
  BY RefsAre
<1>2. /\ IdColumns("dataset_versions") = {"scenario_id", "parent_id"} /\ IdColumns("cases") = {"dataset_id"}
      /\ ArchivedTables[4] = "dataset_versions" /\ ArchivedTables[5] = "cases" /\ DOMAIN ArchivedTables = 1 .. 20
  BY IdColumnsAre, TableAt
<1> QED BY <1>1, <1>2 DEF DatasetTable, CaseTable, Versioned, Table, ArchivedNames, Range

LEMMA DefinitionLinks ==
  /\ {"target_config_versions", "grader_versions", "scenario_versions", "release_policies"} \subseteq ArchivedNames
  /\ {"parent_id", "generation"} \subseteq IdColumns("target_config_versions")
  /\ {"parent_id", "judge_config_id"} \subseteq IdColumns("grader_versions")
  /\ {"parent_id", "grader_refs"} \subseteq IdColumns("scenario_versions")
  /\ "generation" \notin DOMAIN Refs("target_config_versions") /\ "grader_refs" \notin DOMAIN Refs("scenario_versions")
  /\ Refs("target_config_versions")["parent_id"] = "target_config_versions"
  /\ Refs("grader_versions")["judge_config_id"] = "target_config_versions"
  /\ Refs("scenario_versions")["parent_id"] = "scenario_versions"
<1>1. /\ Refs("target_config_versions") = TargetTable.refs /\ Refs("grader_versions") = GraderTable.refs
      /\ Refs("scenario_versions") = ScenarioTable.refs
  BY RefsAre
<1>2. /\ IdColumns("target_config_versions") = {"parent_id", "generation"}
      /\ IdColumns("grader_versions") = {"judge_config_id", "parent_id"}
      /\ IdColumns("scenario_versions") = {"parent_id", "grader_refs"}
  BY IdColumnsAre
<1>3. /\ ArchivedTables[1] = "target_config_versions" /\ ArchivedTables[2] = "grader_versions"
      /\ ArchivedTables[3] = "scenario_versions" /\ ArchivedTables[6] = "release_policies"
      /\ DOMAIN ArchivedTables = 1 .. 20
  BY TableAt
<1>4. {"target_config_versions", "grader_versions", "scenario_versions", "release_policies"} \subseteq ArchivedNames
  BY <1>3 DEF ArchivedNames, Range
<1> QED BY <1>1, <1>2, <1>4 DEF TargetTable, GraderTable, ScenarioTable, Versioned, Table

LEMMA SaveDatasetKeeps ==
  ASSUME NEW rs, RowsHold(rs), NEW project, NEW scenario,
         scenario # NoId => /\ scenario \in DOMAIN rs /\ rs[scenario].project = project
                            /\ rs[scenario].table = "scenario_versions",
         NEW hash, NEW logical \in 0 .. Len(rs), NEW parent,
         parent # NoId => parent \in DOMAIN rs /\ rs[parent].table = "dataset_versions",
         NEW saved \in SaveDataset(rs, project, scenario, hash, logical, parent)
  PROVE  Saved(saved, rs, "dataset_versions", project)
<1> DEFINE refs == [scenario_id |-> scenario, parent_id |-> parent]
           of == Save(rs, "dataset_versions", project, logical, <<rs[scenario].hash, hash>>, scenario, refs)
           Case(id) == Row("cases", project, NoId, 0, hash, "none", [dataset_id |-> id])
<1>1. PICK s \in of : saved = IF s.rows = rs THEN s ELSE [s EXCEPT !.rows = Append(@, Case(s.id))]
  BY DEF SaveDataset
<1>2. IsSeq(rs) /\ Len(rs) \in Nat /\ DOMAIN rs = 1 .. Len(rs)
  BY SeqDomain DEF RowsHold, InPlace
<1>3. RefsKnown(rs, "dataset_versions", project, refs)
  <2>1. DOMAIN refs = {"scenario_id", "parent_id"} /\ refs["scenario_id"] = scenario /\ refs["parent_id"] = parent
    OBVIOUS
  <2>2. scenario \in 0 .. Len(rs) /\ parent \in 0 .. Len(rs)
    BY <1>2 DEF NoId
  <2>3. "dataset_versions" \in ArchivedNames
    BY DatasetLinks
  <2> HIDE DEF refs
  <2>4. \A c \in DOMAIN refs : Link(rs, "dataset_versions", c, refs[c])
    BY <2>1, DatasetLinks DEF Link
  <2> QED BY <1>2, <2>1, <2>2, <2>3, <2>4 DEF RefsKnown, FromOther, NoId
<1>4. "scenario_id" \in DOMAIN refs
  OBVIOUS
<1>5. Saved(s, rs, "dataset_versions", project)
  <2> HIDE DEF refs
  <2> QED BY <1>3, <1>4, SaveKeeps
<1>6. CASE s.rows = rs
  BY <1>1, <1>5, <1>6
<1>7. CASE s.rows # rs
  <2> DEFINE row == Case(s.id)
             new == Append(s.rows, row)
  <2>1. saved = [s EXCEPT !.rows = new]
    BY <1>1, <1>7
  <2>2. saved.rows = new /\ saved.id = s.id /\ DOMAIN saved = {"rows", "id"}
    <3> HIDE DEF new
    <3> QED BY <1>5, <2>1 DEF Saved
  <2>3. /\ row.table = "cases" /\ row.project = project /\ row.logical = NoId /\ row.version = 0
        /\ DOMAIN row.refs = {"dataset_id"} /\ row.refs["dataset_id"] = s.id
    BY DEF Row
  <2>4. /\ RowsHold(s.rows) /\ InPlace(s.rows) /\ IsSeq(s.rows) /\ s.id \in 1 .. Len(s.rows)
        /\ s.rows[s.id].project = project
    BY <1>5 DEF Saved, RowsHold, InPlace
  <2>5. Len(s.rows) \in Nat /\ DOMAIN s.rows = 1 .. Len(s.rows)
    BY <2>4, SeqDomain
  <2> HIDE DEF row
  <2>6. InPlace(new)
    <3>1. row.logical \in 0 .. Len(s.rows) + 1 /\ row.version \in Nat
      BY <2>3, <2>5 DEF NoId
    <3>2. \A c \in DOMAIN row.refs : row.refs[c] \in Int
      BY <2>3, <2>4
    <3>3. row.table # "dataset_versions" /\ row.logical = NoId
      BY <2>3
    <3> QED BY <2>4, <3>1, <3>2, <3>3, OneMore
  <2>7. RowsHold(new)
    <3>1. \A c \in DOMAIN row.refs : row.refs[c] \in Int /\ row.refs[c] <= Len(s.rows)
      BY <2>3, <2>4, <2>5
    <3>2. \A c \in DOMAIN row.refs : row.refs[c] > NoId => s.rows[row.refs[c]].project = row.project \/ FromOther(row.table, c)
      BY <2>3, <2>4
    <3>3. DOMAIN row = RowFields
      BY DEF row, Row, RowFields
    <3>4. s.id \in DOMAIN s.rows /\ s.rows[s.id].table = "dataset_versions"
      BY <1>5, <2>4, <2>5 DEF Saved
    <3>5. row.table \in ArchivedNames /\ \A c \in DOMAIN row.refs : Link(s.rows, row.table, c, row.refs[c])
      BY <2>3, <3>4, DatasetLinks DEF Link
    <3> QED BY <2>4, <2>6, <3>1, <3>2, <3>3, <3>5, RefsOfOneMore
  <2>8. Len(new) = Len(s.rows) + 1 /\ \A i \in DOMAIN s.rows : new[i] = s.rows[i]
    BY <2>4, RowAppended
  <2>9. Len(rs) <= Len(s.rows) /\ \A i \in DOMAIN rs : i \in DOMAIN s.rows /\ s.rows[i] = rs[i]
    BY <1>2, <1>5, <2>5 DEF Saved
  <2>10. s.id \in DOMAIN s.rows /\ s.rows[s.id].table = "dataset_versions"
    BY <1>5, <2>4, <2>5 DEF Saved
  <2> HIDE DEF new
  <2>11. s.id \in 1 .. Len(new) /\ Len(rs) <= Len(new)
    BY <1>2, <2>4, <2>5, <2>8, <2>9
  <2> QED BY <2>2, <2>4, <2>7, <2>8, <2>9, <2>10, <2>11 DEF Saved
<1> QED BY <1>6, <1>7

(***************************************************************************)
(* The operations of Definitions.                                          *)
(***************************************************************************)
LEMMA KnownIds ==
  ASSUME RowsHold(rows), NEW table
  PROVE  /\ IsSeq(rows) /\ Len(rows) \in Nat /\ DOMAIN rows = 1 .. Len(rows)
         /\ \A id \in OrNone(IdsIn(rows, table)) : id \in 0 .. Len(rows)
         /\ \A logical \in OrNone(Logicals(table)) : logical \in 0 .. Len(rows)
         /\ \A i \in DOMAIN rows : rows[i].logical \in 0 .. Len(rows)
         /\ \A id, project : id \in IdsOf(table, project) =>
              id \in DOMAIN rows /\ rows[id].project = project /\ rows[id].table = table
<1>1. IsSeq(rows) /\ Len(rows) \in Nat /\ DOMAIN rows = 1 .. Len(rows)
  BY SeqDomain DEF RowsHold, InPlace
<1>2. \A i \in DOMAIN rows : rows[i].logical \in 0 .. Len(rows)
  <2> SUFFICES ASSUME NEW i \in DOMAIN rows PROVE rows[i].logical \in 0 .. Len(rows)
    OBVIOUS
  <2>1. rows[i].logical \in 0 .. i
    BY DEF RowsHold, InPlace, RowTyped
  <2> QED BY <1>1, <2>1
<1>3. \A id \in OrNone(IdsIn(rows, table)) : id \in 0 .. Len(rows)
  BY <1>1 DEF OrNone, IdsIn, NoId
<1>4. \A logical \in OrNone(Logicals(table)) : logical \in 0 .. Len(rows)
  BY <1>1, <1>2 DEF OrNone, Logicals, IdsIn, NoId
<1>5. \A id, project : id \in IdsOf(table, project) =>
         id \in DOMAIN rows /\ rows[id].project = project /\ rows[id].table = table
  BY DEF IdsOf, IdsIn
<1> QED BY <1>1, <1>2, <1>3, <1>4, <1>5

LEMMA TargetKeeps ==
  ASSUME RowsHold(rows), NEW project, NEW hash, NEW name,
         NEW logical \in OrNone(Logicals("target_config_versions")),
         NEW parent \in OrNone(IdsIn(rows, "target_config_versions")), NEW generation \in Int,
         CreateTarget(project, hash, name, logical, parent, generation)
  PROVE  RowsHold(rows')
<1> DEFINE own == IF parent # NoId /\ logical = NoId THEN rows[parent].logical ELSE logical
           refs == [parent_id |-> parent, generation |-> generation]
<1>1. PICK saved \in Save(rows, "target_config_versions", project, own, <<hash, generation>>, name, refs) :
        rows' = saved.rows
  BY DEF CreateTarget
<1>2. generation # NoId => generation \in IdsOf("target_config_versions", project)
  BY DEF CreateTarget, GenerationKnown
<1>3. /\ Len(rows) \in Nat /\ DOMAIN rows = 1 .. Len(rows) /\ parent \in 0 .. Len(rows) /\ logical \in 0 .. Len(rows)
      /\ \A i \in DOMAIN rows : rows[i].logical \in 0 .. Len(rows)
  BY KnownIds
<1>4. generation # NoId => generation \in DOMAIN rows /\ rows[generation].project = project
  BY <1>2, KnownIds
<1>5. own \in 0 .. Len(rows)
  <2>1. parent # NoId => parent \in DOMAIN rows
    BY <1>3 DEF NoId
  <2> QED BY <1>3, <2>1
<1>6. RefsKnown(rows, "target_config_versions", project, refs)
  <2>1. DOMAIN refs = {"parent_id", "generation"} /\ refs["parent_id"] = parent /\ refs["generation"] = generation
    OBVIOUS
  <2>2. parent # NoId => parent \in DOMAIN rows /\ rows[parent].table = "target_config_versions"
    BY DEF OrNone, IdsIn
  <2> HIDE DEF refs
  <2>3. \A c \in DOMAIN refs : Link(rows, "target_config_versions", c, refs[c])
    BY <2>1, <2>2, DefinitionLinks DEF Link
  <2> QED BY <1>3, <1>4, <2>1, <2>3, DefinitionLinks DEF RefsKnown, FromOther, NoId
<1> HIDE DEF own, refs
<1>7. Saved(saved, rows, "target_config_versions", project)
  BY <1>5, <1>6, SaveKeeps
<1> QED BY <1>1, <1>7 DEF Saved

LEMMA SaveGraderKeeps ==
  ASSUME NEW rs, RowsHold(rs), NEW project, NEW hash, NEW judge,
         judge # NoId => /\ judge \in DOMAIN rs /\ rs[judge].project = project
                         /\ rs[judge].table = "target_config_versions",
         NEW logical \in 0 .. Len(rs), NEW saved \in SaveGrader(rs, project, hash, judge, logical)
  PROVE  Saved(saved, rs, "grader_versions", project)
<1> DEFINE refs == [judge_config_id |-> judge, parent_id |-> NoId]
           content == <<hash, {rs[j].hash : j \in {judge} \ {NoId}}>>
<1>1. saved \in Save(rs, "grader_versions", project, logical, content, "none", refs)
  BY DEF SaveGrader
<1>2. Len(rs) \in Nat /\ DOMAIN rs = 1 .. Len(rs) /\ judge \in 0 .. Len(rs)
  <2>1. Len(rs) \in Nat /\ DOMAIN rs = 1 .. Len(rs)
    BY SeqDomain DEF RowsHold, InPlace
  <2> QED BY <2>1 DEF NoId
<1>3. RefsKnown(rs, "grader_versions", project, refs)
  <2>1. DOMAIN refs = {"judge_config_id", "parent_id"} /\ refs["judge_config_id"] = judge /\ refs["parent_id"] = NoId
    OBVIOUS
  <2> HIDE DEF refs
  <2>2. \A c \in DOMAIN refs : Link(rs, "grader_versions", c, refs[c])
    BY <2>1, DefinitionLinks DEF Link
  <2> QED BY <1>2, <2>1, <2>2, DefinitionLinks DEF RefsKnown, NoId
<1> HIDE DEF refs, content
<1> QED BY <1>1, <1>3, SaveKeeps

LEMMA OwnIs ==
  ASSUME RowsHold(rows), NEW table, NEW project, NEW id, InOwnProject(id, table, project)
  PROVE  /\ id \in 0 .. Len(rows)
         /\ id # NoId => id \in DOMAIN rows /\ rows[id].project = project /\ rows[id].table = table
<1>1. Len(rows) \in Nat /\ DOMAIN rows = 1 .. Len(rows)
  BY KnownIds
<1>2. id # NoId => id \in DOMAIN rows /\ rows[id].project = project /\ rows[id].table = table
  BY KnownIds DEF InOwnProject
<1> QED BY <1>1, <1>2 DEF NoId

LEMMA GraderKeeps ==
  ASSUME RowsHold(rows), NEW project, NEW hash, NEW judge, NEW logical \in OrNone(Logicals("grader_versions")),
         CreateGrader(project, hash, judge, logical)
  PROVE  RowsHold(rows')
<1>1. PICK saved \in SaveGrader(rows, project, hash, judge, logical) : rows' = saved.rows
  BY DEF CreateGrader
<1>2. judge # NoId => /\ judge \in DOMAIN rows /\ rows[judge].project = project
                      /\ rows[judge].table = "target_config_versions"
  BY OwnIs DEF CreateGrader
<1>3. logical \in 0 .. Len(rows)
  BY KnownIds
<1>4. Saved(saved, rows, "grader_versions", project)
  BY <1>2, <1>3, SaveGraderKeeps
<1> QED BY <1>1, <1>4 DEF Saved

LEMMA ScenarioKeeps ==
  ASSUME RowsHold(rows), NEW project, NEW hash, NEW judge, NEW parent, NEW withCases,
         CreateScenario(project, hash, judge, parent, withCases)
  PROVE  RowsHold(rows')
<1> DEFINE logical == IF parent = NoId THEN NoId ELSE rows[parent].logical
           Grading(grader) == [grader_refs |-> grader.id, parent_id |-> parent]
<1>1. /\ judge # NoId => /\ judge \in DOMAIN rows /\ rows[judge].project = project
                         /\ rows[judge].table = "target_config_versions"
      /\ parent \in 0 .. Len(rows)
      /\ parent # NoId => /\ parent \in DOMAIN rows /\ rows[parent].project = project
                          /\ rows[parent].table = "scenario_versions"
  BY OwnIs DEF CreateScenario
<1>2. Len(rows) \in Nat /\ DOMAIN rows = 1 .. Len(rows) /\ \A i \in DOMAIN rows : rows[i].logical \in 0 .. Len(rows)
  BY KnownIds
<1>3. logical \in 0 .. Len(rows) /\ NoId \in 0 .. Len(rows)
  BY <1>1, <1>2 DEF NoId
<1>4. PICK grader \in SaveGrader(rows, project, hash, judge, NoId) :
        \E scenario \in Save(grader.rows, "scenario_versions", project, logical, hash, {grader.id}, Grading(grader)) :
          IF withCases
          THEN \E dataset \in SaveDataset(scenario.rows, project, scenario.id, hash, NoId, NoId) : rows' = dataset.rows
          ELSE rows' = scenario.rows
  BY DEF CreateScenario, ImportDocument
<1>5. PICK scenario \in Save(grader.rows, "scenario_versions", project, logical, hash, {grader.id}, Grading(grader)) :
        IF withCases
        THEN \E dataset \in SaveDataset(scenario.rows, project, scenario.id, hash, NoId, NoId) : rows' = dataset.rows
        ELSE rows' = scenario.rows
  BY <1>4
<1> HIDE DEF logical
<1>6. Saved(grader, rows, "grader_versions", project)
  BY <1>1, <1>3, SaveGraderKeeps
<1>7. Saved(scenario, grader.rows, "scenario_versions", project)
  <2> DEFINE refs == Grading(grader)
  <2>1. /\ RowsHold(grader.rows) /\ Len(grader.rows) \in Nat /\ Len(rows) <= Len(grader.rows)
        /\ DOMAIN grader.rows = 1 .. Len(grader.rows)
    BY <1>6, SeqDomain DEF Saved, RowsHold, InPlace
  <2>2. RefsKnown(grader.rows, "scenario_versions", project, refs)
    <3>1. DOMAIN refs = {"grader_refs", "parent_id"} /\ refs["grader_refs"] = grader.id /\ refs["parent_id"] = parent
      OBVIOUS
    <3>2. parent # NoId => /\ grader.rows[parent].project = project /\ grader.rows[parent].table = "scenario_versions"
                           /\ parent \in DOMAIN grader.rows
      BY <1>1, <1>2, <1>6, <2>1 DEF Saved
    <3>3. /\ grader.id \in 1 .. Len(grader.rows) /\ grader.rows[grader.id].project = project
          /\ parent \in 0 .. Len(rows)
      BY <1>1, <1>6 DEF Saved
    <3> HIDE DEF refs
    <3>4. \A c \in DOMAIN refs : Link(grader.rows, "scenario_versions", c, refs[c])
      BY <3>1, <3>2, DefinitionLinks DEF Link
    <3> QED BY <1>2, <2>1, <3>1, <3>2, <3>3, <3>4, DefinitionLinks DEF RefsKnown, NoId
  <2>3. logical \in 0 .. Len(grader.rows)
    BY <1>2, <1>3, <2>1
  <2>4. scenario \in Save(grader.rows, "scenario_versions", project, logical, hash, {grader.id}, refs)
    BY <1>5
  <2> HIDE DEF refs
  <2> QED BY <2>1, <2>2, <2>3, <2>4, SaveKeeps
<1>8. /\ RowsHold(scenario.rows) /\ Len(scenario.rows) \in Nat /\ DOMAIN scenario.rows = 1 .. Len(scenario.rows)
      /\ scenario.id \in 1 .. Len(scenario.rows)
      /\ scenario.rows[scenario.id].project = project /\ scenario.rows[scenario.id].table = "scenario_versions"
  BY <1>7, SeqDomain DEF Saved, RowsHold, InPlace
<1>9. CASE withCases
  <2>1. PICK dataset \in SaveDataset(scenario.rows, project, scenario.id, hash, NoId, NoId) : rows' = dataset.rows
    BY <1>5, <1>9
  <2>2. scenario.id \in DOMAIN scenario.rows /\ NoId \in 0 .. Len(scenario.rows)
    BY <1>8 DEF NoId
  <2>3. Saved(dataset, scenario.rows, "dataset_versions", project)
    BY <1>8, <2>2, SaveDatasetKeeps
  <2> QED BY <2>1, <2>3 DEF Saved
<1>10. CASE ~withCases
  BY <1>5, <1>8, <1>10
<1> QED BY <1>9, <1>10

LEMMA DatasetKeeps ==
  ASSUME RowsHold(rows), NEW project, NEW scenario, NEW hash, NEW logical \in OrNone(Logicals("dataset_versions")),
         NEW parent \in OrNone(IdsIn(rows, "dataset_versions")),
         CreateDataset(project, scenario, hash, logical, parent)
  PROVE  RowsHold(rows')
<1> DEFINE own == IF parent # NoId /\ logical = NoId THEN rows[parent].logical ELSE logical
<1>1. PICK saved \in SaveDataset(rows, project, scenario, hash, own, parent) : rows' = saved.rows
  BY DEF CreateDataset
<1>2. scenario \in DOMAIN rows /\ rows[scenario].project = project /\ rows[scenario].table = "scenario_versions"
  <2>1. scenario \in IdsOf("scenario_versions", project)
    BY DEF CreateDataset
  <2> QED BY <2>1, KnownIds
<1>3. /\ Len(rows) \in Nat /\ DOMAIN rows = 1 .. Len(rows) /\ parent \in 0 .. Len(rows) /\ logical \in 0 .. Len(rows)
      /\ \A i \in DOMAIN rows : rows[i].logical \in 0 .. Len(rows)
  BY KnownIds
<1>4. own \in 0 .. Len(rows)
  <2>1. parent # NoId => parent \in DOMAIN rows
    BY <1>3 DEF NoId
  <2> QED BY <1>3, <2>1
<1>5. parent # NoId => parent \in DOMAIN rows /\ rows[parent].table = "dataset_versions"
  BY DEF OrNone, IdsIn
<1> HIDE DEF own
<1>6. Saved(saved, rows, "dataset_versions", project)
  BY <1>2, <1>3, <1>4, <1>5, SaveDatasetKeeps
<1> QED BY <1>1, <1>6 DEF Saved

LEMMA NextDatasetKeeps ==
  ASSUME RowsHold(rows), NEW dataset \in IdsIn(rows, "dataset_versions"), NEW hash, NextDataset(dataset, hash)
  PROVE  RowsHold(rows')
<1> DEFINE row == rows[dataset]
           scenario == row.refs.scenario_id
<1>1. PICK saved \in SaveDataset(rows, row.project, scenario, hash, row.logical, dataset) : rows' = saved.rows
  BY DEF NextDataset
<1>2. /\ Len(rows) \in Nat /\ DOMAIN rows = 1 .. Len(rows)
      /\ \A i \in DOMAIN rows : rows[i].logical \in 0 .. Len(rows)
  BY KnownIds
<1>3. dataset \in DOMAIN rows /\ row.table = "dataset_versions"
  BY DEF IdsIn
<1>4. "scenario_id" \in DOMAIN row.refs /\ scenario \in Int
  BY <1>3 DEF RowsHold, InPlace, RowTyped
<1>5. Refers(rows, dataset, "scenario_id") /\ (scenario \in 1 .. Len(rows) \/ scenario <= NoId)
  BY <1>3, <1>4 DEF RowsHold, RefsHold, RefersWithin
<1>6. scenario > NoId => rows[scenario].project = row.project
  BY <1>5 DEF Refers, FromOther
<1>7. scenario # NoId => scenario \in DOMAIN rows /\ rows[scenario].table = "scenario_versions"
  <2>1. Link(rows, "dataset_versions", "scenario_id", scenario)
    BY <1>3, <1>4 DEF RowsHold, Linked
  <2>2. /\ "scenario_id" \in DOMAIN Refs("dataset_versions")
        /\ Refs("dataset_versions")["scenario_id"] = "scenario_versions"
    BY RefsAre DEF DatasetTable, Versioned, Table
  <2> HIDE DEF row, scenario
  <2> QED BY <2>1, <2>2 DEF Link, IsFile
<1>8. row.logical \in 0 .. Len(rows) /\ dataset \in 0 .. Len(rows)
  BY <1>2, <1>3
<1> HIDE DEF row, scenario
<1>9. Saved(saved, rows, "dataset_versions", row.project)
  <2>1. scenario # NoId => rows[scenario].project = row.project
    <3>1. scenario # NoId => scenario > NoId
      BY <1>2, <1>7 DEF NoId
    <3> QED BY <1>6, <3>1
  <2>2. dataset # NoId => dataset \in DOMAIN rows /\ rows[dataset].table = "dataset_versions"
    BY <1>3 DEF row
  <2> QED BY <1>1, <1>7, <1>8, <2>1, <2>2, SaveDatasetKeeps
<1> QED BY <1>1, <1>9 DEF Saved

LEMMA PolicyKeeps ==
  ASSUME RowsHold(rows), NEW project, NEW hash, CreatePolicy(project, hash)
  PROVE  RowsHold(rows')
<1>1. PICK saved \in Save(rows, "release_policies", project, NoId, hash, "none", <<>>) : rows' = saved.rows
  BY DEF CreatePolicy
<1>2. RefsKnown(rows, "release_policies", project, <<>>)
  BY NoRows, DefinitionLinks DEF RefsKnown
<1>3. NoId \in 0 .. Len(rows)
  <2>1. Len(rows) \in Nat
    BY KnownIds
  <2> QED BY <2>1 DEF NoId
<1>4. Saved(saved, rows, "release_policies", project)
  BY <1>2, <1>3, SaveKeeps
<1> QED BY <1>1, <1>4 DEF Saved

LEMMA DefinitionKeeps == ASSUME RowsHold(rows), DefinitionNext PROVE RowsHold(rows')
<1>1. ASSUME NEW project, NEW hash, NEW name, NEW logical \in OrNone(Logicals("target_config_versions")),
             NEW parent \in OrNone(IdsIn(rows, "target_config_versions")),
             NEW generation \in OrNone(IdsIn(rows, "target_config_versions")),
             CreateTarget(project, hash, name, logical, parent, generation)
      PROVE  RowsHold(rows')
  <2>1. generation \in 0 .. Len(rows)
    BY KnownIds
  <2>2. generation \in Int
    BY <2>1
  <2> QED BY <1>1, <2>2, TargetKeeps
<1>2. PICK project \in Projects, hash \in Hashes :
        \/ \E name \in TargetNames, logical \in OrNone(Logicals("target_config_versions")),
              parent, generation \in OrNone(IdsIn(rows, "target_config_versions")) :
              CreateTarget(project, hash, name, logical, parent, generation)
        \/ \E judge \in OrNone(IdsIn(rows, "target_config_versions")), logical \in OrNone(Logicals("grader_versions")) :
              CreateGrader(project, hash, judge, logical)
        \/ \E judge \in OrNone(IdsIn(rows, "target_config_versions")),
              parent \in OrNone(IdsIn(rows, "scenario_versions")), withCases \in BOOLEAN :
              CreateScenario(project, hash, judge, parent, withCases)
        \/ \E scenario \in IdsIn(rows, "scenario_versions"), logical \in OrNone(Logicals("dataset_versions")),
              parent \in OrNone(IdsIn(rows, "dataset_versions")) :
              CreateDataset(project, scenario, hash, logical, parent)
        \/ \E dataset \in IdsIn(rows, "dataset_versions") : NextDataset(dataset, hash)
        \/ CreatePolicy(project, hash)
  BY DEF DefinitionNext
<1> QED BY <1>1, <1>2, GraderKeeps, ScenarioKeeps, DatasetKeeps, NextDatasetKeeps, PolicyKeeps

(***************************************************************************)
(* Evaluate: a row of each table of EvidenceTables.  Between two of them   *)
(* one reference may wait for its row: selected_attempt_id, which names    *)
(* the row that comes next.                                                *)
(***************************************************************************)
LEMMA NewestIs ==
  ASSUME NEW rs, IsSeq(rs), NEW table, NEW project
  PROVE  \/ Newest(rs, table, project) = NoId
         \/ /\ Newest(rs, table, project) \in DOMAIN rs
            /\ rs[Newest(rs, table, project)].project = project /\ rs[Newest(rs, table, project)].table = table
<1> DEFINE ids == {i \in IdsIn(rs, table) : rs[i].project = project}
           top == CHOOSE i \in ids : \A j \in ids : j <= i
<1>1. Newest(rs, table, project) = IF ids = {} THEN NoId ELSE top
  BY DEF Newest
<1>2. ids \subseteq DOMAIN rs /\ \A i \in ids : rs[i].project = project /\ rs[i].table = table
  BY DEF IdsIn
<1>3. CASE ids # {}
  <2>1. \E i \in ids : \A j \in ids : j <= i
    <3>1. DOMAIN rs \subseteq Nat /\ IsFiniteSet(DOMAIN rs)
      BY SeqDomain
    <3>2. ids \subseteq Nat /\ IsFiniteSet(ids)
      <4> HIDE DEF ids
      <4> QED BY <1>2, <3>1, FS_Subset
    <3> HIDE DEF ids
    <3> QED BY <1>3, <3>2, GreatestId
  <2>2. top \in ids
    BY <2>1
  <2> HIDE DEF ids, top
  <2> QED BY <1>1, <1>2, <1>3, <2>2
<1>4. CASE ids = {}
  BY <1>1, <1>4
<1> QED BY <1>3, <1>4

Awaits(table, c) == table = "trials" /\ c = "selected_attempt_id"

(* What the row of a table is, given the rows before it. *)
EvidenceRow(row, rs, table, project) ==
  /\ row.table = table /\ row.project = project /\ row.version = 0 /\ row.hash = "none" /\ row.beside = "none"
  /\ row.logical \in {NoId, Len(rs) + 1}
  /\ row.refs \in [Columns(table) -> Int] /\ DOMAIN row = RowFields
  /\ \A c \in Columns(table) : Link(rs, table, c, row.refs[c])
  /\ \A c \in Columns(table) :
        IF Awaits(table, c) THEN row.refs[c] \in {File, NoId, Len(rs) + 2}
        ELSE row.refs[c] > NoId => row.refs[c] \in DOMAIN rs /\ rs[row.refs[c]].project = project

EvidenceNames == {EvidenceTables[n] : n \in DOMAIN EvidenceTables}
EvidenceRefs == UNION {[Columns(table) -> Int] : table \in EvidenceNames}
EvidenceRows ==
  {Row(table, project, logical, 0, "none", "none", refs) :
     table \in EvidenceNames, project \in Projects, logical \in Nat, refs \in EvidenceRefs}

LEMMA EvidenceIsArchived == EvidenceNames \subseteq ArchivedNames
<1>1. DOMAIN EvidenceTables = 1 .. 14
  BY DEF EvidenceTables
<1>2. \A n \in 1 .. 14 : EvidenceTables[n] = ArchivedTables[n + 6]
  BY DEF EvidenceTables, ArchivedTables
<1>3. \A n \in 1 .. 14 : n + 6 \in DOMAIN ArchivedTables
  BY TableAt
<1> QED BY <1>1, <1>2, <1>3 DEF EvidenceNames, ArchivedNames, Range

LEMMA AwaitedIsLoose == \A table, c : Awaits(table, c) => c \notin DOMAIN Refs(table)
<1>1. Refs("trials") = TrialTable.refs
  BY RefsAre
<1> QED BY <1>1 DEF Awaits, TrialTable, Table

LEMMA EvidenceAdded ==
  ASSUME NEW rs, IsSeq(rs), NEW n \in DOMAIN EvidenceTables, NEW project \in Projects
  PROVE  \E row \in EvidenceRows :
           /\ Evidence(rs, EvidenceTables[n], project) = Append(rs, row)
           /\ EvidenceRow(row, rs, EvidenceTables[n], project)
<1> DEFINE table == EvidenceTables[n]
           Value(column) == IF IsFile(table, column) THEN IF table = "calibration_versions" THEN NoId ELSE File
                            ELSE IF table = "trials" /\ column = "selected_attempt_id" THEN Len(rs) + 2
                            ELSE Newest(rs, TargetOf(table, column), project)
           logical == IF table = "calibration_versions" THEN Len(rs) + 1 ELSE NoId
           refs == [column \in Columns(table) |-> Value(column)]
           row == Row(table, project, logical, 0, "none", "none", refs)
<1>1. Len(rs) \in Nat /\ DOMAIN rs = 1 .. Len(rs)
  BY SeqDomain
<1>2. Evidence(rs, table, project) = Append(rs, row)
  BY DEF Evidence
<1>3. TableFits(table) /\ table \in ArchivedNames
  BY EvidenceIsArchived, TablesFit DEF EvidenceNames
<1>4. ASSUME NEW c \in Columns(table)
      PROVE  /\ Value(c) \in Int
             /\ IF Awaits(table, c) THEN Value(c) \in {File, NoId, Len(rs) + 2}
                ELSE Value(c) > NoId => Value(c) \in DOMAIN rs /\ rs[Value(c)].project = project
             /\ Link(rs, table, c, Value(c))
  <2> DEFINE newest == Newest(rs, TargetOf(table, c), project)
  <2>1. newest = NoId \/ /\ newest \in DOMAIN rs /\ rs[newest].project = project
                         /\ rs[newest].table = TargetOf(table, c)
    BY <1>1, NewestIs
  <2>2. Value(c) \in {NoId, File} \/ (Value(c) = Len(rs) + 2 /\ Awaits(table, c))
        \/ (Value(c) = newest /\ ~Awaits(table, c))
    BY DEF Awaits
  <2>3. ~IsFile(table, c) => Value(c) = newest \/ Awaits(table, c)
    BY DEF Awaits
  <2>4. c \in DOMAIN Refs(table) => TargetOf(table, c) = Refs(table)[c]
    BY DEF TargetOf
  <2> HIDE DEF newest, Value
  <2>5. Link(rs, table, c, Value(c))
    <3>1. CASE IsFile(table, c)
      BY <3>1 DEF Link
    <3>2. CASE ~IsFile(table, c)
      <4>1. c \in IdColumns(table)
        BY <1>3, <3>2 DEF TableFits
      <4>2. c \in DOMAIN Refs(table) => Value(c) = newest
        BY <2>3, <3>2, AwaitedIsLoose
      <4> QED BY <2>1, <2>4, <4>1, <4>2 DEF Link
    <3> QED BY <3>1, <3>2
  <2> QED BY <1>1, <2>1, <2>2, <2>5 DEF NoId, File
<1>5. refs \in [Columns(table) -> Int] /\ \A c \in Columns(table) : refs[c] = Value(c)
  <2> HIDE DEF Value
  <2> QED BY <1>4
<1>6. logical \in Nat /\ logical \in {NoId, Len(rs) + 1}
  BY <1>1 DEF NoId
<1>9. DOMAIN row = RowFields
  BY DEF Row, RowFields
<1> HIDE DEF refs, logical, Value
<1>7. row \in EvidenceRows
  <2>1. table \in EvidenceNames
    BY DEF EvidenceNames
  <2>2. refs \in EvidenceRefs
    BY <1>5, <2>1 DEF EvidenceRefs
  <2> HIDE DEF table
  <2> QED BY <1>6, <2>1, <2>2 DEF EvidenceRows
<1>8. EvidenceRow(row, rs, table, project)
  <2>1. /\ row.table = table /\ row.project = project /\ row.version = 0 /\ row.hash = "none" /\ row.beside = "none"
        /\ row.logical = logical /\ row.refs = refs
    BY DEF Row
  <2> HIDE DEF row, table
  <2>2. \A c \in Columns(table) : Link(rs, table, c, row.refs[c])
    BY <1>4, <1>5, <2>1
  <2> QED BY <1>4, <1>5, <1>6, <1>9, <2>1, <2>2 DEF EvidenceRow
<1> QED BY <1>2, <1>7, <1>8

(* The rows as they are after some of the tables. *)
Midway(rs, project) ==
  LET awaited == Len(rs) + 1 IN
  /\ InPlace(rs) /\ Linked(rs)
  /\ \A i \in DOMAIN rs : \A c \in DOMAIN rs[i].refs :
       \/ Refers(rs, i, c) /\ (rs[i].refs[c] \in 1 .. Len(rs) \/ rs[i].refs[c] <= NoId)
       \/ i = Len(rs) /\ c = "selected_attempt_id" /\ rs[i].refs[c] = awaited /\ rs[i].project = project

LEMMA EvidenceKeeps ==
  ASSUME NEW rs, NEW project \in Projects, Midway(rs, project), NEW n \in DOMAIN EvidenceTables
  PROVE  /\ Midway(Evidence(rs, EvidenceTables[n], project), project)
         /\ EvidenceTables[n] # "trials" =>
              RowsHold(Evidence(rs, EvidenceTables[n], project))
<1> DEFINE table == EvidenceTables[n]
<1>1. IsSeq(rs) /\ Len(rs) \in Nat /\ DOMAIN rs = 1 .. Len(rs)
  BY SeqDomain DEF Midway, InPlace
<1>2. PICK row \in EvidenceRows : Evidence(rs, table, project) = Append(rs, row) /\ EvidenceRow(row, rs, table, project)
  BY <1>1, EvidenceAdded
<1>3. table # "dataset_versions"
  BY DEF EvidenceTables
<1> HIDE DEF table
<1> DEFINE new == Append(rs, row)
           last == Len(rs) + 1
<1>4. IsSeq(new) /\ Len(new) = last /\ DOMAIN new = 1 .. last /\ (\A i \in DOMAIN rs : new[i] = rs[i]) /\ new[last] = row
  BY <1>1, RowAppended
<1>5. last \in Nat /\ last - 1 = Len(rs) /\ \A i \in DOMAIN new : i # last => i \in DOMAIN rs /\ new[i] = rs[i] /\ i < last
  BY <1>1, <1>4
<1>6. InPlace(new)
  <2>1. row.logical \in 0 .. Len(rs) + 1 /\ row.version \in Nat
    BY <1>1, <1>2 DEF EvidenceRow, NoId
  <2>2. \A c \in DOMAIN row.refs : row.refs[c] \in Int
    BY <1>2 DEF EvidenceRow
  <2>3. row.table # "dataset_versions"
    BY <1>2, <1>3 DEF EvidenceRow
  <2>4. ASSUME NEW i \in DOMAIN rs, rs[i].logical = row.logical, row.logical # NoId PROVE FALSE
    <3>1. rs[i].logical \in 0 .. i
      BY DEF Midway, InPlace, RowTyped
    <3> QED BY <1>1, <1>2, <2>4, <3>1 DEF EvidenceRow
  <2> QED BY <2>1, <2>2, <2>3, <2>4, OneMore DEF Midway
<1> HIDE DEF new, last
<1>7. ASSUME NEW i \in DOMAIN new, NEW c \in DOMAIN new[i].refs
      PROVE  \/ Refers(new, i, c) /\ (new[i].refs[c] \in 1 .. Len(new) \/ new[i].refs[c] <= NoId)
             \/ /\ i = last /\ c = "selected_attempt_id" /\ new[i].refs[c] = last + 1 /\ new[i].project = project
                /\ table = "trials"
  <2> DEFINE id == new[i].refs[c]
  <2>1. CASE i = last
    <3>1. new[i] = row /\ c \in Columns(table) /\ id = row.refs[c] /\ id \in Int /\ row.project = project
      BY <1>2, <1>4, <2>1 DEF EvidenceRow
    <3>2. IF Awaits(table, c) THEN id \in {File, NoId, Len(rs) + 2}
          ELSE id > NoId => id \in DOMAIN rs /\ rs[id].project = project
      BY <1>2, <3>1 DEF EvidenceRow
    <3>3. CASE Awaits(table, c) /\ id = Len(rs) + 2
      BY <1>1, <2>1, <3>1, <3>3 DEF last, Awaits
    <3>4. CASE id <= NoId
      <4>1. ~(id > NoId)
        BY <3>1, <3>4 DEF NoId
      <4> QED BY <3>4, <4>1 DEF Refers
    <3>5. CASE ~Awaits(table, c) /\ id > NoId
      <4>1. id \in DOMAIN rs /\ rs[id].project = project /\ new[id] = rs[id] /\ id < last /\ id \in 1 .. Len(new)
        BY <1>1, <1>4, <1>5, <3>2, <3>5 DEF NoId
      <4> HIDE DEF id
      <4>2. new[i].refs[c] = id
        BY DEF id
      <4> QED BY <2>1, <3>1, <4>1, <4>2 DEF Refers
    <3> QED BY <3>1, <3>2, <3>3, <3>4, <3>5 DEF NoId, File
  <2>2. CASE i # last
    <3>1. i \in DOMAIN rs /\ new[i] = rs[i] /\ id = rs[i].refs[c]
      BY <1>5, <2>2
    <3>2. id \in Int
      BY <3>1 DEF Midway, InPlace, RowTyped
    <3>3. CASE Refers(rs, i, c) /\ (id \in 1 .. Len(rs) \/ id <= NoId)
      <4>1. id > NoId => id \in DOMAIN rs /\ new[id] = rs[id]
        BY <1>1, <1>4, <3>2, <3>3 DEF NoId
      <4>2. id \in 1 .. Len(new) \/ id <= NoId
        BY <1>1, <1>4, <1>5, <3>3
      <4> HIDE DEF id
      <4>3. new[i].refs[c] = id /\ rs[i].refs[c] = id
        BY <3>1 DEF id
      <4> QED BY <3>1, <3>3, <4>1, <4>2, <4>3 DEF Refers
    <3>4. CASE i = Len(rs) /\ c = "selected_attempt_id" /\ id = Len(rs) + 1 /\ rs[i].project = project
      <4>1. id = last /\ new[id] = row /\ row.project = project /\ id \in 1 .. Len(new)
        BY <1>2, <1>4, <1>5, <3>4 DEF last, EvidenceRow
      <4> HIDE DEF id
      <4>2. new[i].refs[c] = id
        BY DEF id
      <4> QED BY <3>1, <3>4, <4>1, <4>2 DEF Refers
    <3>5. (Refers(rs, i, c) /\ (id \in 1 .. Len(rs) \/ id <= NoId))
          \/ (i = Len(rs) /\ c = "selected_attempt_id" /\ id = Len(rs) + 1 /\ rs[i].project = project)
      BY <3>1 DEF Midway
    <3> QED BY <3>3, <3>4, <3>5
  <2> QED BY <2>1, <2>2
<1>10. Linked(new)
  <2>1. table \in ArchivedNames
    BY EvidenceIsArchived DEF table, EvidenceNames
  <2>2. /\ DOMAIN row = RowFields /\ row.table \in ArchivedNames
        /\ \A c \in DOMAIN row.refs : Link(rs, row.table, c, row.refs[c])
    BY <1>2, <2>1 DEF EvidenceRow
  <2>3. /\ \A i \in DOMAIN rs : i \in DOMAIN new /\ new[i] = rs[i]
        /\ \A i \in DOMAIN new : i \in DOMAIN rs \/ new[i] = row
    BY <1>1, <1>4, <1>5
  <2> QED BY <2>2, <2>3, LinkedOneMore DEF Midway
<1>8. Midway(new, project)
  <2> SUFFICES ASSUME NEW i \in DOMAIN new, NEW c \in DOMAIN new[i].refs
               PROVE  \/ Refers(new, i, c) /\ (new[i].refs[c] \in 1 .. Len(new) \/ new[i].refs[c] <= NoId)
                      \/ /\ i = Len(new) /\ c = "selected_attempt_id" /\ new[i].refs[c] = Len(new) + 1
                         /\ new[i].project = project
    BY <1>6, <1>10 DEF Midway
  <2> QED BY <1>4, <1>7
<1>9. ASSUME table # "trials" PROVE RowsHold(new)
  <2>1. \A i \in DOMAIN new : \A c \in DOMAIN new[i].refs :
           Refers(new, i, c) /\ (new[i].refs[c] \in 1 .. Len(new) \/ new[i].refs[c] <= NoId)
    BY <1>7, <1>9
  <2> QED BY <1>6, <1>10, <2>1 DEF RowsHold, RefsHold, RefersWithin
<1> QED BY <1>2, <1>8, <1>9 DEF table, new

LEMMA EvidenceTyped ==
  ASSUME NEW E, EvidenceRows \subseteq E, NEW rs \in Seq(E), NEW n \in DOMAIN EvidenceTables, NEW project \in Projects
  PROVE  Evidence(rs, EvidenceTables[n], project) \in Seq(E)
<1>1. IsSeq(rs)
  BY DEF IsSeq
<1>2. PICK row \in EvidenceRows : Evidence(rs, EvidenceTables[n], project) = Append(rs, row)
  BY <1>1, EvidenceAdded
<1>3. row \in E
  OBVIOUS
<1>4. Append(rs, row) \in Seq(E)
  BY <1>3
<1> QED BY <1>2, <1>4

LEMMA LastTable == DOMAIN EvidenceTables = 1 .. 14 /\ EvidenceTables[14] # "trials"
BY DEF EvidenceTables

LEMMA EvaluateKeeps == ASSUME RowsHold(rows), NEW project \in Projects, Evaluate(project) PROVE RowsHold(rows')
<1>1. PICK E0 : rows \in Seq(E0)
  BY DEF RowsHold, InPlace, IsSeq
<1> DEFINE E == E0 \cup EvidenceRows
           D == DOMAIN EvidenceTables
           V == Seq(E)
           Body(of, T) == IF T = {} THEN rows ELSE LET x == Max(T) IN Evidence(of[T \ {x}], EvidenceTables[x], project)
           Is(of) == of = [T \in SUBSET D |-> Body(of, T)]
           pick == [T \in SUBSET D |-> Max(T)]
           F == [p \in V \X D |-> Evidence(p[1], EvidenceTables[p[2]], project)]
           it == CHOOSE of : Is(of)
<1>2. D = 1 .. 14 /\ IsFiniteSet(D) /\ D \subseteq Int
  <2>1. 1 \in Int /\ 14 \in Int
    OBVIOUS
  <2>2. IsFiniteSet(1 .. 14)
    BY <2>1, FS_Interval
  <2>3. 1 .. 14 \subseteq Int
    OBVIOUS
  <2> QED BY <2>2, <2>3, LastTable
<1>3. \A T \in SUBSET D : T # {} => pick[T] \in T
  <2> SUFFICES ASSUME NEW T \in SUBSET D, T # {} PROVE Max(T) \in T
    OBVIOUS
  <2>1. IsFiniteSet(T) /\ T \subseteq Int
    BY <1>2, FS_Subset
  <2> QED BY <2>1, FiniteExtremes
<1>4. rows \in V
  <2>1. E0 \subseteq E
    OBVIOUS
  <2> HIDE DEF E
  <2> QED BY <1>1, <2>1, SeqMonotone
<1>5. F \in [V \X D -> V]
  <2>1. ASSUME NEW p \in V \X D PROVE Evidence(p[1], EvidenceTables[p[2]], project) \in V
    <3>1. p[1] \in Seq(E) /\ p[2] \in DOMAIN EvidenceTables /\ EvidenceRows \subseteq E
      OBVIOUS
    <3> HIDE DEF E
    <3> QED BY <3>1, EvidenceTyped
  <2> HIDE DEF V, D
  <2> QED BY <2>1
<1>6. \E of : Is(of)
  <2>1. PICK of \in [SUBSET D -> V] : Folds(of, D, pick, rows, F)
    <3> HIDE DEF D, F, pick, V
    <3> QED BY <1>2, <1>3, <1>4, <1>5, FoldExists
  <2>2. ASSUME NEW T \in SUBSET D
        PROVE  (IF T = {} THEN rows ELSE F[<<of[T \ {pick[T]}], pick[T]>>]) = Body(of, T)
    <3>1. CASE T = {}
      BY <3>1
    <3>2. CASE T # {}
      <4>1. pick[T] = Max(T) /\ Max(T) \in D /\ of[T \ {Max(T)}] \in V
        <5>1. pick[T] = Max(T)
          OBVIOUS
        <5>2. Max(T) \in D
          BY <1>3, <3>2, <5>1
        <5> HIDE DEF D, V
        <5> QED BY <2>1, <5>1, <5>2
      <4> HIDE DEF pick, D, V
      <4>2. F[<<of[T \ {Max(T)}], Max(T)>>] = Evidence(of[T \ {Max(T)}], EvidenceTables[Max(T)], project)
        BY <4>1
      <4> QED BY <3>2, <4>1, <4>2
    <3> QED BY <3>1, <3>2
  <2>3. of = [T \in SUBSET D |-> Body(of, T)]
    <3> HIDE DEF Body, F, pick, D, V
    <3> QED BY <2>1, <2>2 DEF Folds
  <2> QED BY <2>3
<1>7. Is(it)
  <2> HIDE DEF Is
  <2> QED BY <1>6
<1>8. rows' = it[D]
  BY DEF Evaluate, FoldLeft, MapThenFoldSet
<1> HIDE DEF it
<1>9. it[1 .. 0] = rows /\ \A k \in 1 .. 14 : it[1 .. k] = Evidence(it[1 .. k - 1], EvidenceTables[k], project)
  <2>1. \A T \in SUBSET D : it[T] = Body(it, T)
    <3> HIDE DEF Body, D
    <3> QED BY <1>7
  <2>2. ASSUME NEW k \in 1 .. 14 PROVE it[1 .. k] = Evidence(it[1 .. k - 1], EvidenceTables[k], project)
    <3>1. Max(1 .. k) = k /\ (1 .. k) \ {k} = 1 .. k - 1 /\ 1 .. k # {}
      BY GreatestOfPrefix
    <3>2. 1 .. k \in SUBSET D
      BY <1>2
    <3>3. it[1 .. k] = Evidence(it[(1 .. k) \ {k}], EvidenceTables[k], project)
      BY <2>1, <3>1, <3>2
    <3> QED BY <3>1, <3>3
  <2>3. 1 .. 0 = {} /\ 1 .. 0 \in SUBSET D
    OBVIOUS
  <2> QED BY <2>1, <2>2, <2>3
<1> HIDE DEF Is, Body, V, F, pick, E
<1> DEFINE N == {k \in Nat : k <= 14 => Midway(it[1 .. k], project)}
<1>10. 0 \in N
  BY <1>9 DEF RowsHold, RefersWithin, RefsHold, Midway
<1>11. ASSUME NEW k \in Nat, k \in N PROVE k + 1 \in N
  <2> SUFFICES ASSUME k + 1 <= 14 PROVE Midway(it[1 .. k + 1], project)
    OBVIOUS
  <2>1. Midway(it[1 .. k], project) /\ k + 1 \in 1 .. 14 /\ (k + 1) - 1 = k /\ k + 1 \in D
    BY <1>2, <1>11
  <2>2. it[1 .. k + 1] = Evidence(it[1 .. k], EvidenceTables[k + 1], project)
    BY <1>9, <2>1
  <2> QED BY <2>1, <2>2, EvidenceKeeps
<1>12. Nat \subseteq N
  <2> HIDE DEF N
  <2> QED BY <1>10, <1>11, NatSet
<1>13. Midway(it[1 .. 13], project) /\ it[1 .. 14] = Evidence(it[1 .. 13], EvidenceTables[14], project) /\ 14 \in D
  <2>1. 13 \in Nat /\ 13 <= 14 /\ 14 \in 1 .. 14 /\ 14 - 1 = 13
    OBVIOUS
  <2>2. 13 \in N
    <3> HIDE DEF N
    <3> QED BY <1>12, <2>1
  <2> QED BY <1>2, <1>9, <2>1, <2>2
<1>14. RowsHold(it[1 .. 14])
  BY <1>13, LastTable, EvidenceKeeps
<1> QED BY <1>2, <1>8, <1>14

LEMMA RowsKeep == RowsHold(rows) /\ [ExchangeNext]_exchangeVars => RowsHold(rows)'
<1> SUFFICES ASSUME RowsHold(rows), [ExchangeNext]_exchangeVars PROVE RowsHold(rows')
  OBVIOUS
<1>1. CASE Define
  BY <1>1, DefinitionKeeps DEF Define
<1>2. CASE \E project \in Projects : Evaluate(project)
  BY <1>2, EvaluateKeeps
<1>3. CASE UNCHANGED rows
  BY <1>3
<1>4. UNCHANGED exchangeVars => UNCHANGED rows
  BY DEF exchangeVars
<1> QED BY <1>1, <1>2, <1>3, <1>4 DEF ExchangeNext, CreateExport, BuildExport, CreateImport, ImportArchive,
           CrashExchange

(***************************************************************************)
(* The archive: table after table, each in one of the orders its rows are  *)
(* selected in.                                                            *)
(***************************************************************************)
Increasing(s) == \A i, j \in DOMAIN s : i < j => s[i] < s[j]

LEMMA OrderIs ==
  ASSUME NEW table, NEW S, IsFiniteSet(S), NEW s \in Orders(table, S)
  PROVE  /\ s \in Seq(S) /\ Range(s) = S /\ (InsertionOrder(table) => Increasing(s))
         /\ \A i, j \in DOMAIN s : i # j => s[i] # s[j]
<1> DEFINE D == 1 .. Cardinality(S)
<1>1. s \in SetToSeqs(S) /\ (InsertionOrder(table) => Increasing(s))
  <2>1. CASE table \in ByHash
    BY <2>1 DEF Orders, InsertionOrder
  <2>2. CASE table \in ByLogicalId
    <3>1. table \notin ByHash
      BY <2>2 DEF ByHash, ByLogicalId
    <3> QED BY <2>2, <3>1 DEF Orders, InsertionOrder
  <2>3. CASE InsertionOrder(table)
    <3>1. s \in {q \in SetToSeqs(S) : \A i, j \in DOMAIN q : i < j => q[i] < q[j]}
      BY <2>3 DEF Orders, InsertionOrder
    <3> QED BY <3>1 DEF Increasing
  <2> QED BY <2>1, <2>2, <2>3 DEF InsertionOrder
<1>2. s \in [D -> S] /\ \A i, j \in D : i # j => s[i] # s[j]
  BY <1>1 DEF SetToSeqs
<1>3. Cardinality(S) \in Nat
  BY FS_CardinalityType
<1>4. s \in Seq(S)
  BY <1>2, <1>3
<1>5. s \in Injection(D, S)
  BY <1>2 DEF Injection, IsInjective
<1>6. Cardinality(D) = Cardinality(S)
  <2>1. Cardinality(1 .. Cardinality(S)) = Cardinality(S) - 1 + 1
    BY <1>3, FS_Interval
  <2> QED BY <1>3, <2>1
<1>7. s \in Surjection(D, S)
  <2> HIDE DEF D
  <2> QED BY <1>5, <1>6, FS_Injection
<1>8. \A x \in S : \E i \in D : s[i] = x
  BY <1>7 DEF Surjection
<1>9. Range(s) = S
  BY <1>2, <1>8 DEF Range
<1>10. \A i, j \in DOMAIN s : i # j => s[i] # s[j]
  BY <1>2
<1> QED BY <1>1, <1>4, <1>9, <1>10

(* What a part of the archive lists, of the first n tables. *)
Contents(project, redacted, n) == UNION {Archived(project, redacted)[ArchivedTables[m]] : m \in 1 .. n}

InOrder(s) ==
  \A p, q \in DOMAIN s : p < q =>
     \/ Place(rows[s[p]].table) < Place(rows[s[q]].table)
     \/ /\ rows[s[p]].table = rows[s[q]].table /\ s[p] # s[q]
        /\ InsertionOrder(rows[s[p]].table) => s[p] < s[q]

Lists(s, project, redacted, n) ==
  /\ s \in Seq(DOMAIN rows) /\ Range(s) = Contents(project, redacted, n) /\ InOrder(s)

LEMMA ArchivedRows ==
  ASSUME NEW project, NEW redacted, NEW n \in 1 .. 20
  PROVE  LET S == Archived(project, redacted)[ArchivedTables[n]] IN
         /\ \A i \in S : i \in DOMAIN rows /\ rows[i].table = ArchivedTables[n] /\ rows[i].project = project
         /\ ~redacted => \A i \in DOMAIN rows : rows[i].table = ArchivedTables[n] /\ rows[i].project = project => i \in S
<1>1. ArchivedTables[n] \in Range(ArchivedTables)
  BY TableAt DEF Range
<1>2. Archived(project, redacted)[ArchivedTables[n]] \in {{}, IdsOf(ArchivedTables[n], project)}
  BY <1>1 DEF Archived
<1>3. ~redacted => Archived(project, redacted)[ArchivedTables[n]] = IdsOf(ArchivedTables[n], project)
  BY <1>1 DEF Archived
<1> QED BY <1>2, <1>3 DEF IdsOf, IdsIn

LEMMA ListsMore ==
  ASSUME IsSeq(rows), NEW project, NEW redacted, NEW n \in 1 .. 20, NEW s, Lists(s, project, redacted, n - 1),
         NEW t \in Orders(ArchivedTables[n], Archived(project, redacted)[ArchivedTables[n]])
  PROVE  Lists(s \o t, project, redacted, n)
<1> DEFINE table == ArchivedTables[n]
           S == Archived(project, redacted)[table]
           k == Len(s)
           l == Len(t)
           u == s \o t
<1>1. \A i \in S : i \in DOMAIN rows /\ rows[i].table = table
  BY ArchivedRows
<1>2. S \subseteq DOMAIN rows /\ IsFiniteSet(S)
  <2>1. S \subseteq DOMAIN rows
    BY <1>1
  <2> HIDE DEF S
  <2> QED BY <2>1, SeqDomain, FS_Subset
<1>3. /\ t \in Seq(S) /\ Range(t) = S /\ (InsertionOrder(table) => Increasing(t))
      /\ \A i, j \in DOMAIN t : i # j => t[i] # t[j]
  <2> HIDE DEF S
  <2>1. t \in Orders(table, S)
    BY DEF S
  <2> QED BY <1>2, <2>1, OrderIs
<1>4. s \in Seq(DOMAIN rows) /\ t \in Seq(DOMAIN rows)
  <2> HIDE DEF S
  <2> QED BY <1>2, <1>3, SeqMonotone DEF Lists
<1>5. /\ u \in Seq(DOMAIN rows) /\ k \in Nat /\ l \in Nat /\ DOMAIN s = 1 .. k /\ DOMAIN t = 1 .. l /\ DOMAIN u = 1 .. k + l
      /\ \A p \in 1 .. k : u[p] = s[p]
      /\ \A p \in 1 .. k + l : p > k => u[p] = t[p - k]
  BY <1>4
<1> HIDE DEF k, l, u, S
<1>6. \A p \in 1 .. k : p \in DOMAIN u /\ u[p] = s[p]
  BY <1>5
<1>7. \A p \in 1 .. l : p + k \in DOMAIN u /\ u[p + k] = t[p]
  <2> SUFFICES ASSUME NEW p \in 1 .. l PROVE p + k \in DOMAIN u /\ u[p + k] = t[p]
    OBVIOUS
  <2>1. p + k \in 1 .. k + l /\ p + k > k /\ (p + k) - k = p
    BY <1>5
  <2> QED BY <1>5, <2>1
<1>8. \A p \in DOMAIN u : (p \in 1 .. k /\ u[p] = s[p]) \/ (p > k /\ p - k \in 1 .. l /\ u[p] = t[p - k])
  BY <1>5
<1>9. Range(u) = Range(s) \cup Range(t)
  <2>1. Range(u) \subseteq Range(s) \cup Range(t)
    BY <1>5, <1>8 DEF Range
  <2>2. Range(s) \subseteq Range(u)
    BY <1>5, <1>6 DEF Range
  <2>3. Range(t) \subseteq Range(u)
    BY <1>5, <1>7 DEF Range
  <2> QED BY <2>1, <2>2, <2>3
<1>10. Contents(project, redacted, n) = Contents(project, redacted, n - 1) \cup S
  <2>1. 1 .. n = (1 .. n - 1) \cup {n}
    OBVIOUS
  <2> QED BY <2>1 DEF Contents, S
<1>11. Range(u) = Contents(project, redacted, n)
  BY <1>3, <1>9, <1>10 DEF Lists
<1>12. ASSUME NEW p \in 1 .. k PROVE Place(rows[s[p]].table) < n
  <2>1. s[p] \in Contents(project, redacted, n - 1)
    BY <1>5 DEF Lists, Range
  <2>2. PICK m \in 1 .. n - 1 : s[p] \in Archived(project, redacted)[ArchivedTables[m]]
    BY <2>1 DEF Contents
  <2>3. m \in 1 .. 20 /\ m < n
    OBVIOUS
  <2>4. rows[s[p]].table = ArchivedTables[m]
    BY <2>2, <2>3, ArchivedRows
  <2> QED BY <2>3, <2>4, PlaceOf
<1>13. ASSUME NEW p \in 1 .. l PROVE rows[t[p]].table = table /\ Place(rows[t[p]].table) = n
  <2>1. t[p] \in S
    BY <1>3, <1>5 DEF Range
  <2> QED BY <1>1, <2>1, PlaceOf
<1>14. InOrder(u)
  <2> SUFFICES ASSUME NEW p \in DOMAIN u, NEW q \in DOMAIN u, p < q
               PROVE  \/ Place(rows[u[p]].table) < Place(rows[u[q]].table)
                      \/ /\ rows[u[p]].table = rows[u[q]].table /\ u[p] # u[q]
                         /\ InsertionOrder(rows[u[p]].table) => u[p] < u[q]
    BY DEF InOrder
  <2>1. CASE p \in 1 .. k /\ q \in 1 .. k
    <3>1. InOrder(s) /\ p \in DOMAIN s /\ q \in DOMAIN s /\ u[p] = s[p] /\ u[q] = s[q]
      BY <1>5, <2>1 DEF Lists
    <3> QED BY <3>1 DEF InOrder
  <2>2. CASE p \in 1 .. k /\ q > k
    <3>1. u[p] = s[p] /\ q - k \in 1 .. l /\ u[q] = t[q - k]
      BY <1>5, <1>8, <2>2
    <3> QED BY <1>12, <1>13, <2>2, <3>1
  <2>3. CASE p > k /\ q > k
    <3>1. /\ p - k \in DOMAIN t /\ q - k \in DOMAIN t /\ p - k < q - k
          /\ u[p] = t[p - k] /\ u[q] = t[q - k]
      BY <1>5, <1>8, <2>3
    <3>2. rows[u[p]].table = table /\ rows[u[q]].table = table
      BY <1>5, <1>13, <3>1
    <3> HIDE DEF table
    <3> QED BY <1>3, <3>1, <3>2 DEF Increasing
  <2> QED BY <1>5, <1>8, <2>1, <2>2, <2>3
<1> QED BY <1>5, <1>11, <1>14 DEF Lists, u

LEMMA FollowedIs ==
  ASSUME NEW heads, NEW tails, NEW u \in Followed(heads, tails) PROVE \E s \in heads, t \in tails : u = s \o t
  BY DEF Followed

Appends(of, project, redacted, last) ==
  of = [n \in 0 .. last |->
          IF n = 0 THEN {<<>>}
          ELSE Followed(of[n - 1], Orders(ArchivedTables[n], Archived(project, redacted)[ArchivedTables[n]]))]

LEMMA AppendsExists ==
  ASSUME NEW project, NEW redacted, NEW last \in Nat PROVE \E of : Appends(of, project, redacted, last)
<1> DEFINE Body(f, n) == IF n = 0 THEN {<<>>}
                         ELSE Followed(f[n - 1], Orders(ArchivedTables[n], Archived(project, redacted)[ArchivedTables[n]]))
           N == {n \in Nat : \E f : f = [k \in 0 .. n |-> Body(f, k)]}
<1>1. 0 \in N
  <2> DEFINE f == [k \in 0 .. 0 |-> {<<>>}]
  <2>1. f = [k \in 0 .. 0 |-> Body(f, k)]
    OBVIOUS
  <2> HIDE DEF Body, f
  <2> QED BY <2>1
<1>2. ASSUME NEW n \in Nat, n \in N PROVE n + 1 \in N
  <2>1. PICK f : f = [k \in 0 .. n |-> Body(f, k)]
    BY <1>2
  <2> DEFINE up == [k \in 0 .. n + 1 |-> Body(f, k)]
  <2>2. ASSUME NEW k \in 0 .. n + 1 PROVE up[k] = Body(up, k)
    <3>1. CASE k = 0
      BY <3>1
    <3>2. CASE k # 0
      <4>1. k - 1 \in 0 .. n /\ k - 1 \in 0 .. n + 1
        BY <3>2
      <4>2. up[k - 1] = Body(f, k - 1) /\ f[k - 1] = Body(f, k - 1)
        <5> HIDE DEF Body
        <5> QED BY <2>1, <4>1
      <4>3. up[k - 1] = f[k - 1]
        BY <4>2
      <4> HIDE DEF up
      <4>4. Body(f, k) = Body(up, k)
        BY <3>2, <4>3
      <4> HIDE DEF Body
      <4> QED BY <4>4 DEF up
    <3> QED BY <3>1, <3>2
  <2>3. up = [k \in 0 .. n + 1 |-> Body(up, k)]
    <3> HIDE DEF Body
    <3> QED BY <2>2
  <2>4. \E new : new = [k \in 0 .. n + 1 |-> Body(new, k)]
    <3> HIDE DEF up, Body
    <3> QED BY <2>3
  <2> HIDE DEF Body
  <2> QED BY <2>4
<1>3. Nat \subseteq N
  <2> HIDE DEF N
  <2> QED BY <1>1, <1>2, NatSet
<1>4. PICK f : f = [k \in 0 .. last |-> Body(f, k)]
  <2> HIDE DEF Body
  <2> QED BY <1>3
<1> QED BY <1>4 DEF Appends

LEMMA ArchiveLists ==
  ASSUME IsSeq(rows), NEW project, NEW redacted, NEW archive \in Archives(project, redacted)
  PROVE  Lists(archive, project, redacted, 20)
<1> DEFINE of == CHOOSE f : Appends(f, project, redacted, Len(ArchivedTables))
<1>1. Appends(of, project, redacted, 20)
  BY TableAt, AppendsExists
<1>2. archive \in of[20]
  <2>1. Archives(project, redacted) = of[Len(ArchivedTables)]
    BY DEF Archives, Appends
  <2> HIDE DEF of
  <2> QED BY <2>1, TableAt
<1> HIDE DEF of
<1> DEFINE N == {n \in Nat : n <= 20 => \A s \in of[n] : Lists(s, project, redacted, n)}
<1>3. 0 \in N
  <2>1. of[0] = {<<>>}
    BY <1>1 DEF Appends
  <2>2. <<>> \in Seq(DOMAIN rows) /\ DOMAIN <<>> = {}
    BY NoElements
  <2>3. Range(<<>>) = {} /\ Contents(project, redacted, 0) = {} /\ InOrder(<<>>)
    BY <2>2 DEF Range, Contents, InOrder
  <2> QED BY <2>1, <2>2, <2>3 DEF Lists
<1>4. ASSUME NEW n \in Nat, n \in N PROVE n + 1 \in N
  <2> SUFFICES ASSUME n + 1 <= 20, NEW u \in of[n + 1] PROVE Lists(u, project, redacted, n + 1)
    OBVIOUS
  <2>1. n + 1 \in 0 .. 20 /\ n + 1 # 0 /\ (n + 1) - 1 = n /\ n + 1 \in 1 .. 20 /\ n <= 20
    OBVIOUS
  <2> DEFINE tails == Orders(ArchivedTables[n + 1], Archived(project, redacted)[ArchivedTables[n + 1]])
  <2>2. of[n + 1] = Followed(of[(n + 1) - 1], tails)
    <3> DEFINE k == n + 1
    <3> HIDE DEF k
    <3>1. k \in 0 .. 20 /\ k # 0
      BY <2>1 DEF k
    <3>2. of[k] = Followed(of[k - 1], Orders(ArchivedTables[k], Archived(project, redacted)[ArchivedTables[k]]))
      BY <1>1, <3>1 DEF Appends
    <3> QED BY <3>2 DEF k
  <2> HIDE DEF tails
  <2>3. PICK s \in of[n], t \in tails : u = s \o t
    <3> HIDE DEF N
    <3> DEFINE heads == of[n]
    <3>1. u \in Followed(heads, tails)
      BY <2>1, <2>2
    <3> HIDE DEF heads
    <3>2. \E s \in heads, t \in tails : u = s \o t
      BY <3>1, FollowedIs
    <3> QED BY <3>2 DEF heads
  <2>4. Lists(s, project, redacted, (n + 1) - 1)
    BY <1>4, <2>1
  <2> QED BY <2>1, <2>3, <2>4, ListsMore DEF tails
<1>5. 20 \in N
  <2> HIDE DEF N
  <2> QED BY <1>3, <1>4, NatSet
<1> QED BY <1>2, <1>5

(***************************************************************************)
(* What is copied, and why a copy may fail.                                *)
(***************************************************************************)
LEMMA PlaceIsNumber == \A table \in ArchivedNames : Place(table) \in Int
<1> SUFFICES ASSUME NEW table \in ArchivedNames PROVE Place(table) \in Int
  OBVIOUS
<1>1. PICK n \in 1 .. 20 : table = ArchivedTables[n]
  BY TableAt DEF ArchivedNames, Range
<1> QED BY <1>1, PlaceOf

(* Of the ids that are replaced, only the selected attempt may be of a row that came later. *)
LEMMA SelfReferences ==
  \A table \in ArchivedNames : \A c \in IdColumns(table) : c \in DOMAIN Refs(table) => c # "selected_attempt_id"
<1>1. \A n \in 1 .. 20 : "selected_attempt_id" \in IdColumns(ArchivedTables[n]) => n = 10
  BY TableAt, IdColumnsAre
<1> SUFFICES ASSUME NEW table \in ArchivedNames, "selected_attempt_id" \in IdColumns(table)
             PROVE  "selected_attempt_id" \notin DOMAIN Refs(table)
  OBVIOUS
<1>2. PICK n \in 1 .. 20 : table = ArchivedTables[n]
  BY TableAt DEF ArchivedNames, Range
<1>3. table = "trials"
  BY <1>1, <1>2, TableAt
<1> QED BY <1>3, AwaitedIsLoose DEF Awaits

LEMMA LeastId ==
  ASSUME NEW S, S \subseteq Int, IsFiniteSet(S), S # {} PROVE \E m \in S : \A q \in S : m <= q
<1>1. Min(S) \in S /\ \A j \in S : Min(S) <= j
  BY FiniteExtremes
<1> QED BY <1>1

LEMMA ListedPosition ==
  ASSUME NEW s, NEW id \in Range(s) PROVE PositionOf(s, id) \in DOMAIN s /\ s[PositionOf(s, id)] = id
<1>1. \E n \in DOMAIN s : s[n] = id
  BY DEF Range
<1> QED BY <1>1 DEF PositionOf

LEMMA ListedRow ==
  ASSUME RowsHold(rows), NEW s \in Seq(DOMAIN rows), NEW n \in DOMAIN s
  PROVE  /\ s[n] \in DOMAIN rows /\ DOMAIN rows[s[n]] = RowFields /\ TableFits(rows[s[n]].table)
         /\ \A c \in DOMAIN rows[s[n]].refs : Link(rows, rows[s[n]].table, c, rows[s[n]].refs[c])
<1>1. s[n] \in DOMAIN rows
  OBVIOUS
<1> QED BY <1>1, TablesFit DEF RowsHold, Linked

CopyFits(archive, n, copy) ==
  LET row == rows[archive[n]] IN
  /\ copy.table = row.table /\ copy.logical = LogicalCopy(archive, n)
  /\ \A c \in DOMAIN row.refs :
       \/ row.refs[c] = copy.refs[c] /\ (IsFile(row.table, c) \/ row.refs[c] = NoId)
       \/ ~IsFile(row.table, c) /\ row.refs[c] # NoId /\ archive[copy.refs[c]] = row.refs[c]

LEMMA CopyIs ==
  ASSUME RowsHold(rows), NEW archive \in Seq(DOMAIN rows), NEW n \in DOMAIN archive, NEW here, NEW redacted,
         Insertable(archive, n, here, redacted)
  PROVE  CopyFits(archive, n, Copied(archive, n))
<1> DEFINE row == rows[archive[n]]
           copy == Copied(archive, n)
           refs == [c \in DOMAIN row.refs |-> IF row.refs[c] = NoId \/ c \notin IdColumns(row.table) THEN row.refs[c]
                                              ELSE PositionOf(archive, row.refs[c])]
<1>1. /\ DOMAIN row = RowFields /\ TableFits(row.table)
      /\ \A c \in DOMAIN row.refs : Link(rows, row.table, c, row.refs[c])
  BY ListedRow
<1>2. copy = [row EXCEPT !.project = 0, !.logical = LogicalCopy(archive, n), !.refs = refs]
  BY DEF Copied
<1>3. \A c \in DOMAIN row.refs : row.refs[c] # NoId /\ c \in IdColumns(row.table) => row.refs[c] \in Range(archive)
  BY DEF Insertable
<1> HIDE DEF row, refs, copy
<1>4. copy.table = row.table /\ copy.logical = LogicalCopy(archive, n) /\ copy.refs = refs
  BY <1>1, <1>2 DEF RowFields
<1>5. ASSUME NEW c \in DOMAIN row.refs
      PROVE  \/ row.refs[c] = copy.refs[c] /\ (IsFile(row.table, c) \/ row.refs[c] = NoId)
             \/ ~IsFile(row.table, c) /\ row.refs[c] # NoId /\ archive[copy.refs[c]] = row.refs[c]
  <2>1. copy.refs[c] = IF row.refs[c] = NoId \/ c \notin IdColumns(row.table) THEN row.refs[c]
                       ELSE PositionOf(archive, row.refs[c])
    BY <1>4 DEF refs
  <2>2. CASE row.refs[c] = NoId
    BY <2>1, <2>2
  <2>3. CASE c \notin IdColumns(row.table)
    BY <1>1, <2>1, <2>3 DEF Link
  <2>4. CASE row.refs[c] # NoId /\ c \in IdColumns(row.table)
    <3>1. archive[PositionOf(archive, row.refs[c])] = row.refs[c]
      BY <1>3, <2>4, ListedPosition
    <3>2. ~IsFile(row.table, c)
      BY <1>1, <2>4 DEF TableFits
    <3> QED BY <2>1, <2>4, <3>1, <3>2
  <2> QED BY <2>2, <2>3, <2>4
<1> QED BY <1>4, <1>5 DEF CopyFits, row, copy

(* Copies share a logical id exactly when the rows did. *)
LEMMA LogicalsAgree ==
  ASSUME NEW archive \in Seq(DOMAIN rows), NEW n \in DOMAIN archive, NEW o \in DOMAIN archive,
         rows[archive[n]].table = rows[archive[o]].table, LogicalCopy(archive, n) # NoId
  PROVE  LogicalCopy(archive, n) = LogicalCopy(archive, o) <=> rows[archive[n]].logical = rows[archive[o]].logical
<1> DEFINE Same(p) == {m \in DOMAIN archive : OneLogical(rows[archive[m]], rows[archive[p]])}
           First(p) == CHOOSE m \in Same(p) : \A q \in Same(p) : m <= q
<1>1. \A p : LogicalCopy(archive, p) = IF rows[archive[p]].logical = NoId THEN NoId ELSE First(p)
  BY DEF LogicalCopy
<1>2. DOMAIN archive \subseteq Nat \ {0} /\ IsFiniteSet(DOMAIN archive)
  <2>1. IsSeq(archive)
    BY DEF IsSeq
  <2>2. Len(archive) \in Nat /\ DOMAIN archive = 1 .. Len(archive) /\ IsFiniteSet(DOMAIN archive)
    BY <2>1, SeqDomain
  <2>3. 1 .. Len(archive) \subseteq Nat \ {0}
    BY <2>2
  <2> QED BY <2>2, <2>3
<1>3. ASSUME NEW p \in DOMAIN archive PROVE First(p) \in Same(p)
  <2> DEFINE S == Same(p)
  <2>1. p \in S
    BY DEF OneLogical
  <2>2. S \subseteq Int /\ IsFiniteSet(S) /\ S # {}
    <3>1. S \subseteq DOMAIN archive /\ S # {}
      BY <2>1
    <3> HIDE DEF S
    <3>2. IsFiniteSet(S)
      BY <1>2, <3>1, FS_Subset
    <3> QED BY <1>2, <3>1, <3>2
  <2>3. \E m \in S : \A q \in S : m <= q
    <3> HIDE DEF S
    <3> QED BY <2>2, LeastId
  <2> HIDE DEF S
  <2>4. (CHOOSE m \in S : \A q \in S : m <= q) \in S
    BY <2>3
  <2> QED BY <2>4 DEF S
<1>4. \A p, q : rows[archive[p]].table = rows[archive[q]].table /\ rows[archive[p]].logical = rows[archive[q]].logical =>
        Same(p) = Same(q)
  BY DEF OneLogical
<1>5. ASSUME rows[archive[n]].logical = rows[archive[o]].logical PROVE LogicalCopy(archive, n) = LogicalCopy(archive, o)
  <2>1. Same(n) = Same(o)
    BY <1>4, <1>5
  <2>2. First(n) = First(o)
    BY <2>1
  <2> HIDE DEF First
  <2> QED BY <1>1, <1>5, <2>2
<1>6. ASSUME LogicalCopy(archive, n) = LogicalCopy(archive, o) PROVE rows[archive[n]].logical = rows[archive[o]].logical
  <2>1. rows[archive[n]].logical # NoId /\ rows[archive[o]].logical # NoId
    BY <1>1, <1>6
  <2>2. First(n) = First(o)
    <3> HIDE DEF First
    <3> QED BY <1>1, <1>6, <2>1
  <2>3. First(n) \in Same(n) /\ First(n) \in Same(o)
    BY <1>3, <2>2
  <2> HIDE DEF First
  <2> QED BY <2>3 DEF OneLogical
<1> QED BY <1>5, <1>6

(* A row that cannot be inserted. *)
LEMMA FailsOnlyFor ==
  ASSUME RowsHold(rows), Lists(transfer.archive, transfer.project, transfer.redacted, 20),
         NEW n \in DOMAIN transfer.archive, ~Insertable(transfer.archive, n, transfer.here, transfer.redacted)
  PROVE  LeavesProject \/ ChildFirst \/ (transfer.redacted /\ ~transfer.here)
<1> DEFINE archive == transfer.archive
           row == rows[archive[n]]
           table == row.table
<1>1. archive \in Seq(DOMAIN rows) /\ InOrder(archive)
  BY DEF Lists
<1>2. /\ archive[n] \in DOMAIN rows /\ TableFits(table)
      /\ \A c \in DOMAIN row.refs : Link(rows, table, c, row.refs[c])
  BY <1>1, ListedRow
<1>3. \/ \E c \in DOMAIN row.refs : row.refs[c] # NoId /\ c \in IdColumns(table) /\ row.refs[c] \notin Range(archive)
      \/ \E c \in DOMAIN row.refs : /\ row.refs[c] # NoId /\ c \in IdColumns(table) /\ row.refs[c] \in Range(archive)
                                    /\ c \in DOMAIN Refs(table) /\ ~(PositionOf(archive, row.refs[c]) <= n)
      \/ \E c \in DOMAIN row.refs : /\ row.refs[c] # NoId /\ c \notin IdColumns(table)
                                    /\ c \in DOMAIN Refs(table)
                                    /\ ~(transfer.here \/ (IsFile(table, c) /\ ~transfer.redacted))
  BY DEF Insertable
<1>4. CASE \E c \in DOMAIN row.refs : row.refs[c] # NoId /\ c \in IdColumns(table) /\ row.refs[c] \notin Range(archive)
  <2>1. PICK c \in DOMAIN row.refs : row.refs[c] # NoId /\ c \in IdColumns(table) /\ row.refs[c] \notin Range(archive)
    BY <1>4
  <2>2. ~IsFile(table, c)
    BY <1>2, <2>1 DEF TableFits
  <2>3. archive[n] \in Range(archive)
    BY DEF Range
  <2> QED BY <2>1, <2>2, <2>3 DEF LeavesProject, Listed
<1>5. CASE \E c \in DOMAIN row.refs : /\ row.refs[c] # NoId /\ c \in IdColumns(table) /\ row.refs[c] \in Range(archive)
                                      /\ c \in DOMAIN Refs(table) /\ ~(PositionOf(archive, row.refs[c]) <= n)
  <2>1. PICK c \in DOMAIN row.refs : /\ row.refs[c] # NoId /\ c \in IdColumns(table) /\ row.refs[c] \in Range(archive)
                                     /\ c \in DOMAIN Refs(table) /\ ~(PositionOf(archive, row.refs[c]) <= n)
    BY <1>5
  <2> DEFINE id == row.refs[c]
             p == PositionOf(archive, id)
             other == Refs(table)[c]
  <2>2. p \in DOMAIN archive /\ archive[p] = id
    BY <2>1, ListedPosition
  <2>3. id \in DOMAIN rows /\ rows[id].table = other /\ ~IsFile(table, c)
    BY <1>2, <2>1 DEF Link, TableFits
  <2>4. n < p
    <3>1. n \in Nat /\ p \in Nat /\ ~(p <= n)
      <4>1. n \in Nat /\ p \in Nat
        BY <1>1, <2>2
      <4> QED BY <2>1, <4>1
    <3> HIDE DEF p
    <3> QED BY <3>1
  <2>5. Place(other) < Place(table) \/ (other = table /\ (c = "parent_id" \/ InsertionOrder(table)))
    BY <1>2, <2>1 DEF TableFits
  <2>6. Place(table) < Place(other) \/ (table = other /\ (InsertionOrder(table) => archive[n] < id))
    <3> HIDE DEF p
    <3>1. \/ Place(rows[archive[n]].table) < Place(rows[archive[p]].table)
          \/ /\ rows[archive[n]].table = rows[archive[p]].table
             /\ InsertionOrder(rows[archive[n]].table) => archive[n] < archive[p]
      BY <1>1, <2>2, <2>4 DEF InOrder
    <3> QED BY <2>2, <2>3, <3>1
  <2>7. Place(other) \in Int /\ Place(table) \in Int
    <3>1. \A i \in DOMAIN rows : Place(rows[i].table) \in Int
      BY PlaceIsNumber DEF RowsHold, Linked
    <3> QED BY <1>2, <2>3, <3>1
  <2>8. other = table /\ (c = "parent_id" \/ InsertionOrder(table)) /\ (InsertionOrder(table) => archive[n] < id)
    <3> HIDE DEF other, table, id
    <3>1. ~(Place(other) < Place(table) /\ Place(table) < Place(other))
      BY <2>7
    <3>2. other = table => ~(Place(other) < Place(table)) /\ ~(Place(table) < Place(other))
      BY <2>7
    <3> QED BY <2>5, <2>6, <3>1, <3>2
  <2>9. CASE c = "parent_id"
    <3>1. row.refs.parent_id = id /\ "parent_id" \in DOMAIN row.refs
      BY <2>1, <2>9
    <3>2. p > n
      <4> HIDE DEF p
      <4> QED BY <1>1, <2>2, <2>4
    <3> QED BY <2>1, <3>1, <3>2 DEF ChildFirst, Listed
  <2>10. CASE c # "parent_id"
    <3>1. archive[n] < id
      BY <2>8, <2>10
    <3>2. c # "selected_attempt_id"
      <4>1. table \in ArchivedNames
        BY <1>2 DEF RowsHold, Linked
      <4> HIDE DEF table
      <4> QED BY <2>1, <4>1, SelfReferences
    <3>3. id > NoId => id < archive[n]
      BY <1>2, <2>1, <3>2 DEF RowsHold, RefsHold, Refers
    <3>4. DOMAIN rows \subseteq Nat \ {0}
      BY SeqDomain DEF RowsHold, InPlace
    <3> HIDE DEF id, archive
    <3>5. id \in Nat \ {0} /\ archive[n] \in Nat
      BY <1>2, <2>3, <3>4
    <3> QED BY <3>1, <3>3, <3>5 DEF NoId
  <2> QED BY <2>9, <2>10
<1>6. CASE \E c \in DOMAIN row.refs : /\ row.refs[c] # NoId /\ c \notin IdColumns(table)
                                      /\ c \in DOMAIN Refs(table)
                                      /\ ~(transfer.here \/ (IsFile(table, c) /\ ~transfer.redacted))
  BY <1>2, <1>6 DEF Link
<1> QED BY <1>3, <1>4, <1>5, <1>6

(***************************************************************************)
(* Export and import.                                                      *)
(***************************************************************************)
WithArchive == {"exported", "import queued", "imported", "import failed"}
Inserts(n) == Insertable(transfer.archive, n, transfer.here, transfer.redacted)

TransferInv ==
  /\ DOMAIN transfer = DOMAIN NoTransfer
  /\ transfer.at \in WithArchive => Lists(transfer.archive, transfer.project, transfer.redacted, 20)
  /\ transfer.at = "imported" =>
       /\ transfer.copy = [n \in DOMAIN transfer.archive |-> Copied(transfer.archive, n)]
       /\ \A n \in DOMAIN transfer.archive : Inserts(n)
  /\ transfer.at = "import failed" => \E n \in DOMAIN transfer.archive : ~Inserts(n)

LEMMA WholeIf == ASSUME RowsHold(rows), TransferInv PROVE ImportedIsWhole
<1> DEFINE archive == transfer.archive
           copy == transfer.copy
<1>1. transfer.at \in WithArchive => Lists(archive, transfer.project, transfer.redacted, 20)
  BY DEF TransferInv
<1>2. ASSUME transfer.at = "imported"
      PROVE  /\ Len(copy) = Len(archive) /\ \A n, o \in DOMAIN archive : archive[n] = archive[o] => n = o
             /\ ~transfer.redacted => Range(archive) = {i \in DOMAIN rows : rows[i].project = transfer.project}
             /\ \A n \in DOMAIN copy :
                   LET row == rows[archive[n]] IN
                   \A c \in DOMAIN row.refs :
                       \/ row.refs[c] = copy[n].refs[c] /\ (IsFile(row.table, c) \/ row.refs[c] = NoId)
                       \/ ~IsFile(row.table, c) /\ row.refs[c] # NoId /\ archive[copy[n].refs[c]] = row.refs[c]
             /\ \A n, o \in DOMAIN copy :
                   copy[n].table = copy[o].table /\ copy[n].logical # NoId =>
                       (copy[n].logical = copy[o].logical <=> rows[archive[n]].logical = rows[archive[o]].logical)
  <2>1. /\ archive \in Seq(DOMAIN rows) /\ Range(archive) = Contents(transfer.project, transfer.redacted, 20)
    BY <1>1, <1>2 DEF Lists, WithArchive
  <2>2. DOMAIN copy = DOMAIN archive /\ \A n \in DOMAIN archive : copy[n] = Copied(archive, n) /\ Inserts(n)
    BY <1>2 DEF TransferInv
  <2>3. Len(copy) = Len(archive)
    BY <2>1, <2>2
  <2>4. \A n \in DOMAIN archive : CopyFits(archive, n, copy[n])
    BY <2>1, <2>2, CopyIs DEF Inserts
  <2>5. ASSUME ~transfer.redacted
        PROVE  Range(archive) = {i \in DOMAIN rows : rows[i].project = transfer.project}
    <3>1. ASSUME NEW i \in Range(archive) PROVE i \in DOMAIN rows /\ rows[i].project = transfer.project
      <4>1. PICK m \in 1 .. 20 : i \in Archived(transfer.project, transfer.redacted)[ArchivedTables[m]]
        BY <2>1, <3>1 DEF Contents
      <4> QED BY <4>1, ArchivedRows
    <3>2. ASSUME NEW i \in DOMAIN rows, rows[i].project = transfer.project PROVE i \in Range(archive)
      <4>1. PICK m \in 1 .. 20 : rows[i].table = ArchivedTables[m]
        BY TableAt DEF RowsHold, Linked, ArchivedNames, Range
      <4>2. i \in Archived(transfer.project, transfer.redacted)[ArchivedTables[m]]
        BY <2>5, <3>2, <4>1, ArchivedRows
      <4> QED BY <2>1, <4>2 DEF Contents
    <3> QED BY <3>1, <3>2
  <2>6. ASSUME NEW n \in DOMAIN copy, NEW o \in DOMAIN copy, copy[n].table = copy[o].table, copy[n].logical # NoId
        PROVE  copy[n].logical = copy[o].logical <=> rows[archive[n]].logical = rows[archive[o]].logical
    <3>1. /\ copy[n].table = rows[archive[n]].table /\ copy[n].logical = LogicalCopy(archive, n)
          /\ copy[o].table = rows[archive[o]].table /\ copy[o].logical = LogicalCopy(archive, o)
      BY <2>2, <2>4 DEF CopyFits
    <3>2. n \in DOMAIN archive /\ o \in DOMAIN archive /\ rows[archive[n]].table = rows[archive[o]].table
      BY <2>2, <2>6, <3>1
    <3>3. LogicalCopy(archive, n) # NoId
      BY <2>6, <3>1
    <3> HIDE DEF archive, copy
    <3> QED BY <2>1, <3>1, <3>2, <3>3, LogicalsAgree
  <2>7. ASSUME NEW n \in DOMAIN archive, NEW o \in DOMAIN archive, archive[n] = archive[o], n # o PROVE FALSE
    <3>1. archive[n] \in DOMAIN rows /\ n \in Int /\ o \in Int
      BY <2>1, <2>7
    <3>2. Place(rows[archive[n]].table) \in Int
      BY <3>1, PlaceIsNumber DEF RowsHold, Linked
    <3>3. InOrder(archive) /\ (n < o \/ o < n)
      BY <1>1, <1>2, <2>7, <3>1 DEF Lists, WithArchive
    <3> HIDE DEF archive
    <3> QED BY <2>7, <3>2, <3>3 DEF InOrder
  <2> QED BY <2>2, <2>3, <2>4, <2>5, <2>6, <2>7 DEF CopyFits
<1>3. ASSUME transfer.at = "import failed" PROVE LeavesProject \/ ChildFirst \/ (transfer.redacted /\ ~transfer.here)
  BY <1>1, <1>3, FailsOnlyFor DEF TransferInv, WithArchive, Inserts
<1> QED BY <1>2, <1>3 DEF ImportedIsWhole

LEMMA TransferKeeps == RowsHold(rows) /\ TransferInv /\ [ExchangeNext]_exchangeVars => TransferInv'
<1> SUFFICES ASSUME RowsHold(rows), TransferInv, [ExchangeNext]_exchangeVars PROVE TransferInv'
  OBVIOUS
<1> DEFINE archive == transfer.archive
<1>1. DOMAIN transfer = {"at", "project", "redacted", "here", "archive", "copy"}
  BY DEF TransferInv, NoTransfer
<1>2. CASE transfer' = NoTransfer
  BY <1>2 DEF TransferInv, NoTransfer, WithArchive
<1>3. CASE \E project \in Projects, redacted \in BOOLEAN : CreateExport(project, redacted)
  <2>1. DOMAIN transfer' = DOMAIN NoTransfer /\ transfer'.at = "export queued"
    BY <1>3 DEF CreateExport, NoTransfer
  <2> QED BY <2>1 DEF TransferInv, WithArchive
(* the facts about an archive that is kept *)
<1>4. ASSUME rows' = rows, archive' = archive
      PROVE  /\ \A n : Inserts(n)' <=> Insertable(archive, n, transfer'.here, transfer'.redacted)
             /\ \A n : Copied(archive, n)' = Copied(archive, n)
  BY <1>4 DEF Inserts, Insertable, Copied, LogicalCopy, OneLogical
<1>5. ASSUME rows' = rows, NEW s, s = transfer'.archive, Lists(s, transfer'.project, transfer'.redacted, 20)
      PROVE  Lists(transfer.archive, transfer.project, transfer.redacted, 20)'
  BY <1>5 DEF Lists, InOrder, Contents, Archived, IdsOf, IdsIn
<1>6. CASE BuildExport
  <2>1. PICK s \in Archives(transfer.project, transfer.redacted) :
            transfer' = [transfer EXCEPT !.at = "exported", !.archive = s]
    BY <1>6 DEF BuildExport
  <2>2. /\ DOMAIN transfer' = DOMAIN NoTransfer /\ transfer'.at = "exported" /\ s = transfer'.archive
        /\ transfer'.project = transfer.project /\ transfer'.redacted = transfer.redacted
    BY <1>1, <2>1 DEF NoTransfer
  <2>3. rows' = rows
    BY <1>6 DEF BuildExport
  <2>4. Lists(s, transfer'.project, transfer'.redacted, 20)
    BY <2>2, ArchiveLists DEF RowsHold, InPlace
  <2> QED BY <1>5, <2>2, <2>3, <2>4 DEF TransferInv
<1>7. CASE UNCHANGED exchangeVars
  <2>1. rows' = rows /\ transfer' = transfer
    BY <1>7 DEF exchangeVars
  <2> QED BY <1>4, <1>5, <2>1 DEF TransferInv, Inserts
<1>8. CASE \E here \in BOOLEAN : CreateImport(here)
  <2>1. /\ rows' = rows /\ transfer.at = "exported" /\ DOMAIN transfer' = DOMAIN NoTransfer
        /\ transfer'.at = "import queued" /\ transfer'.archive = archive
        /\ transfer'.project = transfer.project /\ transfer'.redacted = transfer.redacted
    BY <1>1, <1>8 DEF CreateImport, NoTransfer
  <2>2. Lists(archive, transfer'.project, transfer'.redacted, 20)
    BY <2>1 DEF TransferInv, WithArchive
  <2>3. Lists(transfer.archive, transfer.project, transfer.redacted, 20)'
    BY <1>5, <2>1, <2>2
  <2> QED BY <2>1, <2>3 DEF TransferInv
<1>9. CASE CrashExchange
  <2>1. DOMAIN transfer' = DOMAIN NoTransfer /\ transfer'.at = "queued for good"
    BY <1>1, <1>9 DEF CrashExchange, NoTransfer
  <2> QED BY <2>1 DEF TransferInv, WithArchive
<1>10. CASE ImportArchive
  <2> DEFINE Whole == \A n \in DOMAIN archive : Insertable(archive, n, transfer.here, transfer.redacted)
             copies == [n \in DOMAIN archive |-> Copied(archive, n)]
  <2>1. /\ rows' = rows /\ transfer.at = "import queued"
        /\ transfer' = IF Whole THEN [transfer EXCEPT !.at = "imported", !.copy = copies]
                              ELSE [transfer EXCEPT !.at = "import failed"]
    BY <1>10 DEF ImportArchive
  <2> HIDE DEF Whole, copies
  <2>2. /\ DOMAIN transfer' = DOMAIN NoTransfer /\ transfer'.archive = archive /\ transfer'.here = transfer.here
        /\ transfer'.project = transfer.project /\ transfer'.redacted = transfer.redacted
        /\ (Whole /\ transfer'.at = "imported" /\ transfer'.copy = copies) \/ (~Whole /\ transfer'.at = "import failed")
    BY <1>1, <2>1 DEF NoTransfer
  <2>3. Lists(archive, transfer'.project, transfer'.redacted, 20)
    BY <2>1, <2>2 DEF TransferInv, WithArchive
  <2>4. Lists(transfer.archive, transfer.project, transfer.redacted, 20)'
    BY <1>5, <2>1, <2>2, <2>3
  <2>5. \A n : Inserts(n)' <=> Insertable(archive, n, transfer.here, transfer.redacted)
    BY <1>4, <2>1, <2>2
  <2>6. \A n : Copied(transfer.archive, n)' = Copied(archive, n)
    BY <1>4, <2>1, <2>2
  <2>7. transfer'.at = "imported" => transfer'.copy = [n \in DOMAIN transfer'.archive |-> Copied(transfer.archive, n)']
    BY <2>2, <2>6 DEF copies
  <2>8. transfer'.at = "imported" => \A n \in DOMAIN transfer'.archive : Inserts(n)'
    BY <2>2, <2>5 DEF Whole
  <2>9. transfer'.at = "import failed" => \E n \in DOMAIN transfer'.archive : ~Inserts(n)'
    BY <2>2, <2>5 DEF Whole
  <2> QED BY <2>2, <2>4, <2>7, <2>8, <2>9 DEF TransferInv
<1>11. CASE \E project \in Projects : Evaluate(project)
  <2>1. transfer' = NoTransfer
    BY <1>11 DEF Evaluate
  <2> QED BY <1>2, <2>1
<1>12. CASE Define
  <2>1. transfer' = NoTransfer
    BY <1>12 DEF Define
  <2> QED BY <1>2, <2>1
<1> QED BY <1>3, <1>6, <1>7, <1>8, <1>9, <1>10, <1>11, <1>12 DEF ExchangeNext

(***************************************************************************)
(* However many definitions are saved, in whatever projects, with parents  *)
(* and logical ids of other ones and runs in between, versions tell their  *)
(* order, nothing is stored twice and a row refers to its own project.     *)
(* (repositories.py _next_version, _existing, the guards of the routes)    *)
(***************************************************************************)
THEOREM VersionsHonest == ExchangeSpec => []VersionsAreHonest
<1>1. ExchangeInit({<<>>}) => RowsHold(rows)
  BY NoRowsHold DEF ExchangeInit
<1>2. RowsHold(rows) => VersionsAreHonest
  BY HonestIf
<1> QED BY <1>1, <1>2, RowsKeep, PTL DEF ExchangeSpec

(***************************************************************************)
(* Whichever project is exported, with whatever rows, in whichever order   *)
(* the database lists them, into this installation or another one: what an *)
(* import leaves is the project over again, with every reference led to    *)
(* the copy of what it referred to and logical ids shared as before, and   *)
(* an import fails for no other reason than the three that are named.      *)
(* (artifacts/exchange.py _project_rows, import_archive)                   *)
(***************************************************************************)
THEOREM ImportsAreWhole == ExchangeSpec => []ImportedIsWhole
<1>1. ExchangeInit({<<>>}) => RowsHold(rows) /\ TransferInv
  BY NoRowsHold DEF ExchangeInit, TransferInv, NoTransfer, WithArchive
<1>2. RowsHold(rows) /\ TransferInv => ImportedIsWhole
  BY WholeIf
<1> QED BY <1>1, <1>2, RowsKeep, TransferKeeps, PTL DEF ExchangeSpec

(***************************************************************************)
(* The schema.  A table refers to itself and to tables created before it, and *)
(* both revisions drop their tables in the reverse order, so that what is  *)
(* dropped is never referred to.                                           *)
(*                                                                         *)
(* The names of all tables, in the order of their creation.                *)
(***************************************************************************)
NamesInOrder ==
  <<"artifacts", "idempotency_keys", "projects", "worker_heartbeats", "artifact_refs", "calibration_versions",
    "exports", "imports", "release_policies", "scenario_versions", "target_config_versions", "connection_tests",
    "dataset_versions", "grader_versions", "cases", "runs", "comparisons", "events", "grading_runs", "jobs",
    "run_candidates", "trials", "attempts", "grades", "memory_store_ownership", "probability_records", "reviews",
    "trial_outcomes", "external_imports", "external_results">>

AllTables == InitialTables \o ExternalTables

LEMMA NamesDiffer == Len(NamesInOrder) = 30 /\ \A i, j \in 1 .. 30 : NamesInOrder[i] = NamesInOrder[j] => i = j
BY DEF NamesInOrder

LEMMA NewTableIs == \A n, refs : NewTable(n, refs).name = n /\ NewTable(n, refs).refs = refs
BY DEF NewTable

(* A part of the list, from the position k + 1 on. *)
Placed(part, k, n) ==
  /\ \E E : part \in Seq(E)
  /\ Len(part) = n
  /\ \A i \in 1 .. n : part[i].name = NamesInOrder[i + k] /\ part[i].refs \subseteq {NamesInOrder[j] : j \in 1 .. i + k}
  /\ \A i \in 1 .. n : part[i].refs = Range(Refs(part[i].name))

LEMMA NameAt ==
  /\ NamesInOrder[1] = "artifacts" /\ NamesInOrder[2] = "idempotency_keys"
  /\ NamesInOrder[3] = "projects" /\ NamesInOrder[4] = "worker_heartbeats" /\ NamesInOrder[5] = "artifact_refs"
  /\ NamesInOrder[6] = "calibration_versions" /\ NamesInOrder[7] = "exports" /\ NamesInOrder[8] = "imports"
  /\ NamesInOrder[9] = "release_policies" /\ NamesInOrder[10] = "scenario_versions"
  /\ NamesInOrder[11] = "target_config_versions" /\ NamesInOrder[12] = "connection_tests"
  /\ NamesInOrder[13] = "dataset_versions" /\ NamesInOrder[14] = "grader_versions" /\ NamesInOrder[15] = "cases"
  /\ NamesInOrder[16] = "runs" /\ NamesInOrder[17] = "comparisons" /\ NamesInOrder[18] = "events"
  /\ NamesInOrder[19] = "grading_runs" /\ NamesInOrder[20] = "jobs" /\ NamesInOrder[21] = "run_candidates"
  /\ NamesInOrder[22] = "trials" /\ NamesInOrder[23] = "attempts" /\ NamesInOrder[24] = "grades"
  /\ NamesInOrder[25] = "memory_store_ownership" /\ NamesInOrder[26] = "probability_records"
  /\ NamesInOrder[27] = "reviews" /\ NamesInOrder[28] = "trial_outcomes" /\ NamesInOrder[29] = "external_imports"
  /\ NamesInOrder[30] = "external_results"
BY DEF NamesInOrder

(* What the models declare. *)
LEMMA ModelOf ==
  /\ Refs("artifacts") = ArtifactTable.refs /\ Refs("idempotency_keys") = IdempotencyTable.refs
  /\ Refs("projects") = ProjectTable.refs /\ Refs("worker_heartbeats") = HeartbeatTable.refs
  /\ Refs("artifact_refs") = ArtifactRefTable.refs /\ Refs("calibration_versions") = CalibrationTable.refs
  /\ Refs("exports") = ExportTable.refs /\ Refs("imports") = ImportTable.refs
  /\ Refs("release_policies") = PolicyTable.refs /\ Refs("scenario_versions") = ScenarioTable.refs
  /\ Refs("target_config_versions") = TargetTable.refs /\ Refs("connection_tests") = ConnectionTestTable.refs
  /\ Refs("dataset_versions") = DatasetTable.refs /\ Refs("grader_versions") = GraderTable.refs
  /\ Refs("cases") = CaseTable.refs /\ Refs("runs") = RunTable.refs /\ Refs("comparisons") = ComparisonTable.refs
  /\ Refs("events") = EventTable.refs /\ Refs("grading_runs") = GradingRunTable.refs /\ Refs("jobs") = JobTable.refs
  /\ Refs("run_candidates") = CandidateTable.refs /\ Refs("trials") = TrialTable.refs
  /\ Refs("attempts") = AttemptTable.refs /\ Refs("grades") = GradeTable.refs
  /\ Refs("memory_store_ownership") = OwnershipTable.refs /\ Refs("probability_records") = ProbabilityTable.refs
  /\ Refs("reviews") = ReviewTable.refs /\ Refs("trial_outcomes") = OutcomeTable.refs
  /\ Refs("external_imports") = ExternalImportTable.refs /\ Refs("external_results") = ExternalResultTable.refs
BY DEF Refs, Models

(* The parts of revision 1 and the tables of revision 2, each in its place. *)
LEMMA InitialExchangeDeclared ==
  /\ Range(Refs("artifacts")) = {} /\ Range(Refs("idempotency_keys")) = {} /\ Range(Refs("projects")) = {}
  /\ Range(Refs("worker_heartbeats")) = {} /\ Range(Refs("artifact_refs")) = {"artifacts"}
  /\ Range(Refs("calibration_versions")) = {"artifacts", "projects"}
  /\ Range(Refs("exports")) = {"artifacts", "projects"} /\ Range(Refs("imports")) = {"artifacts", "projects"}
  /\ Range(Refs("release_policies")) = {"projects"}
BY ModelOf DEF Range, Table, Versioned, Unversioned, ArtifactTable, IdempotencyTable, ProjectTable, HeartbeatTable,
   ArtifactRefTable, CalibrationTable, ExportTable, ImportTable, PolicyTable

LEMMA InitialDefinitionsDeclared ==
  /\ Range(Refs("scenario_versions")) = {"scenario_versions", "projects"}
  /\ Range(Refs("target_config_versions")) = {"target_config_versions", "projects"}
  /\ Range(Refs("connection_tests")) = {"target_config_versions"}
  /\ Range(Refs("dataset_versions")) = {"dataset_versions", "projects", "scenario_versions"}
  /\ Range(Refs("grader_versions")) = {"target_config_versions", "grader_versions", "projects"}
  /\ Range(Refs("cases")) = {"dataset_versions"}
BY ModelOf DEF Range, Table, Versioned, Unversioned, ScenarioTable, TargetTable, ConnectionTestTable, DatasetTable,
   GraderTable, CaseTable

LEMMA InitialRunsDeclared ==
  /\ Range(Refs("runs")) = {"dataset_versions", "runs", "projects", "scenario_versions"}
  /\ Range(Refs("comparisons")) = {"runs", "release_policies", "projects"} /\ Range(Refs("events")) = {"runs"}
  /\ Range(Refs("grading_runs")) = {"runs"} /\ Range(Refs("jobs")) = {"runs"}
  /\ Range(Refs("run_candidates")) = {"runs", "target_config_versions"} /\ Range(Refs("trials")) = {"cases", "runs"}
BY ModelOf DEF Range, Table, Versioned, Unversioned, RunTable, ComparisonTable, EventTable, GradingRunTable,
   JobTable, CandidateTable, TrialTable

LEMMA InitialEvidenceDeclared ==
  /\ Range(Refs("attempts")) = {"artifacts", "trials"}
  /\ Range(Refs("grades")) = {"grader_versions", "grading_runs", "trials"}
  /\ Range(Refs("memory_store_ownership")) = {"runs", "trials"}
  /\ Range(Refs("probability_records")) = {"cases", "dataset_versions", "projects", "trials"}
  /\ Range(Refs("reviews")) = {"reviews", "trials"} /\ Range(Refs("trial_outcomes")) = {"grading_runs", "trials"}
BY ModelOf DEF Range, Table, Versioned, Unversioned, AttemptTable, GradeTable, OwnershipTable, ProbabilityTable,
   ReviewTable, OutcomeTable

LEMMA ExternalTablesDeclared ==
  /\ Range(Refs("external_imports")) = {"artifacts", "projects"}
  /\ Range(Refs("external_results")) = {"external_imports"}
BY ModelOf DEF Range, Table, Versioned, Unversioned, ExternalImportTable, ExternalResultTable

LEMMA InitialExchangeIs ==
  /\ InitialExchange[1].name = "artifacts" /\ InitialExchange[1].refs = {}
  /\ InitialExchange[2].name = "idempotency_keys" /\ InitialExchange[2].refs = {}
  /\ InitialExchange[3].name = "projects" /\ InitialExchange[3].refs = {}
  /\ InitialExchange[4].name = "worker_heartbeats" /\ InitialExchange[4].refs = {}
  /\ InitialExchange[5].name = "artifact_refs" /\ InitialExchange[5].refs = {"artifacts"}
  /\ InitialExchange[6].name = "calibration_versions" /\ InitialExchange[6].refs = {"artifacts", "projects"}
  /\ InitialExchange[7].name = "exports" /\ InitialExchange[7].refs = {"artifacts", "projects"}
  /\ InitialExchange[8].name = "imports" /\ InitialExchange[8].refs = {"artifacts", "projects"}
  /\ InitialExchange[9].name = "release_policies" /\ InitialExchange[9].refs = {"projects"}
BY NewTableIs DEF InitialExchange

LEMMA InitialExchangePlaced == Placed(InitialExchange, 0, 9)
<1>1. InitialExchange \in Seq({InitialExchange[i] : i \in 1 .. 9}) /\ Len(InitialExchange) = 9
  BY DEF InitialExchange
<1>2. \A i \in 1 .. 9 : InitialExchange[i].name = NamesInOrder[i + 0]
  BY InitialExchangeIs, NameAt
<1>3. \A i \in 1 .. 9 : InitialExchange[i].refs \subseteq {NamesInOrder[j] : j \in 1 .. i + 0}
  BY InitialExchangeIs, NameAt
<1>4. \A i \in 1 .. 9 : InitialExchange[i].refs = Range(Refs(InitialExchange[i].name))
  <2>1. /\ InitialExchange[1].refs = Range(Refs(InitialExchange[1].name))
        /\ InitialExchange[2].refs = Range(Refs(InitialExchange[2].name))
        /\ InitialExchange[3].refs = Range(Refs(InitialExchange[3].name))
        /\ InitialExchange[4].refs = Range(Refs(InitialExchange[4].name))
        /\ InitialExchange[5].refs = Range(Refs(InitialExchange[5].name))
        /\ InitialExchange[6].refs = Range(Refs(InitialExchange[6].name))
        /\ InitialExchange[7].refs = Range(Refs(InitialExchange[7].name))
        /\ InitialExchange[8].refs = Range(Refs(InitialExchange[8].name))
        /\ InitialExchange[9].refs = Range(Refs(InitialExchange[9].name))
    BY InitialExchangeIs, InitialExchangeDeclared, Zenon
  <2> QED BY <2>1
<1> QED BY <1>1, <1>2, <1>3, <1>4 DEF Placed

LEMMA InitialDefinitionsIs ==
  /\ InitialDefinitions[1].name = "scenario_versions" /\ InitialDefinitions[1].refs = {"scenario_versions", "projects"}
  /\ InitialDefinitions[2].name = "target_config_versions" /\ InitialDefinitions[2].refs = {"target_config_versions", "projects"}
  /\ InitialDefinitions[3].name = "connection_tests" /\ InitialDefinitions[3].refs = {"target_config_versions"}
  /\ InitialDefinitions[4].name = "dataset_versions" /\ InitialDefinitions[4].refs = {"dataset_versions", "projects", "scenario_versions"}
  /\ InitialDefinitions[5].name = "grader_versions" /\ InitialDefinitions[5].refs = {"target_config_versions", "grader_versions", "projects"}
  /\ InitialDefinitions[6].name = "cases" /\ InitialDefinitions[6].refs = {"dataset_versions"}
BY NewTableIs DEF InitialDefinitions

LEMMA InitialDefinitionsPlaced == Placed(InitialDefinitions, 9, 6)
<1>1. InitialDefinitions \in Seq({InitialDefinitions[i] : i \in 1 .. 6}) /\ Len(InitialDefinitions) = 6
  BY DEF InitialDefinitions
<1>2. \A i \in 1 .. 6 : InitialDefinitions[i].name = NamesInOrder[i + 9]
  BY InitialDefinitionsIs, NameAt
<1>3. \A i \in 1 .. 6 : InitialDefinitions[i].refs \subseteq {NamesInOrder[j] : j \in 1 .. i + 9}
  BY InitialDefinitionsIs, NameAt
<1>4. \A i \in 1 .. 6 : InitialDefinitions[i].refs = Range(Refs(InitialDefinitions[i].name))
  <2>1. /\ InitialDefinitions[1].refs = Range(Refs(InitialDefinitions[1].name))
        /\ InitialDefinitions[2].refs = Range(Refs(InitialDefinitions[2].name))
        /\ InitialDefinitions[3].refs = Range(Refs(InitialDefinitions[3].name))
        /\ InitialDefinitions[4].refs = Range(Refs(InitialDefinitions[4].name))
        /\ InitialDefinitions[5].refs = Range(Refs(InitialDefinitions[5].name))
        /\ InitialDefinitions[6].refs = Range(Refs(InitialDefinitions[6].name))
    BY InitialDefinitionsIs, InitialDefinitionsDeclared, Zenon
  <2> QED BY <2>1
<1> QED BY <1>1, <1>2, <1>3, <1>4 DEF Placed

LEMMA InitialRunsIs ==
  /\ InitialRuns[1].name = "runs" /\ InitialRuns[1].refs = {"dataset_versions", "runs", "projects", "scenario_versions"}
  /\ InitialRuns[2].name = "comparisons" /\ InitialRuns[2].refs = {"runs", "release_policies", "projects"}
  /\ InitialRuns[3].name = "events" /\ InitialRuns[3].refs = {"runs"}
  /\ InitialRuns[4].name = "grading_runs" /\ InitialRuns[4].refs = {"runs"}
  /\ InitialRuns[5].name = "jobs" /\ InitialRuns[5].refs = {"runs"}
  /\ InitialRuns[6].name = "run_candidates" /\ InitialRuns[6].refs = {"runs", "target_config_versions"}
  /\ InitialRuns[7].name = "trials" /\ InitialRuns[7].refs = {"cases", "runs"}
BY NewTableIs DEF InitialRuns

LEMMA InitialRunsPlaced == Placed(InitialRuns, 15, 7)
<1>1. InitialRuns \in Seq({InitialRuns[i] : i \in 1 .. 7}) /\ Len(InitialRuns) = 7
  BY DEF InitialRuns
<1>2. \A i \in 1 .. 7 : InitialRuns[i].name = NamesInOrder[i + 15]
  BY InitialRunsIs, NameAt
<1>3. \A i \in 1 .. 7 : InitialRuns[i].refs \subseteq {NamesInOrder[j] : j \in 1 .. i + 15}
  BY InitialRunsIs, NameAt
<1>4. \A i \in 1 .. 7 : InitialRuns[i].refs = Range(Refs(InitialRuns[i].name))
  <2>1. /\ InitialRuns[1].refs = Range(Refs(InitialRuns[1].name))
        /\ InitialRuns[2].refs = Range(Refs(InitialRuns[2].name))
        /\ InitialRuns[3].refs = Range(Refs(InitialRuns[3].name))
        /\ InitialRuns[4].refs = Range(Refs(InitialRuns[4].name))
        /\ InitialRuns[5].refs = Range(Refs(InitialRuns[5].name))
        /\ InitialRuns[6].refs = Range(Refs(InitialRuns[6].name))
        /\ InitialRuns[7].refs = Range(Refs(InitialRuns[7].name))
    BY InitialRunsIs, InitialRunsDeclared, Zenon
  <2> QED BY <2>1
<1> QED BY <1>1, <1>2, <1>3, <1>4 DEF Placed

LEMMA InitialEvidenceIs ==
  /\ InitialEvidence[1].name = "attempts" /\ InitialEvidence[1].refs = {"artifacts", "trials"}
  /\ InitialEvidence[2].name = "grades" /\ InitialEvidence[2].refs = {"grader_versions", "grading_runs", "trials"}
  /\ InitialEvidence[3].name = "memory_store_ownership" /\ InitialEvidence[3].refs = {"runs", "trials"}
  /\ InitialEvidence[4].name = "probability_records" /\ InitialEvidence[4].refs = {"cases", "dataset_versions", "projects", "trials"}
  /\ InitialEvidence[5].name = "reviews" /\ InitialEvidence[5].refs = {"reviews", "trials"}
  /\ InitialEvidence[6].name = "trial_outcomes" /\ InitialEvidence[6].refs = {"grading_runs", "trials"}
BY NewTableIs DEF InitialEvidence

LEMMA InitialEvidencePlaced == Placed(InitialEvidence, 22, 6)
<1>1. InitialEvidence \in Seq({InitialEvidence[i] : i \in 1 .. 6}) /\ Len(InitialEvidence) = 6
  BY DEF InitialEvidence
<1>2. \A i \in 1 .. 6 : InitialEvidence[i].name = NamesInOrder[i + 22]
  BY InitialEvidenceIs, NameAt
<1>3. \A i \in 1 .. 6 : InitialEvidence[i].refs \subseteq {NamesInOrder[j] : j \in 1 .. i + 22}
  BY InitialEvidenceIs, NameAt
<1>4. \A i \in 1 .. 6 : InitialEvidence[i].refs = Range(Refs(InitialEvidence[i].name))
  <2>1. /\ InitialEvidence[1].refs = Range(Refs(InitialEvidence[1].name))
        /\ InitialEvidence[2].refs = Range(Refs(InitialEvidence[2].name))
        /\ InitialEvidence[3].refs = Range(Refs(InitialEvidence[3].name))
        /\ InitialEvidence[4].refs = Range(Refs(InitialEvidence[4].name))
        /\ InitialEvidence[5].refs = Range(Refs(InitialEvidence[5].name))
        /\ InitialEvidence[6].refs = Range(Refs(InitialEvidence[6].name))
    BY InitialEvidenceIs, InitialEvidenceDeclared, Zenon
  <2> QED BY <2>1
<1> QED BY <1>1, <1>2, <1>3, <1>4 DEF Placed

LEMMA ExternalTablesIs ==
  /\ ExternalTables[1].name = "external_imports" /\ ExternalTables[1].refs = {"artifacts", "projects"}
  /\ ExternalTables[2].name = "external_results" /\ ExternalTables[2].refs = {"external_imports"}
BY NewTableIs DEF ExternalTables

LEMMA ExternalTablesPlaced == Placed(ExternalTables, 28, 2)
<1>1. ExternalTables \in Seq({ExternalTables[i] : i \in 1 .. 2}) /\ Len(ExternalTables) = 2
  BY DEF ExternalTables
<1>2. \A i \in 1 .. 2 : ExternalTables[i].name = NamesInOrder[i + 28]
  BY ExternalTablesIs, NameAt
<1>3. \A i \in 1 .. 2 : ExternalTables[i].refs \subseteq {NamesInOrder[j] : j \in 1 .. i + 28}
  BY ExternalTablesIs, NameAt
<1>4. \A i \in 1 .. 2 : ExternalTables[i].refs = Range(Refs(ExternalTables[i].name))
  <2>1. /\ ExternalTables[1].refs = Range(Refs(ExternalTables[1].name))
        /\ ExternalTables[2].refs = Range(Refs(ExternalTables[2].name))
    BY ExternalTablesIs, ExternalTablesDeclared, Zenon
  <2> QED BY <2>1
<1> QED BY <1>1, <1>2, <1>3, <1>4 DEF Placed

(* One after the other. *)
LEMMA PlacedConcat ==
  ASSUME NEW k \in Nat, NEW n \in Nat, NEW m \in Nat, NEW a, NEW b, Placed(a, k, n), Placed(b, k + n, m)
  PROVE  Placed(a \o b, k, n + m)
<1>1. PICK A : a \in Seq(A)
  BY DEF Placed
<1>2. PICK B : b \in Seq(B)
  BY DEF Placed
<1>3. a \in Seq(A \cup B) /\ b \in Seq(A \cup B) /\ Len(a) = n /\ Len(b) = m
  BY <1>1, <1>2, SeqMonotone DEF Placed
<1>4. /\ a \o b \in Seq(A \cup B) /\ Len(a \o b) = n + m
      /\ \A i \in 1 .. n : (a \o b)[i] = a[i]
      /\ \A i \in 1 .. m : (a \o b)[i + n] = b[i]
  BY <1>3
<1>5. ASSUME NEW i \in 1 .. n + m
      PROVE  /\ (a \o b)[i].name = NamesInOrder[i + k] /\ (a \o b)[i].refs \subseteq {NamesInOrder[j] : j \in 1 .. i + k}
             /\ (a \o b)[i].refs = Range(Refs((a \o b)[i].name))
  <2>1. CASE i \in 1 .. n
    BY <2>1, <1>4 DEF Placed
  <2>2. CASE i \notin 1 .. n
    <3> DEFINE h == i - n
    <3>1. h \in 1 .. m /\ h + n = i /\ h + (k + n) = i + k
      BY <2>2
    <3>2. (a \o b)[i] = b[h]
      BY <3>1, <1>4
    <3>3. /\ b[h].name = NamesInOrder[h + (k + n)] /\ b[h].refs \subseteq {NamesInOrder[j] : j \in 1 .. h + (k + n)}
          /\ b[h].refs = Range(Refs(b[h].name))
      <4> HIDE DEF h
      <4> QED BY <3>1 DEF Placed
    <3> QED BY <3>1, <3>2, <3>3
  <2> QED BY <2>1, <2>2
<1>6. \E E : a \o b \in Seq(E)
  BY <1>4
<1> QED BY <1>4, <1>5, <1>6 DEF Placed

LEMMA TablesPlaced == Placed(InitialTables, 0, 28) /\ Placed(AllTables, 0, 30)
<1>1. Placed(InitialExchange \o InitialDefinitions, 0, 15)
  BY InitialExchangePlaced, InitialDefinitionsPlaced, PlacedConcat
<1>2. Placed(InitialExchange \o InitialDefinitions \o InitialRuns, 0, 22)
  BY <1>1, InitialRunsPlaced, PlacedConcat
<1>3. Placed(InitialTables, 0, 28)
  BY <1>2, InitialEvidencePlaced, PlacedConcat DEF InitialTables
<1>4. Placed(AllTables, 0, 30)
  BY <1>3, ExternalTablesPlaced, PlacedConcat DEF AllTables
<1> QED BY <1>3, <1>4

LEMMA TablesAre ==
  /\ DOMAIN AllTables = 1 .. 30
  /\ \A i \in 1 .. 30 : AllTables[i].name = NamesInOrder[i] /\ AllTables[i].refs = Range(Refs(AllTables[i].name))
<1>0. Placed(AllTables, 0, 30)
  BY TablesPlaced
<1>1. DOMAIN AllTables = 1 .. 30
  <2>1. PICK E : AllTables \in Seq(E)
    BY <1>0 DEF Placed
  <2>2. Len(AllTables) = 30
    BY <1>0 DEF Placed
  <2> QED BY <2>1, <2>2
<1>2. \A i \in 1 .. 30 : AllTables[i].name = NamesInOrder[i + 0] /\ AllTables[i].refs = Range(Refs(AllTables[i].name))
  BY <1>0 DEF Placed
<1>3. \A i \in 1 .. 30 : i + 0 = i
  OBVIOUS
<1> QED BY <1>1, <1>2, <1>3

LEMMA PlacedIs ==
  ASSUME NEW n \in Nat, NEW part, NEW k \in Nat, Placed(part, k, n)
  PROVE  DOMAIN part = 1 .. n /\ \A i \in 1 .. n : part[i].name = NamesInOrder[i + k]
BY DEF Placed

(* Both revisions drop their tables in the reverse order of creation. *)
InReverse(drop, n, m) == DOMAIN drop = 1 .. m /\ \A i \in 1 .. m : drop[i] = NamesInOrder[n + 1 - i]

LEMMA DropsAreReversed == InReverse(DroppedInitially, 28, 28) /\ InReverse(ExternalDropped, 30, 2)
<1>1. DOMAIN DroppedInitially = 1 .. 28 /\ \A i \in 1 .. 28 : DroppedInitially[i] = NamesInOrder[29 - i]
  BY DEF DroppedInitially, NamesInOrder
<1>2. DOMAIN ExternalDropped = 1 .. 2 /\ \A i \in 1 .. 2 : ExternalDropped[i] = NamesInOrder[31 - i]
  BY NameAt DEF ExternalDropped
<1> QED BY <1>1, <1>2 DEF InReverse

(* the drops of a revision, none of which the database refuses *)
CleanDrops(tables, drop, m) ==
  \A i \in 1 .. m : \A t \in Range(AfterDropping(tables, {drop[j] : j \in 1 .. i})) : drop[i] \notin t.refs

LEMMA ReverseIsClean ==
  ASSUME NEW n \in 0 .. 30, NEW m \in 0 .. n, NEW tables, Placed(tables, 0, n), NEW drop, InReverse(drop, n, m)
  PROVE  CleanDrops(tables, drop, m)
<1> SUFFICES ASSUME NEW i \in 1 .. m, NEW t \in Range(AfterDropping(tables, {drop[j] : j \in 1 .. i}))
             PROVE  drop[i] \notin t.refs
  BY DEF CleanDrops
<1> DEFINE S == {u \in Range(tables) : u.name \notin {drop[j] : j \in 1 .. i}}
<1>1. PICK E : tables \in Seq(E)
  BY DEF Placed
<1>2. PICK h \in DOMAIN Select(tables, S) : t = Select(tables, S)[h]
  BY DEF Range, AfterDropping
<1>3. t \in S /\ \E p \in DOMAIN tables : tables[p] = t
  <2> HIDE DEF S
  <2> QED BY <1>1, <1>2, SelectRange
<1>4. PICK p \in DOMAIN tables : tables[p] = t
  BY <1>3
<1>5. p \in 1 .. n /\ t.name = NamesInOrder[p] /\ t.refs \subseteq {NamesInOrder[j] : j \in 1 .. p}
  BY <1>1, <1>4 DEF Placed
<1> SUFFICES ASSUME drop[i] \in t.refs PROVE FALSE
  OBVIOUS
<1>6. PICK j \in 1 .. p : NamesInOrder[n + 1 - i] = NamesInOrder[j]
  BY <1>5 DEF InReverse
<1>7. n + 1 - i = j
  BY <1>5, <1>6, NamesDiffer
<1>8. n + 1 - p \in 1 .. i /\ n + 1 - p \in 1 .. m /\ n + 1 - (n + 1 - p) = p
  BY <1>5, <1>7
<1>9. drop[n + 1 - p] = t.name
  BY <1>5, <1>8 DEF InReverse
<1> QED BY <1>3, <1>8, <1>9

LEMMA DroppedSuffix ==
  ASSUME NEW A, NEW a \in Seq(A), NEW B, NEW b \in Seq(B), NEW names,
         \A i \in DOMAIN a : a[i].name \notin names, \A i \in DOMAIN b : b[i].name \in names
  PROVE  AfterDropping(a \o b, names) = a
<1> DEFINE S == {u \in Range(a \o b) : u.name \notin names}
           As == Range(a)
           Bs == Range(b)
<1>1. a \in Seq(As) /\ b \in Seq(Bs) /\ a \in Seq(As \cup Bs) /\ b \in Seq(As \cup Bs)
  BY DEF Range
<1>2. As \subseteq S
  <2>1. \A i \in DOMAIN a : i \in DOMAIN (a \o b) /\ (a \o b)[i] = a[i]
    OBVIOUS
  <2> QED BY <2>1 DEF Range
<1>3. Bs \cap S = {}
  BY DEF Range
<1>4. Select(a \o b, S) = Select(a, S) \o Select(b, S)
  <2> HIDE DEF S, As, Bs
  <2> QED BY <1>1, SelectConcat
<1>5. Select(a, S) = a /\ Select(b, S) = <<>>
  <2> HIDE DEF S, As, Bs
  <2> QED BY <1>1, <1>2, <1>3, SelectAll, SelectNone
<1>6. a \o <<>> = a
  BY NoElements
<1> QED BY <1>4, <1>5, <1>6 DEF AfterDropping


LEMMA GuardedExternally == {t.name : t \in Range(ExternalTables)} = {"external_imports", "external_results"}
<1>1. DOMAIN ExternalTables = {1, 2}
  BY DEF ExternalTables
<1>2. Range(ExternalTables) = {ExternalTables[1], ExternalTables[2]}
  BY <1>1 DEF Range
<1> QED BY <1>2, ExternalTablesIs

LEMMA HeadIsTheModels ==
  /\ TableNames(AllTables) = NamesInOrder /\ Range(NamesInOrder) = Tables /\ Cardinality(Tables) = 30
  /\ Frozen(ImmutableTables) \subseteq InitialGuards \cup ExternalGuards
<1>1. TableNames(AllTables) = NamesInOrder
  <2>1. DOMAIN AllTables = 1 .. 30 /\ \A i \in 1 .. 30 : AllTables[i].name = NamesInOrder[i]
    BY TablesAre
  <2>2. NamesInOrder = [i \in 1 .. 30 |-> NamesInOrder[i]]
    BY DEF NamesInOrder
  <2> QED BY <2>1, <2>2 DEF TableNames
<1>2. Range(NamesInOrder) = Tables
  BY DEF Tables, Models, NamesInOrder, Range
<1>3. Cardinality(Tables) = 30
  <2>1. NamesInOrder \in Bijection(1 .. 30, Tables)
    <3>1. NamesInOrder \in [1 .. 30 -> Tables]
      BY DEF NamesInOrder, Tables, Models
    <3> QED BY <1>2, <3>1, NamesDiffer DEF Bijection, Injection, Surjection, Range, IsInjective
  <2>2. ExistsBijection(1 .. 30, Tables)
    BY <2>1 DEF ExistsBijection
  <2>3. IsFiniteSet(1 .. 30) /\ Cardinality(1 .. 30) = 30
    BY UpToCount
  <2> QED BY <2>2, <2>3, FS_Bijection
<1>4. Frozen(ImmutableTables) \subseteq InitialGuards \cup ExternalGuards
  <2>1. {t.name : t \in Range(ExternalTables)} = {"external_imports", "external_results"}
    BY GuardedExternally
  <2>2. ImmutableTables = InitialImmutable \cup {"external_imports", "external_results"}
    BY DEF ImmutableTables, InitialImmutable
  <2>3. Frozen(ImmutableTables) = Frozen(InitialImmutable) \cup Frozen({"external_imports", "external_results"})
    BY <2>2 DEF Frozen
  <2> QED BY <2>1, <2>3 DEF InitialGuards, ExternalGuards
<1> QED BY <1>1, <1>2, <1>3, <1>4


LEMMA RevisionsAre ==
  /\ Len(Revisions) = 2
  /\ Revisions[1].create = InitialTables /\ Revisions[1].guard = InitialGuards /\ Revisions[1].drop = DroppedInitially
  /\ Revisions[2].create = ExternalTables /\ Revisions[2].guard = ExternalGuards /\ Revisions[2].drop = ExternalDropped
BY DEF Revisions

(* What a trigger watches. *)
Watched(triggers) == {g[1] : g \in triggers}
FirstNames(n) == {NamesInOrder[i] : i \in 1 .. n}

LEMMA GuardsWatch ==
  /\ Watched(InitialGuards) \subseteq FirstNames(28) /\ Watched(InitialGuards \cup ExternalGuards) \subseteq FirstNames(30)
  /\ (InitialGuards \cup ExternalGuards) \ ExternalGuards = InitialGuards
<1>1. InitialImmutable \cup {"trials", "attempts", "runs"} \subseteq FirstNames(28)
  BY NameAt DEF InitialImmutable, FirstNames
<1>2. Watched(InitialGuards) \subseteq InitialImmutable \cup {"trials", "attempts", "runs"}
  <2>1. \A g \in InitialGuards : g \in Frozen(InitialImmutable) \/ g[1] \in {"trials", "attempts", "runs"}
    <3>1. \A x, y : <<x, y>>[1] = x
      OBVIOUS
    <3>2. ASSUME NEW g \in InitialGuards, g \notin Frozen(InitialImmutable)
          PROVE  \/ g = <<"trials", "UPDATE terminal">> \/ g = <<"trials", "DELETE">>
                 \/ g = <<"attempts", "UPDATE terminal">> \/ g = <<"attempts", "DELETE">> \/ g = <<"runs", "DELETE">>
      BY <3>2, Zenon DEF InitialGuards
    <3> QED BY <3>1, <3>2
  <2>2. \A g \in Frozen(InitialImmutable) : g[1] \in InitialImmutable
    BY DEF Frozen
  <2> QED BY <2>1, <2>2 DEF Watched
<1>3. Watched(ExternalGuards) \subseteq {"external_imports", "external_results"}
  BY GuardedExternally DEF Watched, ExternalGuards, Frozen
<1>4. {"external_imports", "external_results"} \subseteq FirstNames(30) /\ {"external_imports", "external_results"} \cap FirstNames(28) = {}
  <2>1. NamesInOrder[29] = "external_imports" /\ NamesInOrder[30] = "external_results"
    BY NameAt
  <2> QED BY <2>1, NamesDiffer DEF FirstNames
<1>5. FirstNames(28) \subseteq FirstNames(30)
  BY DEF FirstNames
<1>6. Watched(InitialGuards \cup ExternalGuards) = Watched(InitialGuards) \cup Watched(ExternalGuards)
  BY DEF Watched
<1>7. InitialGuards \cap ExternalGuards = {}
  <2>1. \A g \in InitialGuards \cap ExternalGuards : g[1] \in Watched(InitialGuards) \cap Watched(ExternalGuards)
    BY DEF Watched
  <2> QED BY <1>1, <1>2, <1>3, <1>4, <2>1
<1> QED BY <1>1, <1>2, <1>3, <1>4, <1>5, <1>6, <1>7

(* The three states of a database file. *)
SchemaInv ==
  /\ revision \in 0 .. 2 /\ ~refused
  /\ revision = 0 => installed = <<>> /\ guards = {}
  /\ revision = 1 => installed = InitialTables /\ guards = InitialGuards
  /\ revision = 2 => installed = AllTables /\ guards = InitialGuards \cup ExternalGuards

LEMMA PlacedSchema ==
  ASSUME NEW n \in 0 .. 30, NEW tables, Placed(tables, 0, n)
  PROVE  /\ Range(TableNames(tables)) = FirstNames(n)
         /\ \A i \in DOMAIN tables : tables[i].refs \subseteq {TableNames(tables)[j] : j \in 1 .. i}
<1>1. PICK E : tables \in Seq(E)
  BY DEF Placed
<1>2. DOMAIN tables = 1 .. n /\ \A i \in 1 .. n : TableNames(tables)[i] = NamesInOrder[i]
  BY <1>1 DEF Placed, TableNames
<1>3. DOMAIN TableNames(tables) = 1 .. n
  BY <1>2 DEF TableNames
<1>4. \A i \in 1 .. n : {TableNames(tables)[j] : j \in 1 .. i} = {NamesInOrder[j] : j \in 1 .. i}
  BY <1>2
<1>5. \A i \in 1 .. n : i + 0 = i
  OBVIOUS
<1> QED BY <1>2, <1>3, <1>4, <1>5 DEF Placed, Range, FirstNames

LEMMA SchemaWhole == SchemaInv => SchemaIsWhole
<1> SUFFICES ASSUME SchemaInv PROVE SchemaIsWhole
  OBVIOUS
<1>1. CASE revision = 0
  <2>1. installed = <<>> /\ guards = {} /\ ~refused /\ revision # Len(Revisions)
    BY <1>1, RevisionsAre DEF SchemaInv
  <2>2. DOMAIN installed = {}
    BY <2>1, NoElements
  <2> QED BY <2>1, <2>2 DEF SchemaIsWhole
<1>2. CASE revision = 1
  <2>1. installed = InitialTables /\ guards = InitialGuards /\ ~refused /\ revision # Len(Revisions) /\ revision # 0
    BY <1>2, RevisionsAre DEF SchemaInv
  <2>2. Range(TableNames(InitialTables)) = FirstNames(28)
        /\ \A i \in DOMAIN InitialTables : InitialTables[i].refs \subseteq {TableNames(InitialTables)[j] : j \in 1 .. i}
    BY TablesPlaced, PlacedSchema
  <2>3. {g[1] : g \in guards} \subseteq Range(TableNames(installed))
    BY <2>1, <2>2, GuardsWatch DEF Watched
  <2> QED BY <2>1, <2>2, <2>3 DEF SchemaIsWhole
<1>3. CASE revision = 2
  <2>1. installed = AllTables /\ guards = InitialGuards \cup ExternalGuards /\ ~refused /\ revision # 0
    BY <1>3 DEF SchemaInv
  <2>2. Range(TableNames(AllTables)) = FirstNames(30)
        /\ \A i \in DOMAIN AllTables : AllTables[i].refs \subseteq {TableNames(AllTables)[j] : j \in 1 .. i}
    BY TablesPlaced, PlacedSchema
  <2>3. {g[1] : g \in guards} \subseteq Range(TableNames(installed))
    BY <2>1, <2>2, GuardsWatch DEF Watched
  <2>4. \A i \in DOMAIN AllTables : AllTables[i].refs = Range(Refs(AllTables[i].name))
    BY TablesAre
  <2>5. Range(TableNames(AllTables)) = Tables /\ Len(TableNames(AllTables)) = Cardinality(Tables)
    BY HeadIsTheModels, NamesDiffer
  <2> QED BY <2>1, <2>2, <2>3, <2>4, <2>5, HeadIsTheModels DEF SchemaIsWhole
<1> QED BY <1>1, <1>2, <1>3 DEF SchemaInv

LEMMA Undone ==
  /\ AfterDropping(InitialTables, Range(DroppedInitially)) = <<>>
  /\ AfterDropping(AllTables, Range(ExternalDropped)) = InitialTables
<1>1. PICK E : InitialTables \in Seq(E)
  BY TablesPlaced DEF Placed
<1>2. PICK F : ExternalTables \in Seq(F)
  BY ExternalTablesPlaced DEF Placed
<1>3. DOMAIN InitialTables = 1 .. 28 /\ DOMAIN ExternalTables = 1 .. 2
  BY TablesPlaced, ExternalTablesPlaced, PlacedIs
<1>4. \A i \in 1 .. 28 : InitialTables[i].name = NamesInOrder[i]
  <2>1. \A i \in 1 .. 28 : InitialTables[i].name = NamesInOrder[i + 0] /\ i + 0 = i
    BY TablesPlaced, PlacedIs
  <2> QED BY <2>1
<1>5. \A i \in 1 .. 2 : ExternalTables[i].name = NamesInOrder[i + 28]
  BY ExternalTablesPlaced, PlacedIs
<1>6. \A n \in Range(ExternalDropped) : \E i \in 1 .. 2 : n = NamesInOrder[31 - i]
  BY DropsAreReversed DEF Range, InReverse
<1>7. \A i \in 1 .. 2 : 3 - i \in DOMAIN ExternalDropped /\ ExternalDropped[3 - i] = NamesInOrder[i + 28]
  BY DropsAreReversed DEF InReverse
<1>8. \A i \in 1 .. 28 : 29 - i \in DOMAIN DroppedInitially /\ DroppedInitially[29 - i] = NamesInOrder[i]
  BY DropsAreReversed DEF InReverse
<1>9. \A i \in DOMAIN InitialTables : InitialTables[i].name \notin Range(ExternalDropped)
  BY <1>3, <1>4, <1>6, NamesDiffer
<1>10. \A i \in DOMAIN ExternalTables : ExternalTables[i].name \in Range(ExternalDropped)
  BY <1>3, <1>5, <1>7 DEF Range
<1>11. \A i \in DOMAIN InitialTables : InitialTables[i].name \in Range(DroppedInitially)
  BY <1>3, <1>4, <1>8 DEF Range
<1>12. AfterDropping(AllTables, Range(ExternalDropped)) = InitialTables
  BY <1>1, <1>2, <1>9, <1>10, DroppedSuffix DEF AllTables
<1>13. AfterDropping(<<>> \o InitialTables, Range(DroppedInitially)) = <<>>
  <2>1. <<>> \in Seq(E) /\ DOMAIN <<>> = {}
    BY NoElements
  <2> QED BY <1>1, <1>11, <2>1, DroppedSuffix
<1>14. <<>> \o InitialTables = InitialTables
  BY <1>1
<1> QED BY <1>12, <1>13, <1>14

LEMMA SchemaKeeps == SchemaInv /\ [MigrationNext]_migrationVars => SchemaInv'
<1> SUFFICES ASSUME SchemaInv, [MigrationNext]_migrationVars PROVE SchemaInv'
  OBVIOUS
<1>1. CASE UNCHANGED migrationVars
  BY <1>1 DEF SchemaInv, migrationVars
<1>2. CASE Upgrade
  <2>1. revision \in 0 .. 1 /\ revision' = revision + 1 /\ refused' = refused /\ ~refused
    BY <1>2, RevisionsAre DEF Upgrade, SchemaInv
  <2>2. CASE revision = 0
    <3>1. PICK E : InitialTables \in Seq(E)
      BY TablesPlaced DEF Placed
    <3>2. <<>> \o InitialTables = InitialTables
      BY <3>1
    <3>3. revision' = 1 /\ installed' = installed \o Revisions[1].create /\ guards' = guards \cup Revisions[1].guard
      BY <1>2, <2>2 DEF Upgrade
    <3>4. installed = <<>> /\ guards = {}
      BY <2>2 DEF SchemaInv
    <3>5. installed' = InitialTables /\ guards' = InitialGuards
      BY <3>2, <3>3, <3>4, RevisionsAre
    <3> QED BY <2>1, <3>3, <3>5 DEF SchemaInv
  <2>3. CASE revision = 1
    <3>1. revision' = 2 /\ installed' = AllTables /\ guards' = InitialGuards \cup ExternalGuards
      BY <1>2, <2>3, <2>1, RevisionsAre DEF Upgrade, SchemaInv, AllTables
    <3> QED BY <2>1, <3>1 DEF SchemaInv
  <2> QED BY <2>1, <2>2, <2>3
<1>3. CASE FillTables
  BY <1>3 DEF FillTables, SchemaInv
<1>4. CASE Downgrade
  <2>1. revision \in 1 .. 2 /\ ~refused
    BY <1>4 DEF Downgrade, SchemaInv
  <2>2. DropsCleanly(Revisions[revision].drop)
    <3>1. CASE revision = 1
      <4>1. installed = InitialTables /\ Revisions[revision].drop = DroppedInitially
        BY <3>1, RevisionsAre DEF SchemaInv
      <4>2. CleanDrops(InitialTables, DroppedInitially, 28)
        BY ReverseIsClean, DropsAreReversed, TablesPlaced
      <4> QED BY <4>1, <4>2, DropsAreReversed DEF DropsCleanly, CleanDrops, InReverse
    <3>2. CASE revision = 2
      <4>1. installed = AllTables /\ Revisions[revision].drop = ExternalDropped
        BY <3>2, RevisionsAre DEF SchemaInv
      <4>2. CleanDrops(AllTables, ExternalDropped, 2)
        BY ReverseIsClean, DropsAreReversed, TablesPlaced
      <4> QED BY <4>1, <4>2, DropsAreReversed DEF DropsCleanly, CleanDrops, InReverse
    <3> QED BY <2>1, <3>1, <3>2
  <2>3. /\ revision' = revision - 1 /\ refused' = refused
        /\ installed' = AfterDropping(installed, Range(Revisions[revision].drop))
        /\ guards' = guards \ Revisions[revision].guard
    BY <1>4, <2>2 DEF Downgrade
  <2>4. CASE revision = 1
    <3>1. revision' = 0 /\ installed' = <<>> /\ guards' = {}
      BY <2>3, <2>4, RevisionsAre, Undone DEF SchemaInv
    <3> QED BY <2>1, <2>3, <3>1 DEF SchemaInv
  <2>5. CASE revision = 2
    <3>1. revision' = 1 /\ installed' = InitialTables /\ guards' = InitialGuards
      BY <2>3, <2>5, RevisionsAre, Undone, GuardsWatch DEF SchemaInv
    <3> QED BY <2>1, <2>3, <3>1 DEF SchemaInv
  <2> QED BY <2>1, <2>4, <2>5
<1> QED BY <1>1, <1>2, <1>3, <1>4 DEF MigrationNext

(* However often a database file is moved between its revisions (upgrade and
   downgrade of the two migrations): at every revision no table refers to one
   that is not there, nothing has been refused, and at the last one tables and
   triggers are those the models declare. *)
THEOREM SchemaStaysWhole == MigrationInit /\ [][MigrationNext]_migrationVars => []SchemaIsWhole
<1>1. MigrationInit => SchemaInv
  BY DEF MigrationInit, SchemaInv
<1> QED BY <1>1, SchemaKeeps, SchemaWhole, PTL

(***************************************************************************)
(* An accepted request has work to do and stays within its limits.         *)
(***************************************************************************)
WorthRunning(q) ==
  /\ PlannedTrials(q) > 0 /\ (q.targetLimit # 0 => TargetCallsNeeded(q) <= q.targetLimit)
  /\ Datasets[q.dataset].mandatory \subseteq {GraderRows[g].name : g \in GraderIdsOf(q)}
  /\ {Scenarios[q.scenario].project, Datasets[q.dataset].project}
       \cup {TargetConfigs[t].project : t \in Range(q.targets)} = {q.project}

LEMMA CasesAreFinite ==
  ASSUME NEW q \in Requests, Own(q, Datasets, q.dataset), ~PlanRefused(q)
  PROVE  SelectedCases(q) # {} /\ IsFiniteSet(SelectedCases(q)) /\ Cardinality(SelectedCases(q)) \in Nat \ {0}
<1> DEFINE cases == Datasets[q.dataset].cases
<1>1. DOMAIN cases # {} /\ IsFiniteSet(DOMAIN cases)
  BY RequestAssumption DEF Own
<1>2. SelectedCases(q) \subseteq DOMAIN cases
  BY DEF SelectedCases
<1>3. SelectedCases(q) # {}
  BY <1>1 DEF SelectedCases, PlanRefused
<1>4. IsFiniteSet(SelectedCases(q))
  <2> HIDE DEF cases
  <2> QED BY <1>1, <1>2, FS_Subset
<1>5. Cardinality(SelectedCases(q)) \in Nat /\ Cardinality(SelectedCases(q)) # 0
  BY <1>3, <1>4, FS_CardinalityType, FS_EmptySet
<1> QED BY <1>3, <1>4, <1>5

LEMMA CallsPerTrial ==
  ASSUME NEW q \in Requests, Own(q, Datasets, q.dataset), ~PlanRefused(q)
  PROVE  StageCalls(q) \in Nat
<1> DEFINE cases == Datasets[q.dataset].cases
           steps == {cases[c] : c \in SelectedCases(q)}
           S == {0} \cup steps
<1>1. SelectedCases(q) \subseteq DOMAIN cases /\ \A c \in DOMAIN cases : cases[c] \in Nat
  BY RequestAssumption DEF Own, SelectedCases
<1>2. IsFiniteSet(SelectedCases(q))
  BY CasesAreFinite
<1>3. S \subseteq Nat /\ S # {}
  BY <1>1
<1>4. IsFiniteSet(S)
  <2>1. IsFiniteSet(steps)
    <3> HIDE DEF cases
    <3> QED BY <1>2, FiniteImage
  <2>2. S = steps \cup {0}
    OBVIOUS
  <2> HIDE DEF S, steps
  <2> QED BY <2>1, <2>2, FS_AddElement
<1>5. Max(S) \in Nat
  <2> HIDE DEF S
  <2>1. S \subseteq Int
    BY <1>3
  <2>2. Max(S) \in S
    BY <1>3, <1>4, <2>1, FiniteExtremes
  <2> QED BY <1>3, <2>2
<1>6. StageCalls(q) \in {Max(S), 3, 1}
  BY DEF StageCalls
<1> HIDE DEF S
<1> QED BY <1>5, <1>6

LEMMA AcceptedIsWorthRunning ==
  ASSUME NEW q \in Requests, StatusOf(q) = 201
  PROVE  WorthRunning(q)
<1>1. ~NotFound(q) /\ ~PlanRefused(q)
  BY DEF StatusOf
<1>2. Own(q, Scenarios, q.scenario) /\ Own(q, Datasets, q.dataset)
  BY <1>1 DEF NotFound
<1>3. /\ q.repeats \in Nat \ {0} /\ q.targetLimit \in Nat
      /\ Len(q.targets) \in Nat \ {0} /\ DOMAIN q.targets = 1 .. Len(q.targets)
  BY RequestAssumption
<1>4. Cardinality(SelectedCases(q)) \in Nat \ {0}
  BY <1>1, <1>2, CasesAreFinite
<1>5. PlannedTrials(q) \in Nat /\ PlannedTrials(q) > 0
  <2> DEFINE a == Cardinality(SelectedCases(q))
             b == Len(q.targets)
             c == q.repeats
  <2>1. a \in Nat /\ a > 0 /\ b \in Nat /\ b > 0 /\ c \in Nat /\ c > 0
    BY <1>3, <1>4
  <2>2. PlannedTrials(q) = a * b * c
    BY DEF PlannedTrials
  <2> HIDE DEF a, b, c
  <2>3. a * b \in Nat /\ a * b > 0
    BY <2>1, PositiveProduct
  <2>4. (a * b) * c \in Nat /\ (a * b) * c > 0
    <3> DEFINE d == a * b
    <3> HIDE DEF d
    <3>1. d \in Nat /\ d > 0
      BY <2>3 DEF d
    <3>2. d * c \in Nat /\ d * c > 0
      BY <2>1, <3>1, PositiveProduct
    <3> QED BY <3>2 DEF d
  <2> QED BY <2>2, <2>4
<1>6. TargetCallsNeeded(q) \in Nat
  <2>1. StageCalls(q) \in Nat
    BY <1>1, <1>2, CallsPerTrial
  <2> DEFINE n == PlannedTrials(q)
             m == StageCalls(q)
  <2>2. TargetCallsNeeded(q) = n * m /\ n \in Nat /\ m \in Nat
    BY <1>5, <2>1 DEF TargetCallsNeeded
  <2> HIDE DEF n, m
  <2>3. n * m \in Nat
    BY <2>2, PositiveProduct
  <2> QED BY <2>2, <2>3
<1>7. q.targetLimit # 0 => TargetCallsNeeded(q) <= q.targetLimit
  <2>1. ~(q.targetLimit # 0 /\ TargetCallsNeeded(q) > q.targetLimit)
    BY <1>1 DEF PlanRefused
  <2> QED BY <1>3, <1>6, <2>1
<1>8. Datasets[q.dataset].mandatory \subseteq {GraderRows[g].name : g \in GraderIdsOf(q)}
  BY <1>1 DEF PlanRefused
<1>9. \A t \in Range(q.targets) : TargetConfigs[t].project = q.project
  <2>1. \A i \in DOMAIN q.targets : Own(q, TargetConfigs, q.targets[i])
    BY <1>1 DEF PlanRefused
  <2> QED BY <2>1 DEF Own, Range
<1>10. Scenarios[q.scenario].project = q.project /\ Datasets[q.dataset].project = q.project
  BY <1>2 DEF Own
<1> QED BY <1>5, <1>7, <1>8, <1>9, <1>10 DEF WorthRunning

(***************************************************************************)
(* Runs, events and answers.  Runs are told apart by their keys, an answer *)
(* is about a run of its key, and a terminal run has its final event.      *)
(***************************************************************************)
ARun == [key : Keys, request : Requests, status : {"queued", "terminal"}]
AnEvent == [run : Nat, final : BOOLEAN]

RunsInv ==
  /\ runs \in Seq(ARun) /\ \A r \in DOMAIN runs : WorthRunning(runs[r].request)
  /\ \A r, s \in DOMAIN runs : runs[r].key = runs[s].key => r = s
  /\ \A a \in answers : /\ a = [key |-> a.key, request |-> a.request, run |-> a.run]
                        /\ a.run \in DOMAIN runs /\ runs[a.run].key = a.key /\ runs[a.run].request = a.request
  /\ events \in Seq(AnEvent) /\ \A i \in DOMAIN events : events[i].run \in DOMAIN runs
  /\ \A r \in DOMAIN runs : RunOver(r) => \E i \in DOMAIN events : events[i].run = r /\ events[i].final

(* What every step does to the events: none, or one more. *)
OneMoreEvent(r, final) == events' = Append(events, [run |-> r, final |-> final])

LEMMA RunsInit == ClientInit => RunsInv
<1> SUFFICES ASSUME ClientInit PROVE RunsInv
  OBVIOUS
<1>1. runs = <<>> /\ events = <<>> /\ answers = {}
  BY DEF ClientInit
<1>2. <<>> \in Seq(ARun) /\ <<>> \in Seq(AnEvent) /\ DOMAIN <<>> = {}
  BY NoElements
<1> QED BY <1>1, <1>2 DEF RunsInv

LEMMA RunsKept == RunsInv /\ UNCHANGED <<runs, answers, events>> => RunsInv'
BY DEF RunsInv, RunOver

LEMMA EventAdded ==
  ASSUME RunsInv, NEW r \in Nat, NEW final \in BOOLEAN, OneMoreEvent(r, final)
  PROVE  /\ events' \in Seq(AnEvent) /\ Len(events') = Len(events) + 1 /\ DOMAIN events' = 1 .. Len(events) + 1
         /\ DOMAIN events = 1 .. Len(events) /\ Len(events) \in Nat
         /\ (\A i \in DOMAIN events : events'[i] = events[i])
         /\ events'[Len(events) + 1] = [run |-> r, final |-> final]
<1>1. events \in Seq(AnEvent) /\ [run |-> r, final |-> final] \in AnEvent
  BY DEF RunsInv, AnEvent
<1> QED BY <1>1 DEF OneMoreEvent

LEMMA CreateKeepsRuns ==
  ASSUME RunsInv, NEW key \in Keys, NEW q \in Requests, CreateRun(key, q)
  PROVE  RunsInv'
<1>1. CASE \E r \in StoredRun(key) : /\ runs[r].request = q
                                     /\ answers' = answers \cup {[key |-> key, request |-> q, run |-> r]}
                                     /\ UNCHANGED <<runs, events, stream, drops>>
  <2>1. PICK r \in StoredRun(key) : /\ runs[r].request = q
                                    /\ answers' = answers \cup {[key |-> key, request |-> q, run |-> r]}
                                    /\ UNCHANGED <<runs, events, stream, drops>>
    BY <1>1
  <2>2. r \in DOMAIN runs /\ runs[r].key = key
    BY DEF StoredRun
  <2>3. \A a \in answers' : /\ a = [key |-> a.key, request |-> a.request, run |-> a.run]
                            /\ a.run \in DOMAIN runs /\ runs[a.run].key = a.key /\ runs[a.run].request = a.request
    BY <2>1, <2>2 DEF RunsInv
  <2> QED BY <2>1, <2>3 DEF RunsInv, RunOver
<1>2. CASE /\ StoredRun(key) = {} /\ StatusOf(q) = 201
           /\ runs' = Append(runs, [key |-> key, request |-> q, status |-> "queued"])
           /\ events' = Append(events, [run |-> Len(runs'), final |-> FALSE])
           /\ \E told \in BOOLEAN :
                answers' = IF told THEN answers \cup {[key |-> key, request |-> q, run |-> Len(runs')]} ELSE answers
  <2> DEFINE new == [key |-> key, request |-> q, status |-> "queued"]
             n == Len(runs) + 1
  <2>1. runs \in Seq(ARun) /\ new \in ARun
    BY DEF RunsInv, ARun
  <2>2. /\ runs' \in Seq(ARun) /\ Len(runs') = n /\ DOMAIN runs' = 1 .. n /\ DOMAIN runs = 1 .. Len(runs)
        /\ Len(runs) \in Nat /\ (\A r \in DOMAIN runs : runs'[r] = runs[r]) /\ runs'[n] = new
    BY <1>2, <2>1
  <2>3. \A r \in DOMAIN runs' : r = n \/ r \in DOMAIN runs
    BY <2>2
  <2>4. OneMoreEvent(n, FALSE) /\ n \in Nat
    BY <1>2, <2>2 DEF OneMoreEvent
  <2>5. /\ events' \in Seq(AnEvent) /\ DOMAIN events' = 1 .. Len(events) + 1 /\ DOMAIN events = 1 .. Len(events)
        /\ Len(events) \in Nat /\ (\A i \in DOMAIN events : events'[i] = events[i])
        /\ events'[Len(events) + 1] = [run |-> n, final |-> FALSE]
    BY <2>4, EventAdded
  <2>6. \A r \in DOMAIN runs : runs[r].key # key
    BY <1>2 DEF StoredRun
  <2>7. new.key = key /\ new.request = q /\ new.status = "queued" /\ WorthRunning(q)
    BY <1>2, AcceptedIsWorthRunning
  <2> HIDE DEF new, n
  <2>8. \A r \in DOMAIN runs' : WorthRunning(runs'[r].request)
    BY <2>2, <2>3, <2>7 DEF RunsInv
  <2>9. ASSUME NEW r \in DOMAIN runs', NEW s \in DOMAIN runs', runs'[r].key = runs'[s].key PROVE r = s
    BY <2>2, <2>3, <2>6, <2>7, <2>9 DEF RunsInv
  <2>10. ASSUME NEW a \in answers'
         PROVE  /\ a = [key |-> a.key, request |-> a.request, run |-> a.run]
                /\ a.run \in DOMAIN runs' /\ runs'[a.run].key = a.key /\ runs'[a.run].request = a.request
    <3>1. CASE a \in answers
      <4>1. /\ a = [key |-> a.key, request |-> a.request, run |-> a.run]
            /\ a.run \in DOMAIN runs /\ runs[a.run].key = a.key /\ runs[a.run].request = a.request
        BY <3>1 DEF RunsInv
      <4>2. a.run \in DOMAIN runs'
        BY <2>2, <4>1 DEF n
      <4> QED BY <2>2, <4>1, <4>2
    <3>2. CASE a = [key |-> key, request |-> q, run |-> n]
      <4>1. n \in DOMAIN runs'
        BY <2>2 DEF n
      <4> QED BY <2>2, <2>7, <3>2, <4>1
    <3> QED BY <1>2, <2>2, <3>1, <3>2
  <2>11. ASSUME NEW i \in DOMAIN events' PROVE events'[i].run \in DOMAIN runs'
    <3>1. CASE i \in DOMAIN events
      <4>1. events[i].run \in DOMAIN runs
        BY <3>1 DEF RunsInv
      <4> QED BY <2>2, <2>5, <3>1, <4>1 DEF n
    <3>2. CASE i = Len(events) + 1
      BY <2>2, <2>5, <3>2 DEF n
    <3> QED BY <2>5, <3>1, <3>2
  <2>12. ASSUME NEW r \in DOMAIN runs', RunOver(r)'
         PROVE  \E i \in DOMAIN events' : events'[i].run = r /\ events'[i].final
    <3>1. r \in DOMAIN runs /\ RunOver(r)
      BY <2>2, <2>3, <2>7, <2>12 DEF RunOver
    <3>2. PICK i \in DOMAIN events : events[i].run = r /\ events[i].final
      BY <3>1 DEF RunsInv
    <3>3. i \in DOMAIN events'
      BY <2>5
    <3> QED BY <2>5, <3>2, <3>3
  <2> QED BY <2>2, <2>5, <2>8, <2>9, <2>10, <2>11, <2>12 DEF RunsInv
<1> QED BY <1>1, <1>2 DEF CreateRun

LEMMA EmitKeepsRuns ==
  ASSUME RunsInv, NEW r \in DOMAIN runs, EmitEvent(r)
  PROVE  RunsInv' /\ OneMoreEvent(r, FALSE) /\ r \in Nat
<1>1. r \in Nat
  BY DEF RunsInv
<1>2. OneMoreEvent(r, FALSE) /\ UNCHANGED <<runs, answers>>
  BY DEF EmitEvent, OneMoreEvent
<1>3. /\ events' \in Seq(AnEvent) /\ DOMAIN events' = 1 .. Len(events) + 1 /\ DOMAIN events = 1 .. Len(events)
      /\ Len(events) \in Nat /\ (\A i \in DOMAIN events : events'[i] = events[i])
      /\ events'[Len(events) + 1] = [run |-> r, final |-> FALSE]
  BY <1>1, <1>2, EventAdded
<1>4. ASSUME NEW i \in DOMAIN events' PROVE events'[i].run \in DOMAIN runs
  <2>1. i \in DOMAIN events \/ i = Len(events) + 1
    BY <1>3
  <2> QED BY <1>3, <2>1 DEF RunsInv
<1>5. ASSUME NEW s \in DOMAIN runs, RunOver(s) PROVE \E i \in DOMAIN events' : events'[i].run = s /\ events'[i].final
  <2>1. PICK i \in DOMAIN events : events[i].run = s /\ events[i].final
    BY <1>5 DEF RunsInv
  <2>2. i \in DOMAIN events'
    BY <1>3
  <2> QED BY <1>3, <2>1, <2>2
<1> QED BY <1>1, <1>2, <1>3, <1>4, <1>5 DEF RunsInv, RunOver

LEMMA FinishKeepsRuns ==
  ASSUME RunsInv, NEW r \in DOMAIN runs, FinishRun(r)
  PROVE  RunsInv' /\ OneMoreEvent(r, TRUE) /\ r \in Nat
<1>1. r \in Nat /\ runs \in Seq(ARun)
  BY DEF RunsInv
<1>2. OneMoreEvent(r, TRUE) /\ UNCHANGED answers /\ runs' = [runs EXCEPT ![r].status = "terminal"]
  BY DEF FinishRun, OneMoreEvent
<1>3. /\ events' \in Seq(AnEvent) /\ DOMAIN events' = 1 .. Len(events) + 1 /\ DOMAIN events = 1 .. Len(events)
      /\ Len(events) \in Nat /\ (\A i \in DOMAIN events : events'[i] = events[i])
      /\ events'[Len(events) + 1] = [run |-> r, final |-> TRUE]
  BY <1>1, <1>2, EventAdded
<1>4. runs' \in Seq(ARun) /\ DOMAIN runs' = DOMAIN runs
  <2>1. [runs[r] EXCEPT !.status = "terminal"] \in ARun
    <3>1. runs[r] \in ARun
      BY <1>1
    <3> QED BY <3>1 DEF ARun
  <2>2. runs' = [runs EXCEPT ![r] = [runs[r] EXCEPT !.status = "terminal"]]
    BY <1>2
  <2> QED BY <1>1, <2>1, <2>2
<1>5. \A s \in DOMAIN runs : runs'[s].key = runs[s].key /\ runs'[s].request = runs[s].request
  BY <1>1, <1>2 DEF ARun
<1>6. ASSUME NEW i \in DOMAIN events' PROVE events'[i].run \in DOMAIN runs
  <2>1. i \in DOMAIN events \/ i = Len(events) + 1
    BY <1>3
  <2> QED BY <1>3, <2>1 DEF RunsInv
<1>7. ASSUME NEW s \in DOMAIN runs, RunOver(s)' PROVE \E i \in DOMAIN events' : events'[i].run = s /\ events'[i].final
  <2>1. CASE s = r
    <3>1. Len(events) + 1 \in DOMAIN events'
      BY <1>3
    <3> QED BY <1>3, <2>1, <3>1
  <2>2. CASE s # r
    <3>1. RunOver(s)
      BY <1>1, <1>2, <1>7, <2>2 DEF RunOver
    <3>2. PICK i \in DOMAIN events : events[i].run = s /\ events[i].final
      BY <3>1 DEF RunsInv
    <3>3. i \in DOMAIN events'
      BY <1>3
    <3> QED BY <1>3, <3>2, <3>3
  <2> QED BY <2>1, <2>2
<1>8. \A s \in DOMAIN runs : WorthRunning(runs[s].request)
  BY DEF RunsInv
<1>9. \A s \in DOMAIN runs' : WorthRunning(runs'[s].request)
  BY <1>4, <1>5, <1>8
<1>10. ASSUME NEW a \in answers'
       PROVE  /\ a = [key |-> a.key, request |-> a.request, run |-> a.run]
              /\ a.run \in DOMAIN runs' /\ runs'[a.run].key = a.key /\ runs'[a.run].request = a.request
  <2>1. /\ a = [key |-> a.key, request |-> a.request, run |-> a.run]
        /\ a.run \in DOMAIN runs /\ runs[a.run].key = a.key /\ runs[a.run].request = a.request
    BY <1>2 DEF RunsInv
  <2> QED BY <1>4, <1>5, <2>1
<1>11. ASSUME NEW s \in DOMAIN runs', NEW t \in DOMAIN runs', runs'[s].key = runs'[t].key PROVE s = t
  BY <1>4, <1>5, <1>11 DEF RunsInv
<1>12. events' \in Seq(AnEvent) /\ \A i \in DOMAIN events' : events'[i].run \in DOMAIN runs'
  BY <1>3, <1>4, <1>6
<1>13. \A s \in DOMAIN runs' : RunOver(s)' => \E i \in DOMAIN events' : events'[i].run = s /\ events'[i].final
  BY <1>4, <1>7
<1>14. RunsInv'
  BY <1>4, <1>9, <1>10, <1>11, <1>12, <1>13 DEF RunsInv
<1> QED BY <1>1, <1>2, <1>14

(***************************************************************************)
(* The events of a run in the order of their seq, and those after one.     *)
(***************************************************************************)

LEMMA SelectIncreasing ==
  ASSUME NEW S, NEW seq \in Seq(Nat), Increasing(seq)
  PROVE  Increasing(Select(seq, S))
<1> DEFINE G == {s \in Seq(Nat) : Increasing(s) => Increasing(Select(s, S))}
<1>1. <<>> \in G
  <2>1. <<>> \in Seq(Nat) /\ Select(<<>>, S) = <<>>
    BY SelectEmpty
  <2> QED BY <2>1 DEF Increasing
<1>2. ASSUME NEW s \in Seq(Nat), NEW e \in Nat, s \in G PROVE Append(s, e) \in G
  <2>1. Select(Append(s, e), S) = IF e \in S THEN Append(Select(s, S), e) ELSE Select(s, S)
    BY SelectAppend
  <2>2. Select(s, S) \in Seq(Nat) /\ Append(s, e) \in Seq(Nat)
    BY SelectSeqOf
  <2>3. SUFFICES ASSUME Increasing(Append(s, e)) PROVE Increasing(Select(Append(s, e), S))
    BY <2>2
  <2> DEFINE t == Append(s, e)
             part == Select(s, S)
  <2>4. /\ DOMAIN t = 1 .. Len(s) + 1 /\ DOMAIN s = 1 .. Len(s) /\ Len(s) \in Nat
        /\ t[Len(s) + 1] = e /\ \A n \in DOMAIN s : t[n] = s[n]
    OBVIOUS
  <2>5. \A m, n \in DOMAIN t : m < n => t[m] < t[n]
    BY <2>3 DEF Increasing
  <2> HIDE DEF t
  <2>6. Increasing(s)
    BY <2>4, <2>5 DEF Increasing
  <2>7. ASSUME NEW n \in DOMAIN s PROVE s[n] < e
    <3>1. n \in DOMAIN t /\ Len(s) + 1 \in DOMAIN t /\ n < Len(s) + 1
      BY <2>4
    <3> QED BY <2>4, <2>5, <3>1
  <2>8. Increasing(part)
    BY <1>2, <2>6
  <2>9. \A n \in DOMAIN part : part[n] < e
    <3>1. \A n \in DOMAIN part : \E m \in DOMAIN s : s[m] = part[n]
      BY SelectRange
    <3> QED BY <2>7, <3>1
  <2> HIDE DEF part
  <2>10. part \in Seq(Nat)
    BY <2>2 DEF part
  <2>11. Increasing(Append(part, e))
    <3>1. /\ DOMAIN Append(part, e) = 1 .. Len(part) + 1 /\ DOMAIN part = 1 .. Len(part) /\ Len(part) \in Nat
          /\ Append(part, e)[Len(part) + 1] = e /\ \A n \in DOMAIN part : Append(part, e)[n] = part[n]
      BY <2>10
    <3> QED BY <2>8, <2>9, <3>1 DEF Increasing
  <2> QED BY <2>1, <2>8, <2>11 DEF part
<1>3. Seq(Nat) \subseteq G
  <2> HIDE DEF G
  <2> QED BY <1>1, <1>2, AppendInduction
<1> QED BY <1>3

(* The events of run r, and where its final ones are among them. *)
OfRun(r) == {i \in DOMAIN events : events[i].run = r}
Finals(r) == {n \in DOMAIN Seqs(r) : events[Seqs(r)[n]].final}

LEMMA SeqsFacts ==
  ASSUME RunsInv, NEW r
  PROVE  /\ Seqs(r) \in Seq(Nat \ {0}) /\ Increasing(Seqs(r)) /\ Finals(r) \subseteq DOMAIN Seqs(r)
         /\ \A n \in DOMAIN Seqs(r) : Seqs(r)[n] \in OfRun(r)
         /\ \A i \in OfRun(r) : \E n \in DOMAIN Seqs(r) : Seqs(r)[n] = i
<1> DEFINE all == [i \in DOMAIN events |-> i]
<1>1. events \in Seq(AnEvent) /\ DOMAIN events = 1 .. Len(events) /\ Len(events) \in Nat
  BY DEF RunsInv
<1>2. all \in Seq(Nat \ {0}) /\ all \in Seq(Nat) /\ DOMAIN all = DOMAIN events /\ \A i \in DOMAIN events : all[i] = i
  BY <1>1
<1>3. Increasing(all)
  BY <1>1, <1>2 DEF Increasing
<1>4. Seqs(r) = Select(all, OfRun(r))
  BY DEF Seqs, OfRun
<1> HIDE DEF all
<1>5. Seqs(r) \in Seq(Nat \ {0})
  BY <1>2, <1>4, SelectSeqOf
<1>6. Increasing(Seqs(r))
  BY <1>2, <1>3, <1>4, SelectIncreasing
<1>7. /\ \A n \in DOMAIN Seqs(r) : Seqs(r)[n] \in OfRun(r)
      /\ \A i \in OfRun(r) : \E n \in DOMAIN Seqs(r) : Seqs(r)[n] = i
  <2>1. /\ \A n \in DOMAIN Select(all, OfRun(r)) : Select(all, OfRun(r))[n] \in OfRun(r)
        /\ \A m \in DOMAIN all : all[m] \in OfRun(r) => \E n \in DOMAIN Select(all, OfRun(r)) :
                                                            Select(all, OfRun(r))[n] = all[m]
    BY <1>2, SelectRange
  <2>2. \A i \in OfRun(r) : i \in DOMAIN events
    BY DEF OfRun
  <2> QED BY <1>2, <1>4, <2>1, <2>2
<1> QED BY <1>5, <1>6, <1>7 DEF Finals

LEMMA SelectOneMore ==
  ASSUME NEW n \in Nat, NEW e \in Nat, NEW all \in Seq(1 .. n), NEW R, NEW T, \A i \in 1 .. n : i \in T <=> i \in R
  PROVE  Select(Append(all, e), T) = Select(all, R) \/ Select(Append(all, e), T) = Append(Select(all, R), e)
<1>1. Select(all, T) = Select(all, R)
  BY SelectSame
<1>2. all \in Seq(Nat)
  <2>1. 1 .. n \subseteq Nat
    OBVIOUS
  <2> QED BY <2>1, SeqMonotone
<1>3. Select(Append(all, e), T) = IF e \in T THEN Append(Select(all, T), e) ELSE Select(all, T)
  BY <1>2, SelectAppend
<1> QED BY <1>1, <1>3

LEMMA AppendExtends ==
  ASSUME NEW S \in Seq(Nat \ {0}), NEW e \in Nat \ {0}, NEW U, U = S \/ U = Append(S, e)
  PROVE  U \in Seq(Nat \ {0}) /\ Len(S) <= Len(U) /\ DOMAIN S \subseteq DOMAIN U /\ \A k \in DOMAIN S : U[k] = S[k]
<1>1. Append(S, e) \in Seq(Nat \ {0}) /\ Len(Append(S, e)) = Len(S) + 1 /\ Len(S) \in Nat
      /\ DOMAIN S = 1 .. Len(S) /\ DOMAIN Append(S, e) = 1 .. Len(S) + 1 /\ \A k \in DOMAIN S : Append(S, e)[k] = S[k]
  OBVIOUS
<1> QED BY <1>1

(* A new event comes last among those of its run and changes those of no other. *)
Grows(r) == /\ Seqs(r)' \in Seq(Nat \ {0}) /\ Len(Seqs(r)) <= Len(Seqs(r)')
            /\ (\A n \in DOMAIN Seqs(r) : Seqs(r)'[n] = Seqs(r)[n]) /\ Finals(r) \subseteq Finals(r)'

LEMMA SeqsGrow ==
  ASSUME RunsInv, RunsInv', NEW q \in Nat, NEW final \in BOOLEAN, OneMoreEvent(q, final), NEW r
  PROVE  Grows(r)
<1> DEFINE n == Len(events)
           all == [i \in DOMAIN events |-> i]
           more == [i \in DOMAIN events' |-> i]
           R == OfRun(r)
           T == OfRun(r)'
<1>1. /\ Len(events') = n + 1 /\ DOMAIN events' = 1 .. n + 1 /\ DOMAIN events = 1 .. n /\ n \in Nat
      /\ \A i \in DOMAIN events : events'[i] = events[i]
  BY EventAdded
<1>2. all \in Seq(Nat) /\ all \in Seq(1 .. n) /\ more = Append(all, n + 1) /\ n + 1 \in Nat
  BY <1>1
<1>3. \A i \in 1 .. n : i \in T <=> i \in R
  BY <1>1 DEF OfRun
<1>4. Seqs(r) = Select(all, R) /\ Seqs(r)' = Select(more, T)
  BY DEF Seqs, OfRun
<1> HIDE DEF all, more, n
<1>6. Seqs(r)' = Seqs(r) \/ Seqs(r)' = Append(Seqs(r), n + 1)
  <2>1. n \in Nat
    BY <1>1
  <2> HIDE DEF R, T
  <2>2. \/ Select(Append(all, n + 1), T) = Select(all, R)
        \/ Select(Append(all, n + 1), T) = Append(Select(all, R), n + 1)
    BY <1>2, <1>3, <2>1, SelectOneMore
  <2> QED BY <1>2, <1>4, <2>2
<1>7. Seqs(r) \in Seq(Nat \ {0}) /\ \A k \in DOMAIN Seqs(r) : Seqs(r)[k] \in DOMAIN events
  BY SeqsFacts DEF OfRun
<1> DEFINE S == Seqs(r)
           U == Seqs(r)'
<1>8. U \in Seq(Nat \ {0}) /\ Len(S) <= Len(U) /\ DOMAIN S \subseteq DOMAIN U /\ \A k \in DOMAIN S : U[k] = S[k]
  <2>1. S \in Seq(Nat \ {0}) /\ (U = S \/ U = Append(S, n + 1)) /\ n + 1 \in Nat \ {0}
    BY <1>1, <1>6, <1>7
  <2> HIDE DEF S, U
  <2> QED BY <2>1, AppendExtends
<1>9. \A k \in DOMAIN S : events'[U[k]] = events[S[k]]
  BY <1>1, <1>7, <1>8
<1>10. Finals(r)' = {k \in DOMAIN U : events'[U[k]].final} /\ Finals(r) = {k \in DOMAIN S : events[S[k]].final}
  BY DEF Finals
<1>11. Finals(r) \subseteq Finals(r)'
  <2> HIDE DEF S, U
  <2> QED BY <1>8, <1>9, <1>10
<1> QED BY <1>8, <1>11 DEF Grows

(* What is after position p of a sequence in order is what comes later than its p-th element. *)
At(S, p) == IF p = 0 THEN 0 ELSE S[p]

LEMMA LaterIs ==
  ASSUME NEW S \in Seq(Nat \ {0}), Increasing(S), NEW p \in 0 .. Len(S),
         NEW D, \A n \in DOMAIN S : S[n] \in D <=> S[n] > At(S, p)
  PROVE  Select(S, D) = SubSeq(S, p + 1, Len(S))
<1> DEFINE A == SubSeq(S, 1, p)
           B == SubSeq(S, p + 1, Len(S))
           EA == {n \in Nat \ {0} : n \notin D}
           EB == {n \in Nat \ {0} : n \in D}
<1>1. \A n \in 1 .. p : S[n] <= At(S, p) /\ S[n] \in Nat \ {0}
  <2> SUFFICES ASSUME NEW n \in 1 .. p PROVE S[n] <= At(S, p) /\ S[n] \in Nat \ {0}
    OBVIOUS
  <2>1. p # 0 /\ n \in DOMAIN S /\ p \in DOMAIN S /\ S[n] \in Nat \ {0} /\ S[p] \in Nat \ {0}
    OBVIOUS
  <2>2. n < p \/ n = p
    OBVIOUS
  <2> QED BY <2>1, <2>2 DEF At, Increasing
<1>2. \A n \in p + 1 .. Len(S) : S[n] > At(S, p) /\ S[n] \in Nat \ {0}
  <2> SUFFICES ASSUME NEW n \in p + 1 .. Len(S) PROVE S[n] > At(S, p) /\ S[n] \in Nat \ {0}
    OBVIOUS
  <2>1. n \in DOMAIN S /\ S[n] \in Nat \ {0} /\ p < n
    OBVIOUS
  <2>2. p # 0 => p \in DOMAIN S /\ S[p] \in Nat
    OBVIOUS
  <2>3. p # 0 => S[p] < S[n]
    BY <2>1, <2>2 DEF Increasing
  <2> QED BY <2>1, <2>2, <2>3 DEF At
<1>3. At(S, p) \in Nat
  BY DEF At
<1>4. A \in Seq(EA)
  <2>1. A = [n \in 1 .. p |-> S[n]]
    OBVIOUS
  <2>2. \A n \in 1 .. p : S[n] \in EA
    BY <1>1, <1>3
  <2> HIDE DEF EA
  <2> QED BY <2>1, <2>2
<1>5. B \in Seq(EB)
  <2>1. B = [n \in 1 .. Len(S) - p |-> S[p + n]] /\ Len(S) - p \in Nat
    OBVIOUS
  <2>2. \A n \in 1 .. Len(S) - p : S[p + n] \in EB
    <3> SUFFICES ASSUME NEW n \in 1 .. Len(S) - p PROVE S[p + n] \in EB
      OBVIOUS
    <3>1. p + n \in p + 1 .. Len(S) /\ p + n \in DOMAIN S
      OBVIOUS
    <3> QED BY <1>2, <3>1
  <2> DEFINE m == Len(S) - p
  <2>3. B = [n \in 1 .. m |-> B[n]] /\ m \in Nat /\ \A n \in 1 .. m : B[n] \in EB
    BY <2>1, <2>2
  <2> HIDE DEF EB, B, m
  <2> QED BY <2>3
<1>6. S = A \o B /\ A \in Seq(Nat \ {0}) /\ B \in Seq(Nat \ {0})
  <2>1. A \in Seq(Nat \ {0}) /\ B \in Seq(Nat \ {0})
    OBVIOUS
  <2>2. 1 \in 1 .. Len(S) + 1 /\ p \in 1 - 1 .. Len(S) /\ Len(S) \in p .. Len(S)
    OBVIOUS
  <2>3. A \o B = SubSeq(S, 1, Len(S))
    BY <2>2, ConcatAdjacentSubSeq
  <2>4. SubSeq(S, 1, Len(S)) = S
    BY SubSeqFull
  <2> QED BY <2>1, <2>3, <2>4
<1> DEFINE all == Nat \ {0}
<1> HIDE DEF A, B, all
<1>7. Select(A \o B, D) = Select(A, D) \o Select(B, D)
  BY <1>6, SelectConcat DEF all
<1>8. Select(A, D) = <<>>
  <2>1. EA \cap D = {}
    OBVIOUS
  <2> HIDE DEF EA
  <2> QED BY <1>4, <2>1, SelectNone
<1>9. Select(B, D) = B
  <2>1. EB \subseteq D
    OBVIOUS
  <2> HIDE DEF EB
  <2> QED BY <1>5, <2>1, SelectAll
<1>10. <<>> \o B = B
  BY <1>6
<1> QED BY <1>6, <1>7, <1>8, <1>9, <1>10 DEF B

(* What a stream asks for next: the events after the p-th of its run, if there are any, in batches. *)
LEMMA BatchIs ==
  ASSUME RunsInv, NEW r, NEW p \in 0 .. Len(Seqs(r))
  PROVE  LET S == Seqs(r)
             batch == EventsAfter(r, At(S, p))
         IN  /\ batch \in Seq(Nat) /\ p + Len(batch) <= Len(S)
             /\ \A n \in 1 .. Len(batch) : batch[n] = S[p + n]
             /\ batch = <<>> => p = Len(S)
<1> DEFINE S == Seqs(r)
           later == Select(S, {i \in DOMAIN events : i > At(S, p)})
           rest == SubSeq(S, p + 1, Len(S))
           most == Min({BatchSize, Len(later)})
           batch == EventsAfter(r, At(S, p))
<1>1. S \in Seq(Nat \ {0}) /\ Increasing(S) /\ \A n \in DOMAIN S : S[n] \in DOMAIN events
  BY SeqsFacts DEF OfRun
<1>2. batch = SubSeq(later, 1, most)
  BY DEF EventsAfter
<1>3. later = rest
  <2> HIDE DEF S
  <2> QED BY <1>1, LaterIs DEF S
<1> HIDE DEF later, S
<1>4. rest \in Seq(Nat \ {0}) /\ Len(rest) = Len(S) - p /\ Len(rest) \in Nat /\ \A n \in 1 .. Len(rest) : rest[n] = S[p + n]
  BY <1>1 DEF S
<1>5. most \in Nat /\ most <= Len(rest) /\ (most = 0 => Len(rest) = 0)
  <2> DEFINE T == {BatchSize, Len(later)}
  <2>1. T \subseteq Int /\ BatchSize \in T /\ IsFiniteSet(T) /\ BatchSize \in Nat \ {0} /\ Len(later) \in Nat
    <3>1. BatchSize \in Nat \ {0} /\ Len(later) \in Nat
      BY <1>3, <1>4, ClientAssumption
    <3>2. T = {BatchSize} \cup {Len(later)}
      OBVIOUS
    <3>3. IsFiniteSet({BatchSize})
      BY FS_Singleton
    <3>4. IsFiniteSet({BatchSize} \cup {Len(later)})
      BY <3>3, FS_AddElement
    <3>5. T \subseteq Int /\ BatchSize \in T
      BY <3>1
    <3>6. IsFiniteSet(T)
      BY <3>2, <3>4
    <3> HIDE DEF T
    <3> QED BY <3>1, <3>5, <3>6
  <2>2. Len(later) \in T /\ \A t \in T : t \in {BatchSize, Len(later)}
    OBVIOUS
  <2> HIDE DEF T
  <2>3. Min(T) \in T /\ \A y \in T : Min(T) <= y
    <3>1. T # {}
      BY <2>1
    <3> QED BY <2>1, <3>1, FiniteExtremes
  <2>4. most = Min(T)
    BY DEF T
  <2> QED BY <1>3, <2>1, <2>2, <2>3, <2>4
<1> HIDE DEF most, rest
<1>6. batch = [n \in 1 .. most |-> rest[n]] /\ batch \in Seq(Nat) /\ Len(batch) = most
  BY <1>2, <1>3, <1>4, <1>5
<1> HIDE DEF batch
<1>7. Len(S) \in Nat /\ p \in Nat
  BY <1>1 DEF S
<1>8. ASSUME batch = <<>> PROVE p = Len(S)
  <2>1. Len(batch) = 0
    BY <1>8
  <2>2. most = 0
    BY <1>6, <2>1
  <2>3. Len(rest) = 0 /\ Len(rest) = Len(S) - p
    BY <1>4, <1>5, <2>2
  <2> QED BY <1>7, <2>3
<1>9. p + Len(batch) <= Len(S)
  BY <1>4, <1>5, <1>6, <1>7
<1>10. \A n \in 1 .. Len(batch) : batch[n] = S[p + n]
  BY <1>4, <1>5, <1>6
<1> USE DEF batch, S
<1> QED BY <1>6, <1>8, <1>9, <1>10

(***************************************************************************)
(* A stream.  What the client got, what is on the wire and what is in the  *)
(* server's batch are consecutive events of the run, from its first one;   *)
(* F is where final events are among S, the events of the run.  A server   *)
(* that has looked in vain after the run ended has sent them all.          *)
(***************************************************************************)
AStream == [at : {"closed", "open", "ending", "sent", "ended"}, run : Nat, last : Nat, idle : Nat,
            batch : Seq(Nat), wire : Seq(Nat), got : Seq(Nat)]

Live(s) == s.at \in {"open", "ending", "sent"}
OnWire(s) == IF s.at = "sent" THEN Len(s.wire) - 1 ELSE Len(s.wire)
Yielded(s) == Len(s.got) + OnWire(s)
Flow(s) == Yielded(s) + Len(s.batch)

Consecutive(s, S) ==
  /\ OnWire(s) >= 0 /\ Flow(s) <= Len(S)
  /\ \A n \in 1 .. Len(s.got) : s.got[n] = S[n]
  /\ \A n \in 1 .. OnWire(s) : s.wire[n] = S[Len(s.got) + n]
  /\ \A n \in 1 .. Len(s.batch) : s.batch[n] = S[Yielded(s) + n]
  /\ Live(s) => s.last = At(S, Yielded(s))

EndIsTold(s, F) == (Live(s) /\ s.idle > 0) \/ s.at = "ended" => \E n \in F : n <= Flow(s)

InStep(s) ==
  /\ s.at \in {"ending", "sent"} => s.idle > 0
  /\ s.at = "sent" => s.batch = <<>> /\ s.wire[Len(s.wire)] = StreamEnd
  /\ ~Live(s) => s.batch = <<>> /\ s.wire = <<>>

Fits(s, S, F) == Consecutive(s, S) /\ EndIsTold(s, F) /\ InStep(s)

LEMMA StreamSizes ==
  ASSUME NEW s \in AStream
  PROVE  /\ Len(s.got) \in Nat /\ Len(s.batch) \in Nat /\ Len(s.wire) \in Nat /\ OnWire(s) \in Int
         /\ Yielded(s) \in Int /\ Flow(s) \in Int
         /\ s.got \in Seq(Nat) /\ s.batch \in Seq(Nat) /\ s.wire \in Seq(Nat) /\ s.idle \in Nat /\ s.run \in Nat
<1>1. s.got \in Seq(Nat) /\ s.batch \in Seq(Nat) /\ s.wire \in Seq(Nat) /\ s.idle \in Nat /\ s.run \in Nat
  BY DEF AStream
<1>2. Len(s.got) \in Nat /\ Len(s.batch) \in Nat /\ Len(s.wire) \in Nat
  BY <1>1
<1> QED BY <1>1, <1>2 DEF OnWire, Yielded, Flow

(* Positions in g received, w sent and b fetched events of l. *)
LEMMA Positions ==
  ASSUME NEW g \in Nat, NEW w \in Nat, NEW b \in Nat, NEW l \in Nat, g + w + b <= l
  PROVE  /\ g <= l /\ g + w <= l /\ g + w \in Nat /\ g + w + b \in Nat /\ (g + w = 0 \/ g + w \in 1 .. l)
         /\ (\A n \in 1 .. g : n \in 1 .. l) /\ (\A n \in 1 .. w : g + n \in 1 .. l)
         /\ (\A n \in 1 .. b : g + w + n \in 1 .. l)
OBVIOUS

LEMMA FitsGrow ==
  ASSUME NEW s \in AStream, NEW S \in Seq(Nat \ {0}), NEW F, Fits(s, S, F),
         NEW U \in Seq(Nat \ {0}), Len(S) <= Len(U), \A n \in DOMAIN S : U[n] = S[n], NEW G, F \subseteq G
  PROVE  Fits(s, U, G)
<1> DEFINE g == Len(s.got)
           w == OnWire(s)
           b == Len(s.batch)
           l == Len(S)
<1>1. g \in Nat /\ w \in Nat /\ b \in Nat /\ l \in Nat /\ g + w + b <= l /\ Yielded(s) = g + w
  BY StreamSizes DEF Fits, Consecutive, Yielded, Flow
<1>2. Len(U) \in Nat /\ l <= Len(U) /\ \A n \in 1 .. l : U[n] = S[n]
  OBVIOUS
<1>0. /\ \A n \in 1 .. g : s.got[n] = S[n]
      /\ \A n \in 1 .. w : s.wire[n] = S[g + n]
      /\ \A n \in 1 .. b : s.batch[n] = S[g + w + n]
  BY <1>1 DEF Fits, Consecutive
<1> HIDE DEF g, w, b, l
<1>9. /\ (g + w = 0 \/ g + w \in 1 .. l) /\ (\A n \in 1 .. g : n \in 1 .. l)
      /\ (\A n \in 1 .. w : g + n \in 1 .. l) /\ (\A n \in 1 .. b : g + w + n \in 1 .. l)
  BY <1>1, Positions
<1>3. \A n \in 1 .. g : s.got[n] = U[n]
  BY <1>0, <1>2, <1>9
<1>4. \A n \in 1 .. w : s.wire[n] = U[g + n]
  BY <1>0, <1>2, <1>9
<1>5. \A n \in 1 .. b : s.batch[n] = U[Yielded(s) + n]
  BY <1>0, <1>1, <1>2, <1>9
<1>6. Live(s) => s.last = At(U, Yielded(s))
  <2>1. At(U, Yielded(s)) = At(S, Yielded(s))
    BY <1>1, <1>2, <1>9 DEF At
  <2> QED BY <2>1 DEF Fits, Consecutive
<1>10. OnWire(s) >= 0 /\ Flow(s) <= Len(U)
  BY <1>1, <1>2 DEF Flow, g, w, b
<1>7. Consecutive(s, U)
  BY <1>3, <1>4, <1>5, <1>6, <1>10 DEF Consecutive, g, w, b
<1>8. EndIsTold(s, G)
  BY DEF Fits, EndIsTold
<1> QED BY <1>7, <1>8 DEF Fits

LEMMA ConnectFits ==
  ASSUME NEW s \in AStream, NEW S \in Seq(Nat \ {0}), NEW F \in SUBSET Nat, Fits(s, S, F), s.at = "closed", NEW t \in AStream,
         t.at = "open", t.got = s.got, t.batch = <<>>, t.wire = <<>>, t.idle = 0,
         t.last = IF s.got = <<>> THEN 0 ELSE Last(s.got)
  PROVE  Fits(t, S, F)
<1>1. Len(s.got) \in Nat /\ s.got \in Seq(Nat) /\ Len(S) \in Nat
  BY StreamSizes
<1>2. OnWire(s) = 0 /\ Yielded(s) = Len(s.got) /\ Flow(s) = Len(s.got)
  <2>1. s.batch = <<>> /\ s.wire = <<>> /\ Len(<<>>) = 0 /\ s.at # "sent"
    BY DEF Fits, InStep, Live
  <2>2. OnWire(s) = 0 /\ Len(s.batch) = 0
    BY <2>1 DEF OnWire
  <2> QED BY <1>1, <2>2 DEF Yielded, Flow
<1>3. Len(s.got) <= Len(S) /\ \A n \in 1 .. Len(s.got) : s.got[n] = S[n]
  BY <1>2 DEF Fits, Consecutive
<1>4. OnWire(t) = 0 /\ Yielded(t) = Len(s.got) /\ Flow(t) = Len(s.got) /\ Len(t.batch) = 0
  <2>1. Len(<<>>) = 0
    OBVIOUS
  <2>2. OnWire(t) = 0 /\ Len(t.batch) = 0
    BY <2>1 DEF OnWire
  <2> QED BY <1>1, <2>2 DEF Yielded, Flow
<1>5. t.last = At(S, Len(s.got))
  <2>1. CASE s.got = <<>>
    BY <2>1 DEF At
  <2>2. CASE s.got # <<>>
    <3>1. Len(s.got) # 0 /\ Len(s.got) \in 1 .. Len(s.got)
      BY <1>1, <2>2
    <3> QED BY <1>3, <2>2, <3>1 DEF At, Last
  <2> QED BY <2>1, <2>2
<1>6. Consecutive(t, S)
  BY <1>1, <1>3, <1>4, <1>5 DEF Consecutive
<1> QED BY <1>6 DEF Fits, EndIsTold, InStep, Live

LEMMA FetchFits ==
  ASSUME NEW s \in AStream, NEW S \in Seq(Nat \ {0}), NEW F \in SUBSET Nat, Fits(s, S, F), s.at = "open", s.batch = <<>>,
         NEW t \in AStream, t.got = s.got, t.wire = s.wire, t.last = s.last,
         t.at \in {"open", "ending"}, t.at = "ending" => t.idle > 0,
         \A n \in 1 .. Len(t.batch) : t.batch[n] = S[Yielded(s) + n], Yielded(s) + Len(t.batch) <= Len(S),
         t.idle > s.idle => \E n \in F : n <= Yielded(s)
  PROVE  Fits(t, S, F)
<1>1. Len(s.batch) = 0 /\ Yielded(t) = Yielded(s) /\ OnWire(t) = OnWire(s) /\ Flow(s) = Yielded(s)
      /\ Flow(t) = Yielded(s) + Len(t.batch) /\ Yielded(s) \in Int /\ Len(t.batch) \in Nat
  <2>1. Len(<<>>) = 0 /\ s.at # "sent" /\ t.at # "sent"
    OBVIOUS
  <2>2. OnWire(t) = OnWire(s) /\ Len(s.batch) = 0
    BY <2>1 DEF OnWire
  <2>3. Yielded(t) = Yielded(s) /\ Flow(s) = Yielded(s) + 0 /\ Flow(t) = Yielded(s) + Len(t.batch)
    BY <2>2 DEF Yielded, Flow
  <2>4. Yielded(s) \in Int /\ Len(t.batch) \in Nat
    BY StreamSizes
  <2> QED BY <2>2, <2>3, <2>4
<1>2. Consecutive(t, S)
  BY <1>1 DEF Fits, Consecutive, Live
<1>3. EndIsTold(t, F)
  <2> SUFFICES ASSUME t.idle > 0 PROVE \E n \in F : n <= Flow(t)
    BY DEF EndIsTold
  <2>1. s.idle \in Nat /\ t.idle \in Nat
    BY StreamSizes
  <2>2. CASE t.idle > s.idle
    BY <1>1, <2>2
  <2>3. CASE ~(t.idle > s.idle)
    <3>1. s.idle > 0
      BY <2>1, <2>3
    <3>2. PICK n \in F : n <= Flow(s)
      BY <3>1 DEF Fits, EndIsTold, Live
    <3>3. n <= Flow(t)
      BY <1>1, <3>2
    <3> QED BY <3>2, <3>3
  <2> QED BY <2>2, <2>3
<1>4. InStep(t)
  BY DEF InStep, Live
<1> QED BY <1>2, <1>3, <1>4 DEF Fits

(* The facts of Consecutive, in sizes a prover reckons with. *)
LEMMA ConsecutiveIs ==
  ASSUME NEW s \in AStream, NEW S \in Seq(Nat \ {0}), Consecutive(s, S)
  PROVE  /\ Len(s.got) \in Nat /\ OnWire(s) \in Nat /\ Len(s.batch) \in Nat /\ Len(S) \in Nat
         /\ Len(s.got) + OnWire(s) + Len(s.batch) <= Len(S) /\ Yielded(s) = Len(s.got) + OnWire(s)
         /\ Flow(s) = Len(s.got) + OnWire(s) + Len(s.batch)
         /\ \A n \in 1 .. Len(s.got) : s.got[n] = S[n]
         /\ \A n \in 1 .. OnWire(s) : s.wire[n] = S[Len(s.got) + n]
         /\ \A n \in 1 .. Len(s.batch) : s.batch[n] = S[Len(s.got) + OnWire(s) + n]
         /\ \A n \in 1 .. Len(S) : S[n] \in Nat \ {0}
<1>1. /\ Len(s.got) \in Nat /\ OnWire(s) \in Nat /\ Len(s.batch) \in Nat
      /\ Len(s.got) + OnWire(s) + Len(s.batch) <= Len(S) /\ Yielded(s) = Len(s.got) + OnWire(s)
  BY StreamSizes DEF Consecutive, Yielded, Flow
<1> QED BY <1>1 DEF Consecutive, Yielded, Flow

LEMMA YieldFits ==
  ASSUME NEW s \in AStream, NEW S \in Seq(Nat \ {0}), NEW F, Fits(s, S, F), s.at \in {"open", "ending"}, s.batch # <<>>,
         NEW t \in AStream, t.at = s.at, t.got = s.got, t.idle = s.idle,
         t.batch = Tail(s.batch), t.last = Head(s.batch), t.wire = Append(s.wire, Head(s.batch))
  PROVE  Fits(t, S, F)
<1> DEFINE g == Len(s.got)
           w == OnWire(s)
           b == Len(s.batch)
           l == Len(S)
<1>1. /\ g \in Nat /\ w \in Nat /\ b \in Nat /\ l \in Nat /\ g + w + b <= l /\ Yielded(s) = g + w /\ Flow(s) = g + w + b
      /\ \A n \in 1 .. g : s.got[n] = S[n]
      /\ \A n \in 1 .. w : s.wire[n] = S[g + n]
      /\ \A n \in 1 .. b : s.batch[n] = S[g + w + n]
  BY ConsecutiveIs DEF Fits
<1>2. s.batch \in Seq(Nat) /\ s.wire \in Seq(Nat) /\ w = Len(s.wire)
  BY StreamSizes DEF OnWire
<1>3. /\ b > 0 /\ Len(Tail(s.batch)) = b - 1 /\ \A n \in 1 .. b - 1 : Tail(s.batch)[n] = s.batch[n + 1]
      /\ Head(s.batch) = s.batch[1] /\ s.batch[1] \in Nat
  BY <1>2
<1>4. /\ Len(t.wire) = w + 1 /\ t.wire[w + 1] = s.batch[1] /\ \A n \in 1 .. w : t.wire[n] = s.wire[n]
  BY <1>2, <1>3
<1>5. OnWire(t) = w + 1 /\ Len(t.batch) = b - 1 /\ Len(t.got) = g
  BY <1>3, <1>4 DEF OnWire
<1>6. Yielded(t) = g + w + 1 /\ Flow(t) = g + w + b
  <2>1. Yielded(t) = g + (w + 1) /\ Flow(t) = (g + (w + 1)) + (b - 1)
    BY <1>5 DEF Yielded, Flow
  <2>2. g \in Nat /\ w \in Nat /\ b \in Nat
    BY <1>1
  <2> HIDE DEF g, w, b
  <2> QED BY <2>1, <2>2
<1> HIDE DEF g, w, b, l
<1>7. s.batch[1] = S[g + w + 1]
  BY <1>1, <1>3
<1>8. \A n \in 1 .. w + 1 : t.wire[n] = S[g + n]
  <2> SUFFICES ASSUME NEW n \in 1 .. w + 1 PROVE t.wire[n] = S[g + n]
    OBVIOUS
  <2>1. CASE n \in 1 .. w
    BY <1>1, <1>4, <2>1
  <2>2. CASE n = w + 1
    <3>1. g + n = g + w + 1
      BY <1>1, <2>2
    <3> QED BY <1>4, <1>7, <2>2, <3>1
  <2>3. n \in 1 .. w \/ n = w + 1
    <3>1. w \in Nat
      BY <1>1
    <3> QED BY <3>1
  <2> QED BY <2>1, <2>2, <2>3
<1>9. \A n \in 1 .. b - 1 : t.batch[n] = S[g + w + 1 + n]
  <2> SUFFICES ASSUME NEW n \in 1 .. b - 1 PROVE t.batch[n] = S[g + w + 1 + n]
    OBVIOUS
  <2>1. n + 1 \in 1 .. b /\ g + w + (n + 1) = g + w + 1 + n
    BY <1>1
  <2>2. t.batch[n] = s.batch[n + 1]
    BY <1>3
  <2>3. s.batch[n + 1] = S[g + w + (n + 1)]
    BY <1>1, <2>1
  <2> QED BY <2>1, <2>2, <2>3
<1>10. t.last = At(S, g + w + 1)
  <2>1. g + w + 1 # 0
    BY <1>1
  <2> QED BY <1>3, <1>7, <2>1 DEF At
<1>11. Consecutive(t, S)
  <2>1. \A n \in 1 .. Len(t.got) : t.got[n] = S[n]
    BY <1>1 DEF g
  <2>2. OnWire(t) >= 0 /\ Flow(t) <= Len(S)
    BY <1>1, <1>5, <1>6 DEF l
  <2>3. Len(t.got) = g
    BY DEF g
  <2> QED BY <1>5, <1>6, <1>8, <1>9, <1>10, <2>1, <2>2, <2>3 DEF Consecutive
<1>12. EndIsTold(t, F)
  BY <1>1, <1>6 DEF Fits, EndIsTold, Live
<1>13. InStep(t)
  BY DEF Fits, InStep, Live
<1> QED BY <1>11, <1>12, <1>13 DEF Fits

LEMMA YieldEndFits ==
  ASSUME NEW s \in AStream, NEW S \in Seq(Nat \ {0}), NEW F, Fits(s, S, F), s.at = "ending", s.batch = <<>>,
         NEW t \in AStream, t.at = "sent", t.got = s.got, t.idle = s.idle, t.last = s.last,
         t.batch = s.batch, t.wire = Append(s.wire, StreamEnd)
  PROVE  Fits(t, S, F)
<1>1. s.wire \in Seq(Nat) /\ StreamEnd \in Nat /\ Len(s.wire) \in Nat /\ OnWire(s) = Len(s.wire)
  BY StreamSizes DEF StreamEnd, OnWire
<1>2. /\ Len(t.wire) = Len(s.wire) + 1 /\ t.wire[Len(t.wire)] = StreamEnd
      /\ \A n \in 1 .. Len(s.wire) : t.wire[n] = s.wire[n]
  BY <1>1
<1>3. OnWire(t) = OnWire(s)
  <2>1. OnWire(t) = Len(t.wire) - 1
    BY DEF OnWire
  <2> QED BY <1>1, <1>2, <2>1
<1>4. Yielded(t) = Yielded(s) /\ Flow(t) = Flow(s)
  BY <1>3 DEF Yielded, Flow
<1>5. Consecutive(t, S)
  BY <1>1, <1>2, <1>3, <1>4 DEF Fits, Consecutive, Live
<1>6. EndIsTold(t, F) /\ InStep(t)
  BY <1>2, <1>4 DEF Fits, EndIsTold, InStep, Live
<1> QED BY <1>5, <1>6 DEF Fits

LEMMA ReceiveFits ==
  ASSUME NEW s \in AStream, NEW S \in Seq(Nat \ {0}), NEW F, Fits(s, S, F), Live(s), s.wire # <<>>,
         NEW t \in AStream, t.idle = s.idle, t.last = s.last, t.batch = s.batch,
         \/ Head(s.wire) = StreamEnd /\ t.at = "ended" /\ t.wire = <<>> /\ t.got = s.got
         \/ Head(s.wire) # StreamEnd /\ t.at = s.at /\ t.wire = Tail(s.wire) /\ t.got = Append(s.got, Head(s.wire))
  PROVE  Fits(t, S, F)
<1> DEFINE g == Len(s.got)
           w == OnWire(s)
           b == Len(s.batch)
           l == Len(S)
           m == Len(s.wire)
<1>1. /\ g \in Nat /\ w \in Nat /\ b \in Nat /\ l \in Nat /\ g + w + b <= l /\ Yielded(s) = g + w /\ Flow(s) = g + w + b
      /\ \A n \in 1 .. g : s.got[n] = S[n]
      /\ \A n \in 1 .. w : s.wire[n] = S[g + n]
      /\ \A n \in 1 .. b : s.batch[n] = S[g + w + n]
      /\ \A n \in 1 .. l : S[n] \in Nat \ {0}
  BY ConsecutiveIs DEF Fits
<1>2. s.wire \in Seq(Nat) /\ s.got \in Seq(Nat) /\ m \in Nat /\ m > 0
  BY StreamSizes
<1>3. /\ Head(s.wire) = s.wire[1] /\ Len(Tail(s.wire)) = m - 1 /\ s.wire[1] \in Nat
      /\ \A n \in 1 .. m - 1 : Tail(s.wire)[n] = s.wire[n + 1]
  BY <1>2
<1>4. (s.at = "sent" => m = w + 1 /\ s.wire[m] = StreamEnd /\ b = 0) /\ (s.at # "sent" => m = w)
  <2>1. Len(<<>>) = 0
    OBVIOUS
  <2> QED BY <1>2, <2>1 DEF OnWire, Fits, InStep
<1>5. w > 0 => s.wire[1] = S[g + 1] /\ S[g + 1] \in Nat \ {0}
  <2> HIDE DEF g, w, b, l
  <2> QED BY <1>1
<1>6. Head(s.wire) = StreamEnd <=> w = 0
  <2> HIDE DEF g, w, b, l, m
  <2> QED BY <1>1, <1>2, <1>3, <1>4, <1>5 DEF StreamEnd
<1>7. CASE w = 0
  <2>1. t.at = "ended" /\ t.wire = <<>> /\ t.got = s.got
    BY <1>6, <1>7
  <2>2. s.at = "sent" /\ b = 0
    <3> HIDE DEF w, m, b
    <3> QED BY <1>2, <1>4, <1>7
  <2>3. s.batch = <<>>
    BY <2>2 DEF Fits, InStep
  <2>4. Len(<<>>) = 0
    OBVIOUS
  <2>5. OnWire(t) = 0 /\ Yielded(t) = g /\ Flow(t) = g /\ Len(t.batch) = 0
    <3>1. OnWire(t) = 0 /\ Len(t.batch) = 0 /\ Len(t.got) = g
      BY <2>1, <2>3, <2>4 DEF OnWire
    <3> HIDE DEF g
    <3> QED BY <1>1, <3>1 DEF Yielded, Flow
  <2>6. Flow(s) = g /\ g <= Len(S)
    <3> HIDE DEF g, w, b
    <3> QED BY <1>1, <1>7, <2>2 DEF l
  <2>7. ~Live(t)
    BY <2>1 DEF Live
  <2>8. Consecutive(t, S)
    BY <1>1, <2>1, <2>5, <2>6, <2>7 DEF Consecutive
  <2>9. EndIsTold(t, F)
    BY <2>2, <2>5, <2>6 DEF Fits, EndIsTold, InStep
  <2>10. InStep(t)
    BY <2>1, <2>3 DEF InStep
  <2> QED BY <2>8, <2>9, <2>10 DEF Fits
<1>8. CASE w # 0
  <2>1. t.at = s.at /\ t.wire = Tail(s.wire) /\ t.got = Append(s.got, Head(s.wire))
    BY <1>6, <1>8
  <2>2. Len(t.got) = g + 1 /\ t.got[g + 1] = s.wire[1] /\ \A n \in 1 .. g : t.got[n] = s.got[n]
    BY <1>2, <1>3, <2>1
  <2>3. Len(t.wire) = m - 1 /\ Len(t.batch) = b /\ \A n \in 1 .. m - 1 : t.wire[n] = s.wire[n + 1]
    BY <1>3, <2>1
  <2>4. OnWire(t) = w - 1
    <3>1. OnWire(t) = IF s.at = "sent" THEN Len(t.wire) - 1 ELSE Len(t.wire)
      BY <2>1 DEF OnWire
    <3> DEFINE k == Len(t.wire)
    <3>2. k = m - 1 /\ OnWire(t) = IF s.at = "sent" THEN k - 1 ELSE k
      BY <2>3, <3>1
    <3>3. m = IF s.at = "sent" THEN w + 1 ELSE w
      BY <1>4
    <3>4. w \in Nat /\ m \in Nat
      BY <1>1, <1>2
    <3> HIDE DEF m, w, k
    <3> QED BY <3>2, <3>3, <3>4
  <2> HIDE DEF g, w, b, l, m
  <2>5. Yielded(t) = g + w /\ Flow(t) = g + w + b
    BY <1>1, <2>2, <2>3, <2>4 DEF Yielded, Flow
  <2>6. \A n \in 1 .. g + 1 : t.got[n] = S[n]
    <3> SUFFICES ASSUME NEW n \in 1 .. g + 1 PROVE t.got[n] = S[n]
      OBVIOUS
    <3>1. n \in 1 .. g \/ n = g + 1
      BY <1>1
    <3>2. w > 0
      BY <1>1, <1>8
    <3>3. CASE n \in 1 .. g
      BY <1>1, <2>2, <3>3
    <3>4. CASE n = g + 1
      BY <1>5, <2>2, <3>2, <3>4
    <3> QED BY <3>1, <3>3, <3>4
  <2>7. \A n \in 1 .. w - 1 : t.wire[n] = S[g + 1 + n]
    <3> SUFFICES ASSUME NEW n \in 1 .. w - 1 PROVE t.wire[n] = S[g + 1 + n]
      OBVIOUS
    <3>1. n + 1 \in 1 .. w /\ n \in 1 .. m - 1 /\ g + (n + 1) = g + 1 + n
      BY <1>1, <1>2, <1>4
    <3>2. t.wire[n] = s.wire[n + 1]
      BY <2>3, <3>1
    <3>3. s.wire[n + 1] = S[g + (n + 1)]
      BY <1>1, <3>1
    <3> QED BY <3>1, <3>2, <3>3
  <2>8. \A n \in 1 .. Len(t.batch) : t.batch[n] = S[Yielded(t) + n]
    BY <1>1, <2>3, <2>5
  <2>9. OnWire(t) >= 0 /\ Flow(t) <= Len(S)
    BY <1>1, <1>8, <2>4, <2>5 DEF l
  <2>10. t.last = At(S, Yielded(t))
    BY <1>1, <2>5 DEF Fits, Consecutive
  <2>11. Consecutive(t, S)
    BY <2>2, <2>4, <2>6, <2>7, <2>8, <2>9, <2>10 DEF Consecutive
  <2>12. EndIsTold(t, F)
    BY <1>1, <2>1, <2>5 DEF Fits, EndIsTold, Live
  <2>13. t.at = "sent" => t.wire[Len(t.wire)] = StreamEnd
    <3> SUFFICES ASSUME s.at = "sent" PROVE t.wire[m - 1] = StreamEnd
      BY <2>1, <2>3
    <3>1. m - 1 \in 1 .. m - 1 /\ (m - 1) + 1 = m
      BY <1>1, <1>2, <1>4, <1>8
    <3> QED BY <1>4, <2>3, <3>1
  <2>14. InStep(t)
    <3>1. Live(t)
      BY <2>1 DEF Live
    <3> QED BY <2>1, <2>13, <3>1 DEF Fits, InStep
  <2> QED BY <2>11, <2>12, <2>14 DEF Fits
<1> QED BY <1>7, <1>8

LEMMA DropFits ==
  ASSUME NEW s \in AStream, NEW S \in Seq(Nat \ {0}), NEW F, Fits(s, S, F),
         NEW t \in AStream, t.at = "closed", t.got = s.got, t.batch = <<>>, t.wire = <<>>
  PROVE  Fits(t, S, F)
<1> DEFINE g == Len(s.got)
<1>1. g \in Nat /\ g <= Len(S) /\ \A n \in 1 .. g : s.got[n] = S[n]
  <2>1. /\ g \in Nat /\ OnWire(s) \in Nat /\ Len(s.batch) \in Nat /\ g + OnWire(s) + Len(s.batch) <= Len(S)
        /\ Len(S) \in Nat /\ \A n \in 1 .. g : s.got[n] = S[n]
    BY ConsecutiveIs DEF Fits
  <2> DEFINE w == OnWire(s)
             b == Len(s.batch)
  <2> HIDE DEF g, w, b
  <2>2. w \in Nat /\ b \in Nat /\ g + w + b <= Len(S)
    BY <2>1 DEF w, b
  <2> QED BY <2>1, <2>2
<1>2. OnWire(t) = 0 /\ Yielded(t) = g /\ Flow(t) = g /\ Len(t.batch) = 0
  <2>1. Len(<<>>) = 0
    OBVIOUS
  <2>2. OnWire(t) = 0 /\ Len(t.batch) = 0 /\ Len(t.got) = g
    BY <2>1 DEF OnWire
  <2> HIDE DEF g
  <2> QED BY <1>1, <2>2 DEF Yielded, Flow
<1>3. Consecutive(t, S)
  BY <1>1, <1>2 DEF Consecutive, Live
<1> QED BY <1>3 DEF Fits, EndIsTold, InStep, Live

(***************************************************************************)
(* The invariant, and what each action does to the streams.                *)
(***************************************************************************)
FitsRun(c) == /\ Fits(stream[c], Seqs(stream[c].run), Finals(stream[c].run))
              /\ stream[c].at # "closed" => stream[c].run \in DOMAIN runs
StreamsInv == stream \in [Clients -> AStream] /\ \A c \in Clients : FitsRun(c)
ClientInv == RunsInv /\ StreamsInv

(* Only client c's stream changes, to t; its run stays or is its first. *)
OneStream(c, t) == stream' = [stream EXCEPT ![c] = t] /\ UNCHANGED <<runs, answers, events>>

LEMMA StreamChanged ==
  ASSUME ClientInv, NEW c \in Clients, NEW t \in AStream, OneStream(c, t), Fits(t, Seqs(t.run), Finals(t.run)),
         t.at # "closed" => t.run \in DOMAIN runs
  PROVE  ClientInv'
<1>1. RunsInv'
  BY RunsKept DEF ClientInv, OneStream
<1>3. stream' \in [Clients -> AStream] /\ stream'[c] = t /\ \A d \in Clients \ {c} : stream'[d] = stream[d]
  BY DEF OneStream, ClientInv, StreamsInv
<1>4. ASSUME NEW d \in Clients PROVE FitsRun(d)'
  <2>1. events' = events
    BY DEF OneStream
  <2>2. (Seqs(stream[d].run))' = Seqs(stream'[d].run)
    BY <2>1 DEF Seqs
  <2>3. (Finals(stream[d].run))' = Finals(stream'[d].run)
    BY <2>1, <2>2 DEF Finals
  <2>4. Fits(stream'[d], Seqs(stream'[d].run), Finals(stream'[d].run))
    BY <1>3 DEF ClientInv, StreamsInv, FitsRun
  <2>5. stream'[d].at # "closed" => stream'[d].run \in DOMAIN runs'
    BY <1>3 DEF ClientInv, StreamsInv, FitsRun, OneStream
  <2> QED BY <2>2, <2>3, <2>4, <2>5 DEF FitsRun
<1> QED BY <1>1, <1>3, <1>4 DEF ClientInv, StreamsInv

LEMMA StreamsFollow ==
  ASSUME ClientInv, RunsInv', NEW q \in Nat, NEW final \in BOOLEAN, OneMoreEvent(q, final), UNCHANGED stream,
         DOMAIN runs \subseteq DOMAIN runs'
  PROVE  ClientInv'
<1>1. ASSUME NEW c \in Clients PROVE FitsRun(c)'
  <2> DEFINE s == stream[c]
             r == stream[c].run
  <2>1. Grows(r) /\ Seqs(r) \in Seq(Nat \ {0})
    BY SeqsGrow, SeqsFacts DEF ClientInv
  <2>2. s \in AStream /\ Fits(s, Seqs(r), Finals(r))
    BY DEF ClientInv, StreamsInv, FitsRun
  <2>3. Fits(s, Seqs(r)', Finals(r)')
    <3> HIDE DEF s, r
    <3>1. Seqs(r)' \in Seq(Nat \ {0}) /\ Len(Seqs(r)) <= Len(Seqs(r)')
          /\ (\A n \in DOMAIN Seqs(r) : Seqs(r)'[n] = Seqs(r)[n]) /\ Finals(r) \subseteq Finals(r)'
      BY <2>1 DEF Grows
    <3> QED BY <2>1, <2>2, <3>1, FitsGrow
  <2>4. s.at # "closed" => r \in DOMAIN runs'
    BY DEF ClientInv, StreamsInv, FitsRun
  <2> QED BY <2>3, <2>4 DEF FitsRun
<1> QED BY <1>1 DEF ClientInv, StreamsInv

LEMMA ConnectKeeps ==
  ASSUME ClientInv, NEW c \in Clients, NEW r \in DOMAIN runs, Connect(c, r)
  PROVE  ClientInv'
<1> DEFINE s == stream[c]
           t == [s EXCEPT !.at = "open", !.run = r, !.last = LastEventId(c), !.idle = 0, !.batch = <<>>, !.wire = <<>>]
<1>1. s \in AStream /\ Fits(s, Seqs(s.run), Finals(s.run)) /\ s.at = "closed" /\ s.run \in {0, r}
  BY DEF ClientInv, StreamsInv, FitsRun, Connect
<1>2. OneStream(c, t)
  BY DEF Connect, OneStream
<1>3. r \in Nat
  BY DEF ClientInv, RunsInv
<1>4. LastEventId(c) = (IF s.got = <<>> THEN 0 ELSE Last(s.got)) /\ LastEventId(c) \in Nat
  <2>1. s.got \in Seq(Nat)
    BY <1>1, StreamSizes
  <2>2. s.got # <<>> => Last(s.got) \in Nat
    <3> DEFINE got == s.got
    <3> HIDE DEF got
    <3>1. got \in Seq(Nat) /\ got # <<>> => Len(got) \in 1 .. Len(got) /\ got[Len(got)] \in Nat
      OBVIOUS
    <3> QED BY <2>1, <3>1 DEF Last, got
  <2> QED BY <2>2 DEF LastEventId
<1>5. t \in AStream
  BY <1>1, <1>3, <1>4, NoElements DEF AStream
<1>6. t.at = "open" /\ t.run = r /\ t.got = s.got /\ t.batch = <<>> /\ t.wire = <<>> /\ t.idle = 0 /\ t.last = LastEventId(c)
  BY <1>1 DEF AStream
<1>7. Seqs(r) \in Seq(Nat \ {0}) /\ Finals(r) \in SUBSET Nat
  <2>1. Seqs(r) \in Seq(Nat \ {0}) /\ Finals(r) \subseteq DOMAIN Seqs(r)
    BY SeqsFacts DEF ClientInv
  <2> QED BY <2>1
<1>8. Fits(s, Seqs(r), Finals(r))
  <2>1. CASE s.run = r
    BY <1>1, <2>1
  <2>2. CASE s.run = 0
    <3>1. Seqs(0) = <<>>
      <4>1. Seqs(0) \in Seq(Nat \ {0}) /\ \A n \in DOMAIN Seqs(0) : Seqs(0)[n] \in OfRun(0)
        BY SeqsFacts DEF ClientInv
      <4>2. OfRun(0) = {}
        BY DEF OfRun, ClientInv, RunsInv
      <4>3. DOMAIN Seqs(0) = {}
        BY <4>1, <4>2
      <4> QED BY <4>1, <4>3
    <3>2. Finals(0) = {}
      BY <3>1 DEF Finals
    <3>3. <<>> \in Seq(Nat \ {0}) /\ Len(<<>>) = 0 /\ Len(Seqs(r)) \in Nat
      BY <1>7
    <3>4. Fits(s, <<>>, {})
      BY <1>1, <2>2, <3>1, <3>2
    <3>5. Len(<<>>) <= Len(Seqs(r)) /\ (\A n \in DOMAIN <<>> : Seqs(r)[n] = <<>>[n]) /\ {} \subseteq Finals(r)
      BY <3>3
    <3> DEFINE none == <<>>
    <3> HIDE DEF s, none
    <3>6. none \in Seq(Nat \ {0}) /\ Fits(s, none, {}) /\ Len(none) <= Len(Seqs(r))
          /\ (\A n \in DOMAIN none : Seqs(r)[n] = none[n]) /\ {} \subseteq Finals(r)
      BY <3>3, <3>4, <3>5 DEF none, s
    <3> QED BY <1>1, <1>7, <3>6, FitsGrow
  <2> QED BY <1>1, <2>1, <2>2
<1> HIDE DEF s, t
<1>9. Fits(t, Seqs(r), Finals(r))
  BY <1>1, <1>4, <1>5, <1>6, <1>7, <1>8, ConnectFits
<1> QED BY <1>2, <1>5, <1>6, <1>9, StreamChanged

(* What a stream and its run have to do with each other before a step of client c. *)
LEMMA StreamOf ==
  ASSUME ClientInv, NEW c \in Clients
  PROVE  LET s == stream[c] IN
         /\ s \in AStream /\ Fits(s, Seqs(s.run), Finals(s.run))
         /\ Seqs(s.run) \in Seq(Nat \ {0}) /\ Finals(s.run) \in SUBSET Nat
         /\ s.at # "closed" => s.run \in DOMAIN runs
<1> DEFINE s == stream[c]
<1>1. s \in AStream /\ Fits(s, Seqs(s.run), Finals(s.run)) /\ (s.at # "closed" => s.run \in DOMAIN runs)
  BY DEF ClientInv, StreamsInv, FitsRun
<1>2. Seqs(s.run) \in Seq(Nat \ {0}) /\ Finals(s.run) \subseteq DOMAIN Seqs(s.run)
  BY SeqsFacts DEF ClientInv
<1> QED BY <1>1, <1>2

LEMMA FetchKeeps ==
  ASSUME ClientInv, NEW c \in Clients, Fetch(c)
  PROVE  ClientInv'
<1> DEFINE s == stream[c]
           S == Seqs(s.run)
           F == Finals(s.run)
           batch == EventsAfter(s.run, s.last)
           idle == IF Quiet(s.run, batch) THEN s.idle + 1 ELSE s.idle
           t == [s EXCEPT !.batch = batch, !.idle = idle, !.at = IF idle >= 2 THEN "ending" ELSE "open"]
<1>1. s \in AStream /\ Fits(s, S, F) /\ S \in Seq(Nat \ {0}) /\ F \in SUBSET Nat
  BY StreamOf
<1>2. s.at = "open" /\ s.batch = <<>> /\ OneStream(c, t)
  BY DEF Fetch, OneStream
<1>3. s.last = At(S, Yielded(s)) /\ Yielded(s) \in 0 .. Len(S)
  <2>1. s.last = At(S, Yielded(s))
    BY <1>1, <1>2 DEF Fits, Consecutive, Live
  <2>2. /\ Len(s.got) \in Nat /\ OnWire(s) \in Nat /\ Len(s.batch) \in Nat /\ Len(S) \in Nat
        /\ Len(s.got) + OnWire(s) + Len(s.batch) <= Len(S) /\ Yielded(s) = Len(s.got) + OnWire(s)
    <3> HIDE DEF s, S, F
    <3> QED BY <1>1, ConsecutiveIs DEF Fits
  <2>3. Yielded(s) \in 0 .. Len(S)
    <3> HIDE DEF s, S, F
    <3> DEFINE g == Len(s.got)
               w == OnWire(s)
               b == Len(s.batch)
               l == Len(S)
               y == Yielded(s)
    <3>1. g \in Nat /\ w \in Nat /\ b \in Nat /\ l \in Nat /\ g + w + b <= l /\ y = g + w
      BY <2>2
    <3> HIDE DEF g, w, b, l, y
    <3>2. y \in 0 .. l
      BY <3>1
    <3> QED BY <3>2 DEF y, l
  <2> QED BY <2>1, <2>3
<1>4. /\ batch \in Seq(Nat) /\ Yielded(s) + Len(batch) <= Len(S)
      /\ \A n \in 1 .. Len(batch) : batch[n] = S[Yielded(s) + n]
      /\ batch = <<>> => Yielded(s) = Len(S)
  <2> DEFINE p == Yielded(s)
             r == s.run
  <2>1. RunsInv /\ p \in 0 .. Len(Seqs(r)) /\ batch = EventsAfter(r, At(Seqs(r), p))
    BY <1>3 DEF ClientInv
  <2> HIDE DEF batch, p, r
  <2>2. /\ batch \in Seq(Nat) /\ p + Len(batch) <= Len(Seqs(r))
        /\ \A n \in 1 .. Len(batch) : batch[n] = Seqs(r)[p + n]
        /\ batch = <<>> => p = Len(Seqs(r))
    BY <2>1, BatchIs
  <2> QED BY <2>2 DEF p, r
<1>5. s.idle \in Nat /\ idle \in Nat
  <2>1. s.idle \in Nat
    BY <1>1, StreamSizes
  <2> QED BY <2>1
<1>6. idle > s.idle => \E n \in F : n <= Yielded(s)
  <2> SUFFICES ASSUME idle > s.idle PROVE \E n \in F : n <= Yielded(s)
    OBVIOUS
  <2>1. RunOver(s.run) /\ batch = <<>>
    BY <1>5 DEF Quiet
  <2>2. Yielded(s) = Len(S)
    BY <1>4, <2>1
  <2>3. s.run \in DOMAIN runs
    BY <1>2, StreamOf
  <2>4. PICK i \in DOMAIN events : events[i].run = s.run /\ events[i].final
    BY <2>1, <2>3 DEF ClientInv, RunsInv
  <2>5. PICK n \in DOMAIN S : S[n] = i
    <3>1. i \in OfRun(s.run)
      BY <2>4 DEF OfRun
    <3> QED BY <3>1, SeqsFacts DEF ClientInv
  <2>6. n \in F
    BY <2>4, <2>5 DEF Finals
  <2>7. n <= Len(S)
    BY <1>1, <2>5
  <2> QED BY <2>2, <2>6, <2>7
<1> HIDE DEF batch, idle
<1>7. t \in AStream
  <2>1. (IF idle >= 2 THEN "ending" ELSE "open") \in {"open", "ending"}
    OBVIOUS
  <2> QED BY <1>1, <1>4, <1>5, <2>1 DEF AStream
<1>8. /\ t.got = s.got /\ t.wire = s.wire /\ t.last = s.last /\ t.run = s.run /\ t.batch = batch /\ t.idle = idle
      /\ t.at \in {"open", "ending"} /\ (t.at = "ending" => idle >= 2)
  BY <1>1 DEF AStream
<1>9. t.at = "ending" => t.idle > 0
  BY <1>5, <1>8
<1> HIDE DEF t, s, S, F
<1>10. Fits(t, S, F)
  <2>1. \A n \in 1 .. Len(t.batch) : t.batch[n] = S[Yielded(s) + n]
    BY <1>4, <1>8
  <2>2. Yielded(s) + Len(t.batch) <= Len(S)
    BY <1>4, <1>8
  <2>3. t.idle > s.idle => \E n \in F : n <= Yielded(s)
    BY <1>6, <1>8
  <2> QED BY <1>1, <1>2, <1>7, <1>8, <1>9, <2>1, <2>2, <2>3, FetchFits
<1>11. t.run \in DOMAIN runs
  BY <1>2, <1>8, StreamOf DEF s
<1> QED BY <1>2, <1>7, <1>8, <1>10, <1>11, StreamChanged DEF S, F

LEMMA YieldKeeps ==
  ASSUME ClientInv, NEW c \in Clients, YieldEvent(c) \/ YieldEnd(c)
  PROVE  ClientInv'
<1> DEFINE s == stream[c]
           S == Seqs(s.run)
           F == Finals(s.run)
<1>1. s \in AStream /\ Fits(s, S, F) /\ S \in Seq(Nat \ {0}) /\ s.batch \in Seq(Nat) /\ s.wire \in Seq(Nat)
      /\ (s.at # "closed" => s.run \in DOMAIN runs)
  BY StreamOf, StreamSizes
<1>2. CASE YieldEvent(c)
  <2> DEFINE t == [s EXCEPT !.batch = Tail(@), !.last = Head(s.batch), !.wire = Append(@, Head(s.batch))]
  <2>1. s.at \in {"open", "ending"} /\ s.batch # <<>> /\ OneStream(c, t)
    BY <1>2 DEF YieldEvent, OneStream
  <2>2. Head(s.batch) \in Nat /\ Tail(s.batch) \in Seq(Nat)
    <3> DEFINE b == s.batch
    <3>1. b \in Seq(Nat) /\ b # <<>>
      BY <1>1, <2>1
    <3> HIDE DEF b
    <3>2. Head(b) \in Nat /\ Tail(b) \in Seq(Nat)
      BY <3>1
    <3> QED BY <3>2 DEF b
  <2>3. Append(s.wire, Head(s.batch)) \in Seq(Nat)
    BY <1>1, <2>2
  <2>4. t \in AStream
    BY <1>1, <2>2, <2>3 DEF AStream
  <2>5. /\ t.at = s.at /\ t.got = s.got /\ t.idle = s.idle /\ t.run = s.run
        /\ t.batch = Tail(s.batch) /\ t.last = Head(s.batch) /\ t.wire = Append(s.wire, Head(s.batch))
    BY <1>1 DEF AStream
  <2> HIDE DEF s, t, S, F
  <2>6. Fits(t, S, F)
    BY <1>1, <2>1, <2>4, <2>5, YieldFits
  <2>7. t.run \in DOMAIN runs
    BY <1>1, <2>1, <2>5
  <2> QED BY <2>1, <2>4, <2>5, <2>6, <2>7, StreamChanged DEF S, F
<1>3. CASE YieldEnd(c)
  <2> DEFINE t == [s EXCEPT !.at = "sent", !.wire = Append(@, StreamEnd)]
  <2>1. s.at = "ending" /\ s.batch = <<>>
    BY <1>3 DEF YieldEnd
  <2>2. OneStream(c, t)
    <3>1. stream \in [Clients -> AStream]
      BY DEF ClientInv, StreamsInv
    <3>2. stream' = [stream EXCEPT ![c].at = "sent", ![c].wire = Append(@, StreamEnd)] /\ UNCHANGED <<runs, answers, events>>
      BY <1>3 DEF YieldEnd
    <3> QED BY <3>1, <3>2 DEF OneStream, AStream
  <2>3. Append(s.wire, StreamEnd) \in Seq(Nat)
    BY <1>1 DEF StreamEnd
  <2>4. t \in AStream
    BY <1>1, <2>3 DEF AStream
  <2>5. /\ t.at = "sent" /\ t.got = s.got /\ t.idle = s.idle /\ t.run = s.run
        /\ t.batch = s.batch /\ t.last = s.last /\ t.wire = Append(s.wire, StreamEnd)
    BY <1>1 DEF AStream
  <2> HIDE DEF s, t, S, F
  <2>6. Fits(t, S, F)
    BY <1>1, <2>1, <2>4, <2>5, YieldEndFits
  <2>7. t.run \in DOMAIN runs
    BY <1>1, <2>1, <2>5
  <2> QED BY <2>2, <2>4, <2>5, <2>6, <2>7, StreamChanged DEF S, F
<1> QED BY <1>2, <1>3

LEMMA ReceiveKeeps ==
  ASSUME ClientInv, NEW c \in Clients, Receive(c)
  PROVE  ClientInv'
<1> DEFINE s == stream[c]
           S == Seqs(s.run)
           F == Finals(s.run)
           end == [s EXCEPT !.at = "ended", !.wire = <<>>]
           more == [s EXCEPT !.wire = Tail(@), !.got = Append(@, Head(s.wire))]
           t == IF Head(s.wire) = StreamEnd THEN end ELSE more
<1>1. s \in AStream /\ Fits(s, S, F) /\ S \in Seq(Nat \ {0}) /\ s.got \in Seq(Nat) /\ s.wire \in Seq(Nat)
      /\ (s.at # "closed" => s.run \in DOMAIN runs)
  BY StreamOf, StreamSizes
<1>2. s.at \in {"open", "ending", "sent"} /\ s.wire # <<>> /\ OneStream(c, t)
  BY DEF Receive, OneStream
<1>3. Head(s.wire) \in Nat /\ Tail(s.wire) \in Seq(Nat)
  <2> DEFINE w == s.wire
  <2>1. w \in Seq(Nat) /\ w # <<>>
    BY <1>1, <1>2
  <2> HIDE DEF w
  <2>2. Head(w) \in Nat /\ Tail(w) \in Seq(Nat)
    BY <2>1
  <2> QED BY <2>2 DEF w
<1>4. Append(s.got, Head(s.wire)) \in Seq(Nat)
  BY <1>1, <1>3
<1>5. end \in AStream /\ more \in AStream
  BY <1>1, <1>3, <1>4, NoElements DEF AStream
<1>6. /\ t.idle = s.idle /\ t.last = s.last /\ t.batch = s.batch /\ t.run = s.run
      /\ \/ Head(s.wire) = StreamEnd /\ t.at = "ended" /\ t.wire = <<>> /\ t.got = s.got
         \/ Head(s.wire) # StreamEnd /\ t.at = s.at /\ t.wire = Tail(s.wire) /\ t.got = Append(s.got, Head(s.wire))
  BY <1>1 DEF AStream
<1>7. t \in AStream
  BY <1>5
<1>8. Live(s)
  BY <1>2 DEF Live
<1> HIDE DEF t, s, S, F
<1>9. Fits(t, S, F)
  BY <1>1, <1>2, <1>6, <1>7, <1>8, ReceiveFits
<1>10. t.run \in DOMAIN runs
  BY <1>1, <1>2, <1>6
<1> QED BY <1>2, <1>6, <1>7, <1>9, <1>10, StreamChanged DEF S, F

LEMMA DropKeeps ==
  ASSUME ClientInv, NEW c \in Clients, Drop(c)
  PROVE  ClientInv'
<1> DEFINE s == stream[c]
           S == Seqs(s.run)
           F == Finals(s.run)
           t == [s EXCEPT !.at = "closed", !.batch = <<>>, !.wire = <<>>]
<1>1. s \in AStream /\ Fits(s, S, F) /\ S \in Seq(Nat \ {0})
  BY StreamOf
<1>2. OneStream(c, t)
  BY DEF Drop, OneStream
<1>3. t \in AStream
  BY <1>1, NoElements DEF AStream
<1>4. t.at = "closed" /\ t.got = s.got /\ t.run = s.run /\ t.batch = <<>> /\ t.wire = <<>>
  BY <1>1 DEF AStream
<1> HIDE DEF t, s, S, F
<1>5. Fits(t, S, F)
  BY <1>1, <1>3, <1>4, DropFits
<1> QED BY <1>2, <1>3, <1>4, <1>5, StreamChanged DEF S, F

LEMMA ClientStep == ClientInv /\ [ClientNext]_clientVars => ClientInv'
<1> SUFFICES ASSUME ClientInv, [ClientNext]_clientVars PROVE ClientInv'
  OBVIOUS
<1>1. RunsInv
  BY DEF ClientInv
<1>2. ASSUME NEW key \in Keys, NEW q \in Requests, CreateRun(key, q) PROVE ClientInv'
  <2>1. RunsInv'
    BY <1>1, <1>2, CreateKeepsRuns
  <2>2. CASE UNCHANGED <<runs, events, stream>>
    <3>1. ASSUME NEW c \in Clients PROVE FitsRun(c)'
      <4>1. (Seqs(stream[c].run))' = Seqs(stream[c].run) /\ (Finals(stream[c].run))' = Finals(stream[c].run)
        BY <2>2 DEF Seqs, Finals
      <4>2. FitsRun(c)
        BY DEF ClientInv, StreamsInv
      <4> QED BY <2>2, <4>1, <4>2 DEF FitsRun
    <3> QED BY <2>1, <2>2, <3>1 DEF ClientInv, StreamsInv
  <2>3. CASE /\ runs' = Append(runs, [key |-> key, request |-> q, status |-> "queued"])
             /\ events' = Append(events, [run |-> Len(runs'), final |-> FALSE]) /\ UNCHANGED stream
    <3>1. runs \in Seq(ARun) /\ runs' \in Seq(ARun)
      BY <1>1, <2>1 DEF RunsInv
    <3>2. Len(runs') \in Nat /\ DOMAIN runs \subseteq DOMAIN runs'
      BY <2>3, <3>1
    <3> DEFINE n == Len(runs')
    <3>3. OneMoreEvent(n, FALSE) /\ n \in Nat
      BY <2>3, <3>2 DEF OneMoreEvent
    <3> HIDE DEF n
    <3> QED BY <2>1, <2>3, <3>2, <3>3, StreamsFollow
  <2> QED BY <1>2, <2>2, <2>3 DEF CreateRun
<1>3. ASSUME NEW r \in DOMAIN runs, EmitEvent(r) PROVE ClientInv'
  <2>1. RunsInv' /\ OneMoreEvent(r, FALSE) /\ r \in Nat
    BY <1>1, <1>3, EmitKeepsRuns
  <2>2. UNCHANGED <<runs, stream>>
    BY <1>3 DEF EmitEvent
  <2> QED BY <2>1, <2>2, StreamsFollow
<1>4. ASSUME NEW r \in DOMAIN runs, FinishRun(r) PROVE ClientInv'
  <2>1. RunsInv' /\ OneMoreEvent(r, TRUE) /\ r \in Nat
    BY <1>1, <1>4, FinishKeepsRuns
  <2>2. UNCHANGED stream /\ DOMAIN runs' = DOMAIN runs
    BY <1>1, <1>4 DEF FinishRun, RunsInv
  <2> QED BY <2>1, <2>2, StreamsFollow
<1>5. CASE UNCHANGED clientVars
  <2>1. RunsInv'
    BY <1>1, <1>5, RunsKept DEF clientVars
  <2>2. ASSUME NEW c \in Clients PROVE FitsRun(c)'
    <3>1. UNCHANGED <<stream, events, runs>> /\ FitsRun(c)
      BY <1>5 DEF clientVars, ClientInv, StreamsInv
    <3>2. (Seqs(stream[c].run))' = Seqs(stream[c].run) /\ (Finals(stream[c].run))' = Finals(stream[c].run)
      BY <3>1 DEF Seqs, Finals
    <3> QED BY <3>1, <3>2 DEF FitsRun
  <2> QED BY <1>5, <2>1, <2>2 DEF ClientInv, StreamsInv, clientVars
<1>6. CASE ClientNext
  <2>1. CASE \E key \in Keys, q \in Requests : CreateRun(key, q)
    BY <1>2, <2>1
  <2>2. CASE \E r \in DOMAIN runs : EmitEvent(r) \/ FinishRun(r) \/ \E c \in Clients : Connect(c, r)
    BY <1>3, <1>4, <2>2, ConnectKeeps
  <2>3. CASE \E c \in Clients : Fetch(c) \/ YieldEvent(c) \/ YieldEnd(c) \/ Receive(c) \/ Drop(c)
    BY <2>3, FetchKeeps, YieldKeeps, ReceiveKeeps, DropKeeps
  <2> QED BY <1>6, <2>1, <2>2, <2>3 DEF ClientNext
<1> QED BY <1>5, <1>6

LEMMA ClientStart == ClientInit => ClientInv
<1> SUFFICES ASSUME ClientInit PROVE ClientInv
  OBVIOUS
<1>1. RunsInv
  BY RunsInit
<1>2. stream = [c \in Clients |-> Closed]
  BY DEF ClientInit
<1>3. Closed \in AStream
  BY NoElements DEF Closed, AStream
<1>4. Fits(Closed, Seqs(0), Finals(0))
  <2>1. Seqs(0) \in Seq(Nat \ {0})
    BY <1>1, SeqsFacts
  <2>2. Len(Seqs(0)) \in Nat /\ Len(<<>>) = 0
    BY <2>1
  <2>3. OnWire(Closed) = 0 /\ Len(Closed.got) = 0 /\ Len(Closed.batch) = 0
    BY <2>2 DEF OnWire, Closed
  <2>4. Yielded(Closed) = 0 /\ Flow(Closed) = 0
    BY <2>3 DEF Yielded, Flow
  <2>5. ~Live(Closed) /\ Closed.at = "closed" /\ Closed.batch = <<>> /\ Closed.wire = <<>>
    BY DEF Live, Closed
  <2>6. Consecutive(Closed, Seqs(0))
    BY <2>2, <2>3, <2>4, <2>5 DEF Consecutive
  <2> QED BY <2>5, <2>6 DEF Fits, EndIsTold, InStep
<1>5. Closed.at = "closed" /\ Closed.run = 0
  BY DEF Closed
<1> QED BY <1>1, <1>2, <1>3, <1>4, <1>5 DEF ClientInv, StreamsInv, FitsRun

LEMMA ClientSafe == ClientInv => ClientsSeeTheirRun
<1> SUFFICES ASSUME ClientInv PROVE ClientsSeeTheirRun
  OBVIOUS
<1>1. \A a, b \in answers : a.key = b.key => a = b
  <2> SUFFICES ASSUME NEW a \in answers, NEW b \in answers, a.key = b.key PROVE a = b
    OBVIOUS
  <2>1. /\ a = [key |-> a.key, request |-> a.request, run |-> a.run]
        /\ a.run \in DOMAIN runs /\ runs[a.run].key = a.key /\ runs[a.run].request = a.request
        /\ b = [key |-> b.key, request |-> b.request, run |-> b.run]
        /\ b.run \in DOMAIN runs /\ runs[b.run].key = b.key /\ runs[b.run].request = b.request
    BY DEF ClientInv, RunsInv
  <2>2. a.run = b.run
    BY <2>1 DEF ClientInv, RunsInv
  <2> QED BY <2>1, <2>2
<1>2. IsInjective([r \in DOMAIN runs |-> runs[r].key])
  BY DEF ClientInv, RunsInv, IsInjective
<1>3. \A r \in DOMAIN runs : WorthRunning(runs[r].request)
  BY DEF ClientInv, RunsInv
<1>4. ASSUME NEW c \in Clients
      PROVE  /\ IsPrefix(stream[c].got, Seqs(stream[c].run))
             /\ stream[c].at = "ended" => \E i \in Range(stream[c].got) : events[i].final
  <2> DEFINE s == stream[c]
             S == Seqs(s.run)
             F == Finals(s.run)
             g == Len(s.got)
  <2>1. s \in AStream /\ Fits(s, S, F) /\ S \in Seq(Nat \ {0})
    BY StreamOf
  <2>2. s.got \in Seq(Nat) /\ g \in Nat
    BY <2>1, StreamSizes
  <2>3. g <= Len(S) /\ \A n \in 1 .. g : s.got[n] = S[n]
    <3>1. /\ g \in Nat /\ OnWire(s) \in Nat /\ Len(s.batch) \in Nat /\ g + OnWire(s) + Len(s.batch) <= Len(S)
          /\ Len(S) \in Nat /\ \A n \in 1 .. g : s.got[n] = S[n]
      <4> HIDE DEF s, S
      <4> QED BY <2>1, ConsecutiveIs DEF Fits
    <3> DEFINE w == OnWire(s)
               b == Len(s.batch)
               l == Len(S)
    <3>2. g \in Nat /\ w \in Nat /\ b \in Nat /\ l \in Nat /\ g + w + b <= l
      BY <3>1
    <3> HIDE DEF g, w, b, l
    <3>3. g <= l
      BY <3>2
    <3> QED BY <3>1, <3>3 DEF l
  <2>4. IsPrefix(s.got, S)
    <3> DEFINE got == s.got
    <3>1. got \in Seq(Nat) /\ S \in Seq(Nat \ {0}) /\ Len(got) <= Len(S) /\ \A n \in 1 .. Len(got) : got[n] = S[n]
      BY <2>1, <2>2, <2>3
    <3> HIDE DEF got, S
    <3>2. SubSeq(got, 1, Len(got)) = SubSeq(S, 1, Len(got))
      BY <3>1
    <3>3. IsPrefix(got, S)
      BY <3>1, <3>2 DEF IsPrefix
    <3> QED BY <3>3 DEF got
  <2>5. ASSUME s.at = "ended" PROVE \E i \in Range(s.got) : events[i].final
    <3>1. PICK n \in F : n <= Flow(s)
      BY <2>1, <2>5 DEF Fits, EndIsTold
    <3>2. Flow(s) = g
      <4>1. s.batch = <<>> /\ s.wire = <<>> /\ Len(<<>>) = 0
        BY <2>1, <2>5 DEF Fits, InStep, Live
      <4>2. OnWire(s) = 0 /\ Len(s.batch) = 0
        BY <2>5, <4>1 DEF OnWire
      <4> HIDE DEF s
      <4>3. Flow(s) = (Len(s.got) + 0) + 0 /\ Len(s.got) \in Nat
        BY <2>2, <4>2 DEF Flow, Yielded, g
      <4> QED BY <4>3
    <3>3. n \in DOMAIN S /\ events[S[n]].final
      BY <3>1 DEF Finals
    <3>4. n \in 1 .. g
      BY <2>1, <2>2, <3>1, <3>2, <3>3
    <3>5. s.got[n] = S[n] /\ n \in DOMAIN s.got
      BY <2>2, <2>3, <3>4
    <3> QED BY <3>3, <3>5 DEF Range
  <2> QED BY <2>4, <2>5
<1> QED BY <1>1, <1>2, <1>3, <1>4 DEF ClientsSeeTheirRun, WorthRunning

(***************************************************************************)
(* A client that repeats its request gets one run and one answer, an       *)
(* accepted run has work to do within its limits and from one project, and *)
(* the events of a run arrive each once and in order over any number of    *)
(* broken connections, the end of the run included.  (create_run,          *)
(* run_events, useRunEvents)                                               *)
(***************************************************************************)
THEOREM ClientsFollow == ClientSpec => []ClientsSeeTheirRun
<1>1. ClientInit => ClientInv
  BY ClientStart
<1>2. ClientInv /\ [ClientNext]_clientVars => ClientInv'
  BY ClientStep
<1>3. ClientInv => ClientsSeeTheirRun
  BY ClientSafe
<1> QED BY <1>1, <1>2, <1>3, PTL DEF ClientSpec
=============================================================================
