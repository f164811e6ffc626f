----------------------------- MODULE Definitions -----------------------------
(******************************************************************************)
(* Definitions and their versions: a definition is never edited, saving it    *)
(* adds a version under its logical id or returns the version that says the   *)
(* same.  (db/repositories.py, api/routes/definitions.py)  Each action is one *)
(* BEGIN IMMEDIATE transaction.  A content hash is a value of Hashes, joined  *)
(* with what else the program hashes.                                         *)
(******************************************************************************)
EXTENDS Integers, Sequences, FiniteSets, TLC

CONSTANTS Projects, Hashes, TargetNames,
          MaxRows  \* bound: rows of definitions

ASSUME DefinitionAssumption == MaxRows \in Nat

VARIABLE rows  \* the rows by creation: [table, project, logical, version, hash, beside, refs]; an id is a position

NoId == 0

IdsIn(rs, table) == {i \in DOMAIN rs : rs[i].table = table}
IdsOf(table, project) == {i \in IdsIn(rows, table) : rows[i].project = project}
Logicals(table) == {rows[i].logical : i \in IdsIn(rows, table)}

OwnVersion(rs, table, project, logical) ==  \* slip: versions are counted by project, the rows of a logical id are not
    1 + Cardinality({i \in IdsIn(rs, table) : rs[i].logical = logical /\ rs[i].project = project})

NextVersion(rs, table, project, logical) ==
    LET versions == {rs[i].version : i \in {j \in IdsIn(rs, table) : rs[j].logical = logical}}
    IN  1 + (IF versions = {} THEN 0 ELSE CHOOSE v \in versions : \A w \in versions : w <= v)

Row(table, project, logical, version, hash, beside, refs) ==
    [table |-> table, project |-> project, logical |-> logical, version |-> version, hash |-> hash,
     beside |-> beside, refs |-> refs]

(* What a save may lead to: the newest row of the same hash if the rest agrees too, or a new row. *)
(* Among rows of one version under several logical ids the database returns any.                  *)
Save(rs, table, project, logical, hash, beside, refs) ==
    LET same == {i \in IdsIn(rs, table) : /\ rs[i].project = project /\ rs[i].hash = hash
                                          /\ logical # NoId => rs[i].logical = logical}
        newest == {i \in same : \A j \in same : rs[j].version <= rs[i].version}
        own == IF logical = NoId THEN Len(rs) + 1 ELSE logical
        added == [rows |-> Append(rs, Row(table, project, own, NextVersion(rs, table, project, own), hash, beside, refs)),
                  id |-> Len(rs) + 1]
    IN  IF newest = {} THEN {added}
        ELSE {IF rs[i].beside = beside THEN [rows |-> rs, id |-> i] ELSE added : i \in newest}

SaveGrader(rs, project, hash, judge, logical) ==
    Save(rs, "grader_versions", project, logical, <<hash, {rs[j].hash : j \in {judge} \ {NoId}}>>, "none",
         [judge_config_id |-> judge, parent_id |-> NoId])

(* A dataset version and, when it is new, its cases (one stands for them). *)
SaveDataset(rs, project, scenario, hash, logical, parent) ==
    {IF saved.rows = rs THEN saved
     ELSE [saved EXCEPT !.rows = Append(@, Row("cases", project, NoId, 0, hash, "none", [dataset_id |-> saved.id]))] :
        saved \in Save(rs, "dataset_versions", project, logical, <<rs[scenario].hash, hash>>, scenario,
                       [scenario_id |-> scenario, parent_id |-> parent])}

InOwnProject(id, table, project) == id = NoId \/ id \in IdsOf(table, project)

-----------------------------------------------------------------------------
Bounded == Len(rows') <= MaxRows

GenerationKnown(project, generation) ==
    generation # NoId => /\ generation \in IdsOf("target_config_versions", project)
                         /\ rows[generation].refs.generation = NoId  \* not a memory target itself

(* The parent is looked up in any project; the logical id may be any one. *)
CreateTarget(project, hash, name, logical, parent, generation) ==
    /\ GenerationKnown(project, generation)
    /\ LET own == IF parent # NoId /\ logical = NoId THEN rows[parent].logical ELSE logical
       IN  \E saved \in Save(rows, "target_config_versions", project, own, <<hash, generation>>, name,
                             [parent_id |-> parent, generation |-> generation]) : rows' = saved.rows
    /\ Bounded

CreateGrader(project, hash, judge, logical) ==
    /\ InOwnProject(judge, "target_config_versions", project)
    /\ \E saved \in SaveGrader(rows, project, hash, judge, logical) : rows' = saved.rows
    /\ Bounded

(* import_document: the grader, the scenario and, if the document has cases, the dataset. *)
ImportDocument(project, hash, judge, logical, parent, withCases) ==
    \E grader \in SaveGrader(rows, project, hash, judge, NoId) :
    \E scenario \in Save(grader.rows, "scenario_versions", project, logical, hash, {grader.id},
                         [grader_refs |-> grader.id, parent_id |-> parent]) :
        IF withCases
        THEN \E dataset \in SaveDataset(scenario.rows, project, scenario.id, hash, NoId, NoId) : rows' = dataset.rows
        ELSE rows' = scenario.rows

CreateScenario(project, hash, judge, parent, withCases) ==
    /\ InOwnProject(judge, "target_config_versions", project)
    /\ InOwnProject(parent, "scenario_versions", project)
    /\ ImportDocument(project, hash, judge, IF parent = NoId THEN NoId ELSE rows[parent].logical, parent, withCases)
    /\ Bounded

(* The scenario must be the project's own; the parent is only looked up. *)
CreateDataset(project, scenario, hash, logical, parent) ==
    /\ scenario \in IdsOf("scenario_versions", project)
    /\ LET own == IF parent # NoId /\ logical = NoId THEN rows[parent].logical ELSE logical
       IN  \E saved \in SaveDataset(rows, project, scenario, hash, own, parent) : rows' = saved.rows
    /\ Bounded

(* split_dataset, and promote with a target: a version that follows the one it starts from. *)
NextDataset(dataset, hash) ==
    LET row == rows[dataset] IN
    /\ \E saved \in SaveDataset(rows, row.project, row.refs.scenario_id, hash, row.logical, dataset) : rows' = saved.rows
    /\ Bounded

CreatePolicy(project, hash) ==
    /\ \E saved \in Save(rows, "release_policies", project, NoId, hash, "none", <<>>) : rows' = saved.rows
    /\ Bounded

OrNone(ids) == ids \cup {NoId}

(* Bound: with no row left to add, a save could only return a row there is. *)
Room == Len(rows) < MaxRows

DefinitionNext == Room /\
    \E project \in Projects, hash \in Hashes :
        \/ \E name \in TargetNames, logical \in OrNone(Logicals("target_config_versions")),
              parent, generation \in OrNone(IdsIn(rows, "target_config_versions")) :
              CreateTarget(project, hash, name, logical, parent, generation)
        \/ \E judge \in OrNone(IdsIn(rows, "target_config_versions")), logical \in OrNone(Logicals("grader_versions")) :
              CreateGrader(project, hash, judge, logical)
        \/ \E judge \in OrNone(IdsIn(rows, "target_config_versions")),
              parent \in OrNone(IdsIn(rows, "scenario_versions")), withCases \in BOOLEAN :
              CreateScenario(project, hash, judge, parent, withCases)
        \/ \E scenario \in IdsIn(rows, "scenario_versions"), logical \in OrNone(Logicals("dataset_versions")),
              parent \in OrNone(IdsIn(rows, "dataset_versions")) :
              CreateDataset(project, scenario, hash, logical, parent)
        \/ \E dataset \in IdsIn(rows, "dataset_versions") : NextDataset(dataset, hash)
        \/ CreatePolicy(project, hash)

-----------------------------------------------------------------------------
(* Versions tell their order and nothing is stored twice: the rows of a logical id, even   *)
(* when projects share it, have rising versions; a row differs from the newest earlier one *)
(* of its project and hash; and a row refers to rows of its own project only, but for the   *)
(* parent of a dataset or a target, which the program takes from any project.              *)
(* (repositories.py _next_version, _existing, the guards of the routes)                    *)
VersionsAreHonest ==
    /\ \A i, j \in DOMAIN rows :
        i < j /\ rows[i].table = rows[j].table /\ rows[i].logical = rows[j].logical /\ rows[i].logical # NoId =>
            /\ rows[i].version < rows[j].version
            /\ rows[i].project = rows[j].project /\ rows[i].hash = rows[j].hash /\ rows[i].beside = rows[j].beside =>
                  \E k \in i + 1 .. j - 1 : /\ rows[k].table = rows[j].table /\ rows[k].logical = rows[j].logical
                                            /\ rows[k].hash = rows[j].hash /\ rows[k].beside # rows[j].beside
    /\ \A i \in DOMAIN rows : \A c \in DOMAIN rows[i].refs :
        LET id == rows[i].refs[c] IN
        id > NoId => /\ id < i \/ c = "selected_attempt_id"
                     /\ \/ rows[id].project = rows[i].project
                        \/ c = "parent_id" /\ rows[i].table \in {"dataset_versions", "target_config_versions"}
=============================================================================
