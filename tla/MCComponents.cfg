SPECIFICATION Spec
CONSTANTS
    Tasks = {t1, t2}
    Procs = {p1, p2}
    RecycleAfter = 2
    MaxEvents = 5
    MaxRebuilds = 1
    PageSize = 2
    Trials = {"u1", "u2"}
    GraderIds <- MCGraderIds
    Graders <- MCGraders
    MandatoryNames <- MCMandatoryNames
    Defective <- MCDefective
    Cases <- MCCases
    MaxJudgeCalls = 2
    MaxCrashes = 1
    Reviewed = {"u1", "u2"}
    SourceId <- MCSourceId
    ClusterOf <- MCClusterOf
    Renamed = {"y"}
    Taken = {"confirm_failure", "acceptable_variation"}
    MaxReviews = 3
    MaxVersions = 3
    Slots <- MCSlots
    KeysOf <- MCKeysOf
    CaseInfo <- MCCaseInfo
    HashOf <- MCHashOf
    Designs <- MCDesigns
    Outages <- MCOutages
    Leaky <- MCLeaky
    Policies <- MCPolicies
    GraderSets = {"v1"}
    Regraders = {"v2"}
    Doubtable = {"c2"}
    Compared <- MCCompared
    Regraded = {"r2"}
    Scale = 1
    Projects = {1, 2}
    Hashes = {"h", "i"}
    TargetNames = {"n", "m"}
    MaxRows = 6
    Labels = {"a", "b"}
    Foreign = "z"
    Grain = 2
    MaxSample = 3
    Keys = {"k1", "k2"}
    Clients = {"b"}
    Requests <- MCRequests
    Scenarios <- MCScenarios
    Datasets <- MCDatasets
    TargetConfigs <- MCTargetConfigs
    GraderRows <- MCGraderRows
    BatchSize = 1
    MaxRuns = 2
    MaxRunEvents = 3
    MaxDrops = 1
INVARIANTS
    RowsTellTheTruth
    NoBridgeLeftBehind
    StoreMatchesLog
    VerdictsNeedEvidence
    JudgeIsAccountedFor
    ReviewsAreTraceable
    ReadyNeedsEvidence
    QueueShowsEveryProblem
    VersionsAreHonest
    ImportedIsWhole
    SchemaIsWhole
    MeasuresAgreeWithDefinitions
    ClientsSeeTheirRun
PROPERTIES
    EpisodesEnd
    ProvenanceIsExact
CHECK_DEADLOCK FALSE
