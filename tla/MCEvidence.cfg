SPECIFICATION MCSpec
CONSTANTS
    \* CpuApEvidence
    Transcripts = {"linux"}
    Derived = {"linux"}
    EnvCommands = {}
    Runner = TRUE
    LinuxGates = {"opensbi_handoff", "linux_initramfs_smoke"}
    PhoneItems = {"mmu_evidence"}
    Manifests <- MCManifests
    Checkouts <- MCCheckouts
    Upsets <- MCUpsets
    Remains <- MCRemains
    Claims = {"none", "has_cpu"}
    DtsTokens <- MCDtsTokens
    MaxClock = 5
    \* PdSignoff
    Runs = {1, 2}
    ClassOrder <- MCOrder
    ReportClasses = {"sta_report"}
    ReleaseGates = {"pd_release"}
    Snapshots <- MCSnapshots
    Verdicts = {"clean", "dirty", "silent"}
    PdManifests <- MCPdManifests
    ArchivedRuns = {1}
    Launching = FALSE
    RunnerReady = TRUE
    PdkReady = FALSE
    MaxEdits = 2
    \* OpenLaneLaunch
    Launchers = {1, 2, 3}
    \* ReleaseEvidence
    Files = {"top.gbr", "job.gbrjob"}
    Items = {"gerbers"}
    RequiredItems = {"gerbers"}
    Listings = {"gerber_archive"}
    RequiredListings = {"gerber_archive"}
    Globs <- MCGlobs
    Nameable <- MCNameable
    Placeholders = {}
    Reports = {"gerber_archive"}
    Headers <- MCHeaders
    MaxContents = 4
    \* MvpSimulator
    Aggregates = {1, 2}
    Logs <- MCLogs
    Outcomes <- MCOutcomes
    Skips = {"cpu_ap_linux_evidence", "chipyard_payload_path"}
    Ladders <- MCLadders
    NpuInputs <- MCNpuInputs
    GateInputs <- MCGateInputs
    TargetInputs <- MCTargetInputs
    MaxLogs = 2
    \* MvpStatus
    Base <- MCBase
    Values <- MCValues
    FormalTargets = {"e1_npu", "e1_dma"}
    MaxTableEdits = 2
    \* BspEvidence
    BspLogs <- MCBspLogs
    AospOrder <- MCAospOrder
    BuildStages = 1
    Contents <- MCContents
    Sources <- MCSources
    ScaffoldParts = {"readme", "audit", "log_specs"}
    MaxBspEdits = 1
    \* NpuRuntime
    Polls = 2
    Dims <- MCDims
    Streams <- MCStreams
    MaxCalls = 3
    \* NpuDriver
    Callers = {1, 2}
    PollLimit = 2
    MaxIoctls = 2
INVARIANTS
    NeverConsistent
    CpuGatesAgree
    PdEvidenceAgrees
    LaunchersExclude
    AggregateHonest
    TableHonest
    BspHonest
    
PROPERTIES
    CpuPassIsRaced
    PdVerdictKept
    AcceptanceIsCurrent
CHECK_DEADLOCK FALSE
