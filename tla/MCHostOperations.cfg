SPECIFICATION MCSpec
CONSTANTS
    PackageVersions = {v1, v2}
    NoVersion = NoVersion
    Manager = Manager
    Runtime = Runtime
    NoHolder = NoHolder
    MaxOrphans = 1
    Brokers = {b1, b2}
    NoBroker = NoBroker
    MaxLaunches = 2
    Old = Old
    Target = Target
    MaxRequests = 2
    MaxRuntimes = 3
    Checks = {k1}
    Verifiers = {p1, p2}
    NoVerifier = NoVerifier
    MaxRevision = 4
    MaxContract = 2
    MaxEvidence = 2
    MaxEvaluations = 1
    Files = {f1, f2}
    MaxEdits = 3
    MaxCommits = 3
    Paths = {d1, d2, d3}
    MaxOutside = 2
    Supervisors = {s1, s2}
    MaxStarts = 2
    Roots = {w1}
    Setups = {q1, q2}
    NoSetup = NoSetup
SYMMETRY Symmetry
INVARIANTS
    HostTypesOK
    OwnedInstallersExclude
    ChangeIsUndoable
PROPERTIES
    InstallationIsWhole
    LaunchesAreHonest
    RestartHappensOnce
    PromotionIsEarned
    GitIsExact
    RunnerIsKnown
    WindowIsObeyed
CHECK_DEADLOCK FALSE
