SPECIFICATION MCSpec
CONSTANTS
    Invocations = {i1, i2}
    Gates = {g1, g2}
    Nobody = Nobody
    MaxOutputs = 1
    ObserverIds = {o1, o2}
    ObserverVersions = {m1, m2, m3}
    InstalledObserver = {m1, m2}
    AutostartObserver = {m1}
    NoObserver = NoObserver
    MaxObservers = 1
    ArtifactIds = {a1, a2, a3}
    ArtifactCalls = {c1, c2}
    NoImport = NoImport
    MaxOutputCount = 1
    NoCommand = NoCommand
    MaxServiceCalls = 1
    MaxBrokers = 2
    MaxUserChanges = 1
SYMMETRY Symmetry
INVARIANTS
    CallTypesOK
    ActedWasAllowed
    EventsTellOneStory
    
    HooksObey
    ProvenanceIsKept
PROPERTIES
    RoutingIsSound
    OutcomesAreReached
CHECK_DEADLOCK FALSE
