SPECIFICATION Spec
CONSTANTS
    Manifests = {m1, m2}
    Persistent = {m1}
    Startable = {m1, m2}
    Autostart = {m1}
    NoManifest = NoManifest
    Callers = {c1, c2}
    Operation = Operation
    MaxRegistrations = 3
INVARIANTS
    ProviderTypeOK
    AvailableIsReady
    VetoHolds
SYMMETRY MCSymmetry
CHECK_DEADLOCK FALSE
