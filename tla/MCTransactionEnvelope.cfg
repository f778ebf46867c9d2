SPECIFICATION EnvSpec
CONSTANTS
    install = install
    check = check
    undo = undo
    NoStep = NoStep
    Calls = {c1, c2}
    Steps <- MCSteps
    Kind <- MCKind
    RollbackStep <- MCRollbackStep
    MaxRestarts = 1
    MaxRevision = 0
INVARIANTS
    EnvTypeOK
    NothingRunsAfterFinal
    AtMostOneDispatch
    EffectsAreRecorded
PROPERTIES
    EveryChangeMovesRevision
    RestartResumesOnlyContracts
    ImplementsPlan
    GateClosesByItsVerifier
CHECK_DEADLOCK FALSE
