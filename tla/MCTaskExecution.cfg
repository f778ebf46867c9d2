SPECIFICATION Spec
CONSTANTS
    write = write
    read = read
    Requests <- MCRequests
    Repeatable <- MCRepeatable
    NoTask = NoTask
    Workers = 1
    RunnerThreads = 1
    MaxActive = 1
    MaxLedger = 1
    MaxInstances = 2
    MaxRestarts = 1
INVARIANTS
    TypeOK
    AtMostOnce
    OpenTasksAreOwned
PROPERTIES
    RunnerKeepsItsWord
    TerminalIsFinal
CHECK_DEADLOCK FALSE
