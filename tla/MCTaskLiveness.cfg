SPECIFICATION Spec
CONSTANTS
    write = write
    read = read
    Requests <- MCRequests
    Repeatable <- MCRepeatable
    NoTask = NoTask
    Workers = 1
    RunnerThreads = 1
    MaxActive = 1
    MaxLedger = 1
    MaxInstances = 1
    MaxRestarts = 1
PROPERTIES
    EveryTaskEnds
CHECK_DEADLOCK FALSE
