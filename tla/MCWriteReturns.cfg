SPECIFICATION Spec
CONSTANTS
    Callers = {c1}
    MaxEvents = 3
    MaxRead = 2
    Payload = 5
    InPipe = 1
    OutPipe = 1
    MaxOps = 1
PROPERTIES
    WriteReturns
CHECK_DEADLOCK FALSE
