SPECIFICATION MCSpec
CONSTANTS
    Callers = {c1, c2}
    MaxEvents = 3
    MaxRead = 2
    Payload = 2
    InPipe = 1
    OutPipe = 1
    MaxOps = 3
    Starters = {s1, s2}
    MaxBrowserStarts = 2
INVARIANTS
    SessionTypeOK
    NoSilentGap
    InteractionsInOrder
    
PROPERTY BrowserIsOwned
SYMMETRY MCSymmetry
CHECK_DEADLOCK FALSE
