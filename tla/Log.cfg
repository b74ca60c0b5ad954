SPECIFICATION FairSpec
CONSTANTS
    p1 = p1
    p2 = p2
    Proc = {p1, p2}
    None = None
    NBUF = 4
    NHOME = 4
    MAXOPBLOCKS = 2
    LOGSIZE = 4
    MaxWrites = 1
    MaxOps = 3
    Calls <- MCCalls
    Reads <- MCReads
    MaxAgain = 1
    MaxReads = 1
    MaxCrash = 2
INVARIANTS
    NoPanic
PROPERTIES
    ImplementsAtomicDisk
    CallReturns
CHECK_DEADLOCK FALSE
