SPECIFICATION Spec
CONSTANTS
    Writer = {w1, w2}
    Secondary = {c1}
    SyncCpu = {c2}
    BufSize = 2
    FifoSize = 2
    Trigger = 0
    MaxOut = 5
    MaxIn = 1
INVARIANTS OutputInOrder
CHECK_DEADLOCK FALSE
