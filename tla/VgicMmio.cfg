SPECIFICATION MmioSpec
CONSTANTS
    NCPU = 2
    Sgi = {}
    Ppi = {1}
    Spi = {2}
    Stride = 4
    Prio = {0, 1}
    CrossCpu = FALSE
INVARIANTS ForwardedWhenEnabled BankedUntilUp
CHECK_DEADLOCK FALSE
