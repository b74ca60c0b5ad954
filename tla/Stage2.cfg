SPECIFICATION Spec
CONSTANTS
    Fanout = 2
    PCPU_NUM = 3
    RamStart = 9
    MaxPages = 14
    MaxRam = 5
    Entry = 8
    Uart = 4
    Virtio <- McVirtio
    Gicd <- McGicd
    Gicr <- McGicr
INVARIANTS GuestIsolated ImageLoaded TrapsUnmapped
PROPERTIES ImplementsAddressMap
