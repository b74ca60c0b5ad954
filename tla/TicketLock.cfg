CONSTANTS
    CPU = {c0, c1, c2}
    Mod = 4
SPECIFICATION Spec
PROPERTIES ImplementsFifoLock TicketServed
