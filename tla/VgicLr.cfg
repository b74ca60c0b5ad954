CONSTANTS
    Irq = {timer, uart, virtio}
    Withdrawn = {uart}
    NLr = 2
    Spurious = Spurious
    MaxRaise = 2
SPECIFICATION FairSpec
INVARIANTS
    OneLrPerIrq
PROPERTIES
    NoLrOverwritten
    LostOnlyWhenFull
    RaisedIsServed
CHECK_DEADLOCK FALSE
