CONSTANTS
    Proc = {"p1", "p2"}
    Kicker = {"k1"}
    RingSize = {5, 6}
    IdxMod = 30
    FSIMG_SIZE = 2
    Data <- MCData
    Zero = "zero"
    Payload <- MCPayload
    Image <- MCImage
    Nobody = Nobody
    Start = 29
    MaxReq <- MCMaxReq
    MaxKick = 1
SPECIFICATION FairSpec
INVARIANTS
    ChainIntact
    CompletionsValid
    InterruptOnItsWay
PROPERTIES
    ImplementsBlockDevice
    RequestCompletes
CHECK_DEADLOCK FALSE
