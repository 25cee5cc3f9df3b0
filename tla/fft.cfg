SPECIFICATION FairSpec
CONSTANTS
    iq = iq
    real = real
    Signals = {iq, real}
    Type <- MCType
    Size <- MCSize
    Order <- MCOrder
    Shapes <- MCShapes
    MaxSends <- MCMaxSends
    QueueSize = 1
    PlanFails = TRUE
INVARIANTS TypeOK WithinBuffers Settled
PROPERTIES StaysFresh Unblocked
CHECK_DEADLOCK FALSE
