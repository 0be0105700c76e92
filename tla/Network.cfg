SPECIFICATION FairSpec
CONSTANTS
    QueueLen = 3
    PipeCap = 1
    LinkStates = {"up", "down"}
    MaxTx = 3
    MaxRx = 2
INVARIANTS BuffersDistinct PacketsInOrder NotifiedOfPackets
PROPERTIES PacketsArrive LinkSettles CloseEnds
