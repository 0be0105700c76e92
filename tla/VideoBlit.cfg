SPECIFICATION FairSpec
CONSTANTS
    Bufs = 2
    MaxFrames = 3
INVARIANTS TargetStable RequestNoticed ImageStable
PROPERTIES ShownInOrder CardGoesOn CloseEnds
