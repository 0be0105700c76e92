SPECIFICATION FairSpec
CONSTANTS
    PARAM_SIZE = 1
    FIFO_SIZE = 3
    Margin = 1
    Level = 1
    TripleModes = {TRUE, FALSE}
    Writes = {"triangle", "pixel", "swap", "flip"}
    MaxWrites = 3
CHECK_DEADLOCK FALSE
INVARIANTS FramebufferQuiet DrawnHidden StatusCounts
PROPERTIES GuestGoesOn PolledWorkDone
