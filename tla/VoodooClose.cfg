SPECIFICATION FairSpec
CONSTANTS
    PARAM_SIZE = 1
    FIFO_SIZE = 3
    Margin = 1
    Level = 1
    TripleModes = {FALSE}
    Writes = {"triangle", "swap"}
    MaxWrites = 1
CHECK_DEADLOCK FALSE
PROPERTY CloseEnds
