SPECIFICATION Spec
CONSTANTS
    Half = 4
    Wide = 32
    MaxBlock = 3
    Writes = {0, 3, 6, 21, 29}
INVARIANTS CountedOnce
PROPERTIES RdtscAdvances
