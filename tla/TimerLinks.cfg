SPECIFICATION Spec
CONSTANTS
    t1 = t1
    t2 = t2
    t3 = t3
    t4 = t4
    Timers = {t1, t2, t3, t4}
    NULL = NULL
    Keys = {0, 1, 2}
SYMMETRY Symmetry
INVARIANTS WellLinked
PROPERTIES ImplementsQueue
