SPECIFICATION Spec
CONSTANTS
    t0 = t0
    t1 = t1
    t2 = t2
    t3 = t3
    t4 = t4
    NoTimer = NoTimer
    Timers = {t0, t1, t2, t3, t4}
    Onesec = t0
    Raw = {t1, t3}
    OnAuto = {t2}
    Fast = {t4}
    NullCallback = {t3}
    Machines = {{t4}}
    Delays <- MCDelays
    OnesecDelay <- MCOnesecDelay
    Grain = 8
    Periods = {0}
    FastPeriods = {12}
    MAX_USEC = 1
    TIMER_USEC = 5
    Doubles <- MCDoubles
    Rounding = 8
    NewTscs = {5}
    Half = 6
    Frac = 2
    MaxStep = 2
INVARIANTS AtMostOneSecond
