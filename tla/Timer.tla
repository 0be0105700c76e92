-------------------------------- MODULE Timer --------------------------------
(***************************************************************************)
(* The emulator's event timers: src/timer.c, src/include/86box/timer.h and *)
(* the CPU loop that drives them.                                          *)
(*                                                                         *)
(* Everything here runs on the one CPU thread.  What interleaves is        *)
(* control: instructions advance the time stamp counter by uneven amounts, *)
(* device code calls the timer API between instructions, and the callbacks *)
(* that timer_process() runs call the same API while it walks the list.    *)
(* Timestamps wrap, and deadlines are compared by wrapped difference.      *)
(***************************************************************************)
EXTENDS TimerStamps, FiniteSets

CONSTANTS
    Timers,         \* the timers registered with timer_add()
    NoTimer,        \* not a timer
    Onesec,         \* the RTC timer of nvr.c, which always re-arms itself
    Raw,            \* timers used through timer_set_delay_u64() and friends
    OnAuto,         \* timers used through timer_on_auto() and timer_stop()
    Fast,           \* the timer of cpu_fast_off_advance()
    NullCallback,   \* timers registered with a NULL callback
    Machines,       \* the sets of timers that the devices of a machine may use
    Delays,         \* delays given to the u64 interface, as stamps
    OnesecDelay,    \* 10000 * TIMER_USEC
    Grain,          \* the parts of a microsecond that a period is counted in
    Periods,        \* periods given to timer_on_auto(), in 1 / Grain us
    FastPeriods,    \* periods of the fast-off timer, in 1 / Grain us
    MAX_USEC,       \* the longest period armed in one piece, 1 s, in us
    TIMER_USEC,     \* fraction units in a microsecond
    Doubles,        \* the numbers that a double can hold, in 1 / Grain
    Rounding,       \* the most that a product is off when it is held in a double
    NewTscs,        \* values a guest writes into its time stamp counter
    MaxStep         \* the most cycles that pass between two target checks

(* A number of fraction units as a stamp. *)
StampOf(units) == [integer |-> units \div Frac, frac |-> units % Frac]

Distance(a, b) == IF a <= b THEN b - a ELSE a - b

(* What the product of two doubles comes to: the nearest number that has   *)
(* few enough significant bits.                                            *)
Nearest(x) ==
    CHOOSE d \in Doubles : \A e \in Doubles : Distance(d, x) <= Distance(e, x)

(* Seeded fault: the cast binds to the period alone. *)
UsecStampCastFirst(p) == StampOf((p \div Grain) * TIMER_USEC)

(* "(uint64_t) (timer->period * ((double) TIMER_USEC))": the product of    *)
(* doubles is rounded, the cast drops its fraction.                        *)
UsecStamp(p) == StampOf(Nearest(p * TIMER_USEC) \div Grain)

(* "MAX_USEC64 * TIMER_USEC", a product of integers. *)
MaxUsecStamp == StampOf(MAX_USEC * TIMER_USEC)

(* timer.h: a period is at most 0x7fffffff cycles, less the cycles the CPU *)
(* may run past a deadline before it looks.                                *)
Window == Half - MaxStep - 2
Delay  == [integer : 0 .. Window, frac : 0 .. Frac - 1]

ASSUME TimersAssumption ==
    /\ NoTimer \notin Timers
    /\ Onesec \in Timers /\ Raw \subseteq Timers
    /\ OnAuto \subseteq Timers /\ Fast \subseteq Timers
    /\ Onesec \notin Raw \cup OnAuto \cup Fast \cup NullCallback
    /\ Raw \cap OnAuto = {} /\ Fast \cap (Raw \cup OnAuto) = {}
    /\ \A m \in Machines : m \subseteq Timers

ASSUME DelayAssumption ==
    /\ MaxStep \in Nat \ {0} /\ Window \in Nat
    /\ Delays \subseteq Delay /\ OnesecDelay \in Delay
    /\ NewTscs \subseteq Integer

ASSUME UnitAssumption ==
    /\ MAX_USEC \in Nat \ {0} /\ TIMER_USEC \in Nat \ {0}
    /\ Grain \in Nat \ {0} /\ Rounding \in Nat
    /\ Periods \subseteq Nat /\ FastPeriods \subseteq Nat \ {0}

ASSUME PeriodAssumption ==
    /\ MaxUsecStamp \in Delay
    /\ \A p \in 0 .. MAX_USEC * Grain :
           /\ UsecStamp(p) \in Delay
           /\ Nearest(p * TIMER_USEC) \in Nat
           /\ Nearest(p * TIMER_USEC) - p * TIMER_USEC \in - Rounding .. Rounding

VARIABLES
    list,       \* the enabled timers from timer_head on
    ts,         \* timer->ts
    period,     \* timer->period, still to be armed, in 1 / Grain us
    split,      \* timers with TIMER_SPLIT set
    inCallback, \* timers with in_callback set
    tsc,        \* the time stamp counter, low 32 bits
    target,     \* timer_target
    pc,         \* "cpu", in the "loop" of timer_process(), or in a "callback"
    cur,        \* the timer whose callback runs
    devices,    \* the timers that the devices of this machine use
    left,       \* history: fraction units until the delays added up are over
    asked       \* history: until what was asked for is over, in 1 / Grain of them

vars == <<list, ts, period, split, inCallback, tsc, target, pc, cur, devices,
          left, asked>>

Enabled == ToSet(list)
Units(stamp) == stamp.integer * Frac + stamp.frac

(* Cycles until timer t's timestamp, by wrapped difference. *)
Signed(d) == IF d >= Half THEN d - Modulus ELSE d
Offset(t) == Signed(SubInt(ts[t].integer, tsc))

-----------------------------------------------------------------------------
(* timer_init() and nvr_init(): the RTC timer is added already started, so *)
(* it is enabled at once, due at cycle 0; the other timers are idle.  Which *)
(* of them there are is the machine's configuration.                       *)

Init ==
    /\ list = <<Onesec>>
    /\ ts = [t \in Timers |-> AtTsc(0)]
    /\ period = [t \in Timers |-> 0]
    /\ split = {} /\ inCallback = {}
    /\ tsc = 0 /\ target = 0
    /\ pc = "cpu" /\ cur = NoTimer
    /\ devices \in Machines
    /\ left = [t \in Timers |-> 0]
    /\ asked = [t \in Timers |-> 0]

-----------------------------------------------------------------------------
(* The list operations. *)

(* timer_enable() aims at a timer it puts at the head. *)
TargetFor(i, stamp) == IF i = 1 THEN stamp.integer ELSE target

(* A new timestamp and timer_enable(): a timer that is enabled already is  *)
(* taken out first.                                                        *)
timer_enable(t, stamp) ==
    LET rest == Without(list, t)
    IN  \E i \in 1 .. Len(rest) + 1 :
            /\ GoesAt(rest, ts, stamp, i)
            /\ list' = InsertAt(rest, i, t)
            /\ ts' = [ts EXCEPT ![t] = stamp]
            /\ target' = TargetFor(i, stamp)

(* What timer_disable() does to in_callback, also from within              *)
(* timer_enable(): nothing to a timer that is not enabled.                 *)
ClearedByDisable(t) == inCallback \ (Enabled \cap {t})

(* Nothing is asked of a timer that is off. *)
Forget(t) ==
    /\ left' = [left EXCEPT ![t] = 0]
    /\ asked' = [asked EXCEPT ![t] = 0]

timer_advance_u64(t, delay) ==
    /\ timer_enable(t, AddStamp(ts[t], delay))
    /\ left' = [left EXCEPT ![t] = @ + Units(delay)]

timer_set_delay_u64(t, delay) ==
    /\ timer_enable(t, AddStamp(AtTsc(tsc), delay))
    /\ left' = [left EXCEPT ![t] = Units(delay)]

timer_do_period(t, delay, start) ==
    IF start THEN timer_set_delay_u64(t, delay) ELSE timer_advance_u64(t, delay)

(* Seeded fault: a period of exactly MAX_USEC is split as well. *)
IsLongFromMax(p) == p >= MAX_USEC * Grain

(* "timer->period > MAX_USEC". *)
IsLong(p) == p > MAX_USEC * Grain

(* timer_advance_ex() with timer->period = p: arm at most MAX_USEC and     *)
(* keep the rest for the next expiry.                                      *)
timer_advance_ex(t, p, start) ==
    IF IsLong(p) THEN
        /\ timer_do_period(t, MaxUsecStamp, start)
        /\ period' = [period EXCEPT ![t] = p - MAX_USEC * Grain]
        /\ split' = split \cup {t}
        /\ inCallback' = ClearedByDisable(t)
    ELSE
        /\ IF p > 0 THEN timer_do_period(t, UsecStamp(p), start)
                    ELSE list' = Without(list, t) /\ UNCHANGED <<ts, target, left>>
        /\ period' = [period EXCEPT ![t] = 0]
        /\ split' = split \ {t}
        /\ inCallback' = ClearedByDisable(t)

-----------------------------------------------------------------------------
(* timer_process(), one action per turn of its loop. *)

(* Seeded fault: a timer is taken one cycle before its timestamp. *)
HeadIsDueOneEarly == TIMER_LESS_THAN_VAL(ts[Head(list)], AddInt(tsc, 1))

(* "TIMER_LESS_THAN_VAL(timer, (uint32_t) tsc)" for the head. *)
HeadIsDue == TIMER_LESS_THAN_VAL(ts[Head(list)], tsc)

(* The head leaves the list.  A split timer takes its next piece, a timer  *)
(* without callback just stops, any other one runs its callback.           *)
(* (timer_enable() finds the popped timer out of the list; taking it out   *)
(* there, as a re-enabled timer, leaves the same list.)                    *)
ProcessSplit(t) ==
    /\ t \in split
    /\ timer_advance_ex(t, period[t], FALSE)
    /\ UNCHANGED <<tsc, pc, cur, devices, asked>>

ProcessNull(t) ==
    /\ t \notin split /\ t \in NullCallback
    /\ list' = Tail(list)
    /\ Forget(t)
    /\ UNCHANGED <<ts, period, split, inCallback, tsc, target, pc, cur, devices>>

ProcessFire(t) ==
    /\ t \notin split /\ t \notin NullCallback
    /\ list' = Tail(list)
    /\ inCallback' = inCallback \cup {t}
    /\ pc' = "callback" /\ cur' = t
    /\ UNCHANGED <<ts, period, split, tsc, target, devices, left, asked>>

ProcessPop ==
    /\ pc = "loop" /\ list # <<>> /\ HeadIsDue
    /\ \/ ProcessSplit(Head(list))
       \/ ProcessNull(Head(list))
       \/ ProcessFire(Head(list))

(* The callback returns: in_callback is cleared, whatever the callback did *)
(* with its own timer.                                                     *)
Return(t) ==
    /\ inCallback' = inCallback \ {t}
    /\ pc' = "loop" /\ cur' = NoTimer

CallbackReturn ==
    /\ pc = "callback" /\ cur # Onesec
    /\ Return(cur)
    /\ IF cur \in Enabled THEN UNCHANGED <<left, asked>> ELSE Forget(cur)
    /\ UNCHANGED <<list, ts, period, split, tsc, target, devices>>

(* Seeded faults: the callback does not re-arm its timer, or adds no time. *)
OnesecNotRearmed   == UNCHANGED <<list, ts, target, left, asked>>
OnesecSameDeadline == timer_enable(Onesec, ts[Onesec]) /\ UNCHANGED <<left, asked>>

(* onesec_timer() ends with timer_advance_u64(). *)
OnesecRearmed ==
    /\ timer_advance_u64(Onesec, OnesecDelay)
    /\ asked' = [asked EXCEPT ![Onesec] = Grain * (left[Onesec] + Units(OnesecDelay))]

OnesecReturn ==
    /\ pc = "callback" /\ cur = Onesec
    /\ OnesecRearmed
    /\ Return(Onesec)
    /\ UNCHANGED <<period, split, tsc, devices>>

(* Seeded fault: timer_target is left at the deadline that was met. *)
TargetLeftBehind == target

(* "timer_target = timer_head->ts.ts32.integer". *)
TargetOfHead == ts[Head(list)].integer

(* The head is not due: leave the loop and aim at the head. *)
ProcessEnd ==
    /\ pc = "loop" /\ list # <<>> /\ ~ HeadIsDue
    /\ target' = TargetOfHead
    /\ pc' = "cpu"
    /\ UNCHANGED <<list, ts, period, split, inCallback, tsc, cur, devices, left, asked>>

-----------------------------------------------------------------------------
(* The CPU loop: run for d cycles, then look at timer_target. *)

CpuStep(d) ==
    /\ pc = "cpu"
    /\ tsc' = AddInt(tsc, d)
    /\ left' = [t \in Timers |-> IF t \in Enabled THEN left[t] - d * Frac ELSE left[t]]
    /\ asked' = [t \in Timers |->
                    IF t \in Enabled THEN asked[t] - Grain * (d * Frac) ELSE asked[t]]
    /\ pc' = IF TIMER_VAL_LESS_THAN_VAL(target, tsc') /\ list # <<>>
             THEN "loop" ELSE "cpu"
    /\ UNCHANGED <<list, ts, period, split, inCallback, target, cur, devices>>

(* pit.c, pit_fast.c and keyboard_xt.c call timer_process() outright. *)
ProcessNow ==
    /\ pc = "cpu" /\ list # <<>>
    /\ pc' = "loop"
    /\ UNCHANGED <<list, ts, period, split, inCallback, tsc, target, cur, devices,
                   left, asked>>

(* Seeded fault: a guest write to the counter leaves the timestamps alone. *)
TimerSetNewTscKeepsStamps(n) ==
    /\ pc = "cpu"
    /\ tsc' = n
    /\ left' = [t \in Timers |->
                   IF t \in Enabled
                   THEN Signed(SubInt(ts[t].integer, n)) * Frac + ts[t].frac
                   ELSE left[t]]
    /\ asked' = [t \in Timers |-> Grain * left'[t]]
    /\ UNCHANGED <<list, ts, period, split, inCallback, target, pc, cur, devices>>

(* WRMSR on the time stamp counter: every enabled timer, and timer_target  *)
(* with the head, keep their distance from the counter.                    *)
timer_set_new_tsc(n) ==
    /\ pc = "cpu"
    /\ tsc' = n
    /\ ts' = [t \in Timers |->
                 IF t \in Enabled
                 THEN [ts[t] EXCEPT !.integer = AddInt(n, SubInt(ts[t].integer, tsc))]
                 ELSE ts[t]]
    /\ target' = IF list = <<>> THEN target
                 ELSE AddInt(n, SubInt(ts[Head(list)].integer, tsc))
    /\ UNCHANGED <<list, period, split, inCallback, pc, cur, devices, left, asked>>

-----------------------------------------------------------------------------
(* Device code: between instructions, or inside a callback. *)

DeviceCode == pc \in {"cpu", "callback"}

DeviceSetDelay(t, delay) ==
    /\ DeviceCode /\ t \in Raw
    /\ timer_set_delay_u64(t, delay)
    /\ inCallback' = ClearedByDisable(t)
    /\ asked' = [asked EXCEPT ![t] = Grain * Units(delay)]
    /\ UNCHANGED <<period, split, tsc, pc, cur, devices>>

(* timer.h: "used to resume a recurring timer in a callback routine". *)
DeviceAdvance(t, delay) ==
    /\ t \in Raw \cap inCallback /\ t \notin Enabled
    /\ timer_advance_u64(t, delay)
    /\ asked' = [asked EXCEPT ![t] = Grain * (left[t] + Units(delay))]
    /\ UNCHANGED <<period, split, inCallback, tsc, pc, cur, devices>>

timer_disable(t) ==
    /\ DeviceCode /\ t \in Raw \cap Enabled
    /\ list' = Without(list, t)
    /\ inCallback' = ClearedByDisable(t)
    /\ Forget(t)
    /\ UNCHANGED <<ts, period, split, tsc, target, pc, cur, devices>>

timer_stop(t) ==
    /\ list' = Without(list, t)
    /\ period' = [period EXCEPT ![t] = 0]
    /\ split' = split \ {t}
    /\ inCallback' = inCallback \ {t}
    /\ Forget(t)
    /\ UNCHANGED <<ts, tsc, target, pc, cur, devices>>

(* timer_on() with a positive period: from now if the timer has no period  *)
(* left and is not in its callback, else from its last timestamp.          *)
timer_on(t, p, callbacks) ==
    LET start == period[t] = 0 /\ t \notin callbacks
    IN  /\ timer_advance_ex(t, p, start)
        /\ asked' = [asked EXCEPT ![t] =
                         p * TIMER_USEC + IF start THEN 0 ELSE Grain * left[t]]
        /\ UNCHANGED <<tsc, pc, cur, devices>>

(* Device code starts a long period when the last one is over, once per    *)
(* callback of its own.  (cpu_fast_off_advance() does not keep to that.)   *)
timer_on_auto(t, p) ==
    /\ DeviceCode /\ t \in OnAuto
    /\ IF p > 0
       THEN /\ period[t] = 0 /\ ~ (t \in inCallback /\ t \in Enabled)
            /\ timer_on(t, p, inCallback)
       ELSE timer_stop(t)

(* On every interrupt: timer_disable(), then timer_on_auto().  (Until a    *)
(* chipset sets the period, the call finds the timer off and does nothing.) *)
cpu_fast_off_advance(t, p) ==
    /\ DeviceCode /\ t \in Fast
    /\ timer_on(t, p, ClearedByDisable(t))

-----------------------------------------------------------------------------
Device(t) ==
    \/ \E d \in Delays : DeviceSetDelay(t, d) \/ DeviceAdvance(t, d)
    \/ timer_disable(t)
    \/ \E p \in Periods : timer_on_auto(t, p)
    \/ \E p \in FastPeriods : cpu_fast_off_advance(t, p)

Process == ProcessPop \/ CallbackReturn \/ OnesecReturn \/ ProcessEnd

Cpu == \E d \in 1 .. MaxStep : CpuStep(d)

Next ==
    \/ Cpu
    \/ ProcessNow
    \/ Process
    \/ \E n \in NewTscs : timer_set_new_tsc(n)
    \/ \E t \in devices : Device(t)

Spec == Init /\ [][Next]_vars

(* Every callback returns, and the CPU thread goes on executing            *)
(* instructions: between two writes that call timer_process() outright it  *)
(* spends the cycles of the writing instruction, hence strong fairness.    *)
FairSpec == Spec /\ WF_vars(Process) /\ SF_vars(Cpu)

-----------------------------------------------------------------------------
(* Every variable has its type; the list holds each timer at most once.    *)
TypeOK ==
    /\ list \in Seq(Timers)
    /\ \A i, j \in DOMAIN list : i # j => list[i] # list[j]
    /\ ts \in [Timers -> Stamp]
    /\ period \in [Timers -> Nat]
    /\ split \subseteq Timers /\ inCallback \subseteq Timers
    /\ tsc \in Integer /\ target \in Integer
    /\ pc \in {"cpu", "loop", "callback"}
    /\ cur \in Timers \cup {NoTimer}
    /\ devices \subseteq Timers
    /\ left \in [Timers -> Int] /\ asked \in [Timers -> Int]

(* timer_process() dereferences timer_head after every callback without a  *)
(* test: the list must never run empty under its loop.                     *)
HeadNeverNull == pc = "loop" => list # <<>>

(* timer.c: "stored in a linked list, with the first timer to expire at    *)
(* the head" - of the true deadlines, not of the wrapped timestamps that   *)
(* timer_enable() compares, whatever order the timers were armed in.       *)
SortedByDeadline ==
    \A i, j \in DOMAIN list : i < j => left[list[i]] <= left[list[j]]

(* All that happens to the list are the steps of TimerQueue, which the     *)
(* pointers of TimerLinks implement, with the true deadlines for keys: a   *)
(* timer goes in front of those with its deadline, no step moves another   *)
(* timer, and running time brings all deadlines nearer alike.              *)
Queue == INSTANCE TimerQueue
            WITH queue <- list, key <- left, Keys <- Int

Inserted == \E t \in Timers : Queue!Insert(t, left'[t])
Removed  == /\ \E t \in Timers : list' = Without(list, t)
            /\ \A x \in Enabled' : left'[x] = left[x]
Elapsed  == /\ list' = list
            /\ \E u \in 0 .. MaxStep * Frac : \A x \in Enabled : left'[x] = left[x] - u

QueueByDeadline == [][Inserted \/ Removed \/ Elapsed]_vars

(* timer.h: the CPU looks at timer_target only, so while it runs the       *)
(* target may be early (timer_disable() leaves it behind) and never later  *)
(* than the first enabled timer.                                           *)
TargetNotLate ==
    pc = "cpu" /\ list # <<>> =>
        Signed(SubInt(target, tsc)) <= Offset(Head(list))

(* exec386() runs instructions while cycdiff < cycle_period, which it sets *)
(* to "(timer_target - (uint32_t) tsc) + 1" as an int32_t, inside a loop   *)
(* that ends only when cycles were spent.  A period that is not positive   *)
(* would spin there for ever.                                              *)
CyclePeriodPositive ==
    pc = "cpu" => Signed(AddInt(SubInt(target, tsc), 1)) > 0

(* The 32-bit timestamp of an enabled timer, with what is still to be      *)
(* armed, stands for the deadline that was asked for: arming, re-arming    *)
(* late, splitting, wrapping and guest writes to the counter lose nothing. *)
(* Only timer_advance_ex() is off, with the last piece of a period: by the *)
(* rounding of one product of doubles and the part of a fraction unit that *)
(* the cast drops.  A callback that starts its period anew starts it from  *)
(* the timestamp, so this may add up from period to period.                *)
StampWithinRounding ==
    \A t \in Enabled :
        asked[t] - period[t] * TIMER_USEC - Grain * (Offset(t) * Frac + ts[t].frac)
            \in IF t \in split THEN {0} ELSE - Rounding .. Grain - 1 + Rounding

(* A callback runs in the cycle its deadline falls into or later, and no   *)
(* later than the CPU can overrun a target check; for a period split by    *)
(* timer_advance_ex() this is the whole period, up to the rounding of its  *)
(* last piece.                                                             *)
FiresOnTime ==
    [][pc = "loop" /\ pc' = "callback" =>
          /\ asked[cur'] < Grain * Frac + Rounding
          /\ asked[cur'] >= - (Grain * MaxStep * Frac + Rounding)]_vars

(* timer_process() takes a timer off the list for good only to run its     *)
(* callback: a split period is never dropped between two pieces.           *)
NoDeadlineDropped ==
    [][pc = "loop" => \A t \in Enabled \ NullCallback :
                          t \in Enabled' \/ cur' = t]_vars

(* timer.h: "timer period must be at most 1 second" - what timer_on_auto() *)
(* has armed is over within MAX_USEC of the running cycle's end.           *)
AtMostOneSecond ==
    \A t \in Enabled \cap (OnAuto \cup Fast) :
        left[t] < MAX_USEC * TIMER_USEC + Frac

(* The loop of timer_process() ends: the CPU always gets to run again.     *)
CpuRunsAgain == []<>(pc = "cpu")

(* The RTC timer runs again and again, whatever the other timers, the      *)
(* callbacks and guest writes to the time stamp counter do.                *)
OnesecRecurs == []<>(cur = Onesec)

==============================================================================
