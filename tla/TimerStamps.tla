----------------------------- MODULE TimerStamps -----------------------------
(***************************************************************************)
(* Timestamps of the timer core (src/include/86box/timer.h) and the        *)
(* operations on the list of enabled timers that do not touch the clock.   *)
(*                                                                         *)
(* A timestamp is a fixed-point number "integer:frac".  The integer part   *)
(* has Modulus = 2 * Half values (2^32 in the code, Half = 2^31), the      *)
(* fraction has Frac values (2^32).  Both halves wrap, and the order is    *)
(* the sign of the wrapped difference.                                     *)
(***************************************************************************)
EXTENDS Integers, TimerList

CONSTANTS
    Half,   \* half the range of an integer timestamp, 2^31
    Frac    \* fraction units in one cycle, 2^32

ASSUME StampAssumption == Half \in Nat \ {0} /\ Frac \in Nat \ {0}

Modulus == 2 * Half
Integer == 0 .. Modulus - 1
Stamp   == [integer : Integer, frac : 0 .. Frac - 1]

(* Sums and differences of the uint32_t integer parts. *)
AddInt(a, d) == IF a + d >= Modulus THEN a + d - Modulus ELSE a + d
SubInt(a, b) == IF a >= b THEN a - b ELSE a - b + Modulus

(* ts.ts64 += delay: the fraction carries into the integer part. *)
AddStamp(s, d) ==
    LET carry == s.frac + d.frac >= Frac
    IN  [integer |-> AddInt(s.integer, d.integer + IF carry THEN 1 ELSE 0),
         frac    |-> s.frac + d.frac - IF carry THEN Frac ELSE 0]

(* The timestamp of this very cycle: ts.ts64 = 0, ts.ts32.integer = tsc. *)
AtTsc(now) == [integer |-> now, frac |-> 0]

(* "(int32_t) (a - b) <= 0". *)
TIMER_VAL_LESS_THAN_VAL(a, b) ==
    SubInt(a, b) = 0 \/ SubInt(a, b) >= Half

TIMER_LESS_THAN_VAL(s, b) == TIMER_VAL_LESS_THAN_VAL(s.integer, b)

(* Seeded fault: timestamps compared without regard to their wrapping. *)
StampLessUnwrapped(a, b) ==
    a.integer < b.integer \/ (a.integer = b.integer /\ a.frac <= b.frac)

(* "(int64_t) (a.ts64 - b.ts64) <= 0": the borrow of the fractions comes   *)
(* out of the integer difference.                                          *)
TIMER_LESS_THAN(a, b) ==
    LET borrow == a.frac < b.frac
        high   == SubInt(SubInt(a.integer, b.integer), IF borrow THEN 1 ELSE 0)
    IN  (high = 0 /\ a.frac = b.frac) \/ high >= Half

(* The search of timer_enable(): the new timer goes in front of the first  *)
(* timer it is not later than, or to the end of the list.                  *)
GoesAt(q, stamps, s, i) ==
    /\ \A j \in 1 .. i - 1 : ~ TIMER_LESS_THAN(s, stamps[q[j]])
    /\ i <= Len(q) => TIMER_LESS_THAN(s, stamps[q[i]])

==============================================================================
