------------------------------ MODULE CpuCycles ------------------------------
(***************************************************************************)
(* How the recompiling CPU core (src/cpu/386_dynarec.c) turns the cycles   *)
(* its blocks spend into the time stamp counter that the timers run on.    *)
(*                                                                         *)
(* A block spends cycles by counting "cycles" down.  The counter catches   *)
(* up at the end of the block, and earlier wherever code calls             *)
(* update_tsc(): RDTSC, the delay ports, the ACPI timer and a guest write  *)
(* to the counter.  Each time the cycles counted already must be left out. *)
(***************************************************************************)
EXTENDS Integers

CONSTANTS
    Half,       \* half the range of an int32_t
    Wide,       \* the range of the uint64_t counter
    MaxBlock,   \* the most cycles a block spends
    Writes      \* how far ahead of the counter a guest writes it, mod Wide

ASSUME CyclesAssumption ==
    /\ Half \in Nat \ {0} /\ MaxBlock \in 1 .. Half - 1
    /\ \E words \in 1 .. Wide : Wide = words * (2 * Half)
    /\ Wide \in Nat /\ Writes \subseteq 0 .. Wide - 1

VARIABLES
    tsc,    \* the time stamp counter
    base,   \* tsc_old and oldtsc: the counter when the block began
    spent,  \* cycles_old - cycles: cycles the block has spent
    ideal,  \* history: the counter with every cycle counted as it is spent
    written \* history: whether the guest wrote the counter in this block

vars == <<tsc, base, spent, ideal, written>>

(* Sums and differences of uint64_t values. *)
AddWide(a, d) == IF a + d >= Wide THEN a + d - Wide ELSE a + d
SubWide(a, b) == IF a >= b THEN a - b ELSE a - b + Wide

(* Conversion to int32_t. *)
Int32(x) == LET low == x % (2 * Half) IN IF low >= Half THEN low - 2 * Half ELSE low

Init ==
    /\ tsc = 0 /\ base = 0
    /\ spent = 0 /\ ideal = 0 /\ written = FALSE

(* An instruction of the block takes c cycles. *)
Ins(c) ==
    /\ spent + c <= MaxBlock
    /\ spent' = spent + c
    /\ ideal' = AddWide(ideal, c)
    /\ UNCHANGED <<tsc, base, written>>

(* Seeded fault: the cycles counted already are counted again. *)
CycdiffAll(total) == total

(* "cycdiff -= delta": what the block spent, less what the counter moved.  *)
Cycdiff(total) ==
    LET delta == SubWide(tsc, base)
    IN  IF delta > 0 THEN Int32(total - delta) ELSE total

(* The counter after update_tsc(), and after the end of the block. *)
Updated(total) ==
    IF Cycdiff(total) > 0 THEN AddWide(tsc, Cycdiff(total)) ELSE tsc

update_tsc ==
    /\ tsc' = Updated(spent)
    /\ UNCHANGED <<base, spent, ideal, written>>

(* Seeded fault: RDTSC spends its cycle after the update. *)
RdtscTotalEarly == spent

(* RDTSC reads the counter, spends one cycle and then updates.             *)
RdtscTotal == spent + 1

opRDTSC ==
    /\ spent < MaxBlock
    /\ spent' = spent + 1
    /\ ideal' = AddWide(ideal, 1)
    /\ tsc' = Updated(RdtscTotal)
    /\ UNCHANGED <<base, written>>

(* WRMSR on the counter: timer_set_new_tsc() updates it (and runs the      *)
(* timers that are due), then assigns it; the instruction takes a cycle.   *)
opWRMSR(k) ==
    /\ spent < MaxBlock
    /\ spent' = spent + 1
    /\ tsc' = AddWide(Updated(spent), k)
    /\ written' = TRUE
    /\ UNCHANGED <<base, ideal>>

(* The block is over: count the rest, and begin the next one.  (After a    *)
(* block with a write, the history starts again from the counter.)         *)
BlockEnd ==
    /\ spent > 0
    /\ tsc' = Updated(spent)
    /\ base' = tsc' /\ spent' = 0
    /\ ideal' = IF written THEN tsc' ELSE ideal
    /\ written' = FALSE

Next ==
    \/ \E c \in 1 .. MaxBlock : Ins(c)
    \/ update_tsc
    \/ opRDTSC
    \/ \E k \in Writes : opWRMSR(k)
    \/ BlockEnd

Spec == Init /\ [][Next]_vars

-----------------------------------------------------------------------------
(* Every variable has its type. *)
TypeOK ==
    /\ tsc \in 0 .. Wide - 1 /\ base \in 0 .. Wide - 1
    /\ ideal \in 0 .. Wide - 1
    /\ spent \in 0 .. MaxBlock /\ written \in BOOLEAN

(* 386_dynarec.c: "TSC has changed, this means interim timer processing    *)
(* has happened, see how much we still need to add."  Whatever mixture of  *)
(* updates a block makes, when it is over every cycle it spent was added   *)
(* once, also in the blocks after one in which the guest wrote the counter. *)
CountedOnce == spent = 0 => tsc = ideal

(* In the middle of a block the counter lags by the cycles that are still  *)
(* to be added, and never runs ahead of the CPU.                           *)
NeverAhead == ~ written => SubWide(ideal, tsc) <= spent

(* RDTSC leaves the counter later than the value it read, by no more than  *)
(* a block: a guest that polls the counter sees time pass.                 *)
RdtscAdvances ==
    [][opRDTSC /\ ~ written => SubWide(tsc', tsc) \in 1 .. MaxBlock]_vars
==============================================================================
